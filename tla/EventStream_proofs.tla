-------------------------- MODULE EventStream_proofs -------------------------
(***************************************************************************)
(* Theorems about EventStream, for every text, cap and way to split the    *)
(* text into chunks. The recursive functions of the model (the client's    *)
(* parser, what was enqueued, the loop of drain) are read by what they do  *)
(* with one element more; what holds along one of them is proved from a    *)
(* least counterexample. The buffer is seen as a window of the text: what  *)
(* a match in it means there, what it weighs there, and what the client    *)
(* makes of a block cut from it.                                           *)
(***************************************************************************)
EXTENDS EventStream, SequenceTheorems, FiniteSetTheorems, FunctionTheorems, WellFoundedInduction, TLAPS

-----------------------------------------------------------------------------
(* The ground of every induction below.                                    *)

\* A non-empty set of numbers has a least one.
LEMMA LeastExists ==
  ASSUME NEW S \in SUBSET Nat, S # {}
  PROVE  \E m \in S : \A j \in S : m <= j
<1> DEFINE R == OpToRel(<, Nat)
<1>1. IsWellFoundedOn(R, Nat)
  BY NatLessThanWellFounded
<1>2. \A x, y \in Nat : <<y, x>> \in R <=> y < x
  BY DEF OpToRel
<1> HIDE DEF R
<1>3. PICK x \in S : \A y \in S : ~ (<<y, x>> \in R)
  BY <1>1, WFMin
<1>4. \A y \in S : x <= y
  <2> TAKE y \in S
  <2>1. x \in Nat /\ y \in Nat
    OBVIOUS
  <2>2. ~ (y < x)
    BY <1>2, <1>3, <2>1
  <2>3. QED
    BY <2>1, <2>2
<1>5. QED
  BY <1>4

-----------------------------------------------------------------------------
(* What a stretch of the text weighs.                                      *)

Hidden(s, a, b) == {k \in a..b : s[k] = "hidden"}
Weight(s, a, b) == (b - a + 1) + Cardinality(Hidden(s, a, b))

\* A stretch weighs a number, and its characters at least.
LEMMA WeightType ==
  ASSUME NEW s, NEW a \in Nat, NEW b \in Int, a <= b + 1
  PROVE  /\ IsFiniteSet(Hidden(s, a, b)) /\ Cardinality(Hidden(s, a, b)) \in Nat
         /\ Weight(s, a, b) \in Nat /\ Weight(s, a, b) >= b - a + 1
<1>1. IsFiniteSet(a..b) /\ Hidden(s, a, b) \in SUBSET (a..b)
  BY FS_Interval DEF Hidden
<1>2. IsFiniteSet(Hidden(s, a, b)) /\ Cardinality(Hidden(s, a, b)) \in Nat
  BY <1>1, FS_Subset, FS_CardinalityType
<1> QED
  BY <1>2 DEF Weight

\* Two stretches side by side weigh what they weigh together.
LEMMA WeightAdds ==
  ASSUME NEW s, NEW a \in Nat, NEW b \in Int, NEW c \in Int, a <= b + 1, b <= c
  PROVE  Weight(s, a, c) = Weight(s, a, b) + Weight(s, b + 1, c)
<1> DEFINE A == Hidden(s, a, b)
           B == Hidden(s, b + 1, c)
<1>1. IsFiniteSet(A) /\ IsFiniteSet(B) /\ Cardinality(A) \in Nat /\ Cardinality(B) \in Nat
  BY WeightType
<1>2. Hidden(s, a, c) = A \cup B /\ A \cap B = {}
  BY DEF Hidden
<1>3. Cardinality({}) = 0
  BY FS_EmptySet
<1>4. Cardinality(A \cup B) = Cardinality(A) + Cardinality(B) - Cardinality(A \cap B)
  BY <1>1, FS_Union
<1>5. Cardinality(Hidden(s, a, c)) = Cardinality(A) + Cardinality(B)
  <2> HIDE DEF A, B
  <2>1. Cardinality(A \cup B) = Cardinality(A) + Cardinality(B) - 0
    BY <1>2, <1>3, <1>4
  <2> QED
    BY <1>1, <1>2, <2>1
<1>6. /\ Weight(s, a, c) = (c - a + 1) + Cardinality(Hidden(s, a, c))
      /\ Weight(s, a, b) = (b - a + 1) + Cardinality(A)
      /\ Weight(s, b + 1, c) = (c - (b + 1) + 1) + Cardinality(B)
  BY DEF Weight
<1> HIDE DEF A, B
<1> QED
  BY <1>1, <1>5, <1>6

\* A stretch without anything hidden weighs its characters.
LEMMA WeightPlain ==
  ASSUME NEW s, NEW a \in Nat, NEW b \in Int, a <= b + 1, \A k \in a..b : s[k] # "hidden"
  PROVE  Weight(s, a, b) = b - a + 1
<1>1. Hidden(s, a, b) = {}
  BY DEF Hidden
<1>2. Cardinality({}) = 0
  BY FS_EmptySet
<1> QED
  BY <1>1, <1>2 DEF Weight

\* b is what s holds after its first `base` characters, as far as it goes.
Window(s, base, b) ==
  /\ base \in Nat /\ b \in Seq(Char) /\ base + Len(b) <= Len(s)
  /\ \A k \in 1..Len(b) : b[k] = s[base + k]

\* What the code counts of a string is the weight of the stretch it was cut from.
LEMMA BytesOfWindow ==
  ASSUME NEW s \in Seq(Char), NEW base, NEW b, Window(s, base, b)
  PROVE  Bytes(b) = Weight(s, base + 1, base + Len(b))
<1> DEFINE H == {k \in DOMAIN b : b[k] = "hidden"}
           T == Hidden(s, base + 1, base + Len(b))
           f == [k \in H |-> base + k]
<1>1. base \in Nat /\ Len(b) \in Nat /\ DOMAIN b = 1..Len(b) /\ \A k \in 1..Len(b) : b[k] = s[base + k]
  BY DEF Window
<1>2. H = {k \in 1..Len(b) : s[base + k] = "hidden"}
  BY <1>1
<1>3. T = {k \in (base + 1)..(base + Len(b)) : s[k] = "hidden"}
  BY DEF Hidden
<1>4. f \in Bijection(H, T)
  <2>1. f \in [H -> T] /\ \A x, y \in H : f[x] = f[y] => x = y
    <3> HIDE DEF H, T
    <3>1. \A x \in H : x \in 1..Len(b) /\ base + x \in T
      BY <1>1, <1>2, <1>3
    <3> QED
      BY <1>1, <3>1
  <2>2. \A t \in T : \E x \in H : f[x] = t
    <3> TAKE t \in T
    <3>1. t \in (base + 1)..(base + Len(b)) /\ s[t] = "hidden"
      BY <1>3
    <3>2. t - base \in 1..Len(b) /\ base + (t - base) = t
      BY <1>1, <3>1
    <3>3. t - base \in H
      BY <1>2, <3>1, <3>2
    <3> QED
      BY <3>2, <3>3
  <2> HIDE DEF H, T, f
  <2> QED
    BY <2>1, <2>2, Fun_IsBij
<1>5. IsFiniteSet(H)
  <2>1. IsFiniteSet(1..Len(b))
    BY <1>1, FS_Interval
  <2>2. H \in SUBSET (1..Len(b))
    BY <1>2
  <2> HIDE DEF H
  <2> QED
    BY <2>1, <2>2, FS_Subset
<1>6. Cardinality(H) = Cardinality(T)
  <2> HIDE DEF H, T, f
  <2>1. ExistsBijection(H, T)
    BY <1>4 DEF ExistsBijection
  <2> QED
    BY <2>1, <1>5, FS_Bijection
<1>7. Bytes(b) = Len(b) + Cardinality(H)
  BY DEF Bytes
<1>8. \A a, c : Weight(s, a, c) = (c - a + 1) + Cardinality(Hidden(s, a, c))
  BY DEF Weight
<1>9. Cardinality(H) = Cardinality(Hidden(s, base + 1, base + Len(b))) /\ Cardinality(H) \in Nat
  <2> HIDE DEF H, f
  <2> QED
    BY <1>5, <1>6, FS_CardinalityType
<1> HIDE DEF H, T, f
<1> QED
  BY <1>1, <1>7, <1>8, <1>9

-----------------------------------------------------------------------------
(* Where an event ends, seen in a window of the text.                      *)

\* A match takes two lines' ends, each of one character or two.
Match(one, two, three, four) ==
  CASE one = "CR" /\ two = "LF" /\ three = "CR" /\ four = "LF" -> 4
    [] one = "CR" /\ two = "LF" /\ three = "CR" /\ four # "LF" -> 3
    [] one = "CR" /\ two = "LF" /\ three = "LF" -> 3
    [] one \in {"CR", "LF"} /\ two = "CR" /\ three = "LF" -> 3
    [] one \in {"CR", "LF"} /\ two = "CR" /\ three # "LF" -> 2
    [] one = "LF" /\ two = "LF" -> 2
    [] OTHER -> 0

\* EVENT_END is that match on the next four characters (proxy.ts:1040-1041).
LEMMA EndIsMatch ==
  ASSUME NEW s, NEW p \in Nat
  PROVE  EventEnd(s, p) = Match(At(s, p), At(s, p + 1), At(s, p + 2), At(s, p + 3))
<1>1. p + 0 = p /\ (p + 1) + 1 = p + 2 /\ (p + 2) + 1 = p + 3
  OBVIOUS
<1>2. CASE At(s, p) = "CR" /\ At(s, p + 1) = "LF"
  <2>1. LineEnd(s, p) = 2
    BY <1>2 DEF LineEnd
  <2>2. LineEnd(s, p + 2) = IF At(s, p + 2) = "CR" THEN IF At(s, p + 3) = "LF" THEN 2 ELSE 1
                            ELSE IF At(s, p + 2) = "LF" THEN 1 ELSE 0
    BY <1>1 DEF LineEnd
  <2>3. EventEnd(s, p) = IF LineEnd(s, p + 2) > 0 THEN 2 + LineEnd(s, p + 2) ELSE 0
    BY <2>1 DEF EventEnd
  <2> QED
    BY <1>2, <2>2, <2>3 DEF Match
<1>3. CASE At(s, p) = "LF" \/ (At(s, p) = "CR" /\ At(s, p + 1) # "LF")
  <2>1. LineEnd(s, p) = 1
    BY <1>3 DEF LineEnd
  <2>2. LineEnd(s, p + 1) = IF At(s, p + 1) = "CR" THEN IF At(s, p + 2) = "LF" THEN 2 ELSE 1
                            ELSE IF At(s, p + 1) = "LF" THEN 1 ELSE 0
    BY <1>1 DEF LineEnd
  <2>3. EventEnd(s, p) = IF LineEnd(s, p + 1) > 0 THEN 1 + LineEnd(s, p + 1) ELSE 0
    BY <2>1 DEF EventEnd
  <2> QED
    BY <1>3, <2>2, <2>3 DEF Match
<1>4. CASE At(s, p) \notin {"CR", "LF"}
  <2>1. LineEnd(s, p) = 0
    BY <1>4 DEF LineEnd
  <2>2. EventEnd(s, p) = 0
    BY <2>1 DEF EventEnd
  <2> QED
    BY <1>4, <2>2 DEF Match
<1> QED
  BY <1>2, <1>3, <1>4

\* The character at a position of a window is the text's, and past it there is none.
LEMMA AtWindow ==
  ASSUME NEW s, NEW base, NEW b, Window(s, base, b), NEW p \in Nat \ {0}
  PROVE  /\ p <= Len(b) => At(b, p) = At(s, base + p) /\ At(b, p) = b[p] /\ At(b, p) \in Char
         /\ p > Len(b) => At(b, p) = "end"
<1>1. /\ base \in Nat /\ b \in Seq(Char) /\ Len(b) \in Nat /\ base + Len(b) <= Len(s)
      /\ \A k \in 1..Len(b) : b[k] = s[base + k]
  BY DEF Window
<1>2. ASSUME p <= Len(b)
      PROVE  At(b, p) = At(s, base + p) /\ At(b, p) = b[p] /\ At(b, p) \in Char
  <2>1. p \in 1..Len(b) /\ b[p] \in Char /\ b[p] = s[base + p]
    BY <1>1, <1>2, ElementOfSeq
  <2>2. base + p \in 1..Len(s)
    BY <1>1, <1>2
  <2> QED
    BY <2>1, <2>2 DEF At
<1>3. ASSUME p > Len(b)
      PROVE  At(b, p) = "end"
  BY <1>1, <1>3 DEF At
<1> QED
  BY <1>2, <1>3

\* What a match in the window says of the text, and what none says, where p comes before q.
LEMMA MatchInWindow ==
  ASSUME NEW s, NEW base, NEW b, Window(s, base, b), NEW p \in 1..Len(b)
  PROVE  LET ours == EventEnd(b, p)  texts == EventEnd(s, base + p)
         IN  /\ ours \in {0, 2, 3, 4} /\ texts \in {0, 2, 3, 4} /\ p + ours <= Len(b) + 1
             /\ ours > 0 => texts > 0
             /\ ours > 0 /\ (p + ours <= Len(b) \/ b[Len(b)] # "CR") => texts = ours
             /\ ours = 0 /\ p + 3 <= Len(b) => texts = 0
             /\ ours = 0 /\ texts > 0 => \A k \in p..Len(b) : b[k] # "hidden"
             /\ \A q \in p..Len(b) : EventEnd(b, q) > 0 /\ ours = 0 => texts = 0
             /\ ours > 0 => \A k \in p..(p + ours - 1) : b[k] \in {"CR", "LF"}
             /\ ours = 4 => b[p + 3] = "LF"
<1> DEFINE ours == EventEnd(b, p)
           texts == EventEnd(s, base + p)
           c == [k \in 0..3 |-> At(b, p + k)]
           t == [k \in 0..3 |-> At(s, base + p + k)]
<1>1. base \in Nat /\ Len(b) \in Nat /\ p \in Nat \ {0} /\ base + p \in Nat
  BY DEF Window
<1>2. ours = Match(c[0], c[1], c[2], c[3])
  <2>1. c[0] = At(b, p) /\ c[1] = At(b, p + 1) /\ c[2] = At(b, p + 2) /\ c[3] = At(b, p + 3)
    BY <1>1
  <2> HIDE DEF c
  <2> QED
    BY <1>1, <2>1, EndIsMatch
<1>3. texts = Match(t[0], t[1], t[2], t[3])
  <2>1. /\ t[0] = At(s, base + p) /\ t[1] = At(s, base + p + 1)
        /\ t[2] = At(s, base + p + 2) /\ t[3] = At(s, base + p + 3)
    BY <1>1
  <2> HIDE DEF t
  <2> QED
    BY <1>1, <2>1, EndIsMatch
<1>4. \A k \in 0..3 : /\ p + k <= Len(b) => c[k] = t[k] /\ c[k] = b[p + k] /\ c[k] \in Char
                      /\ p + k > Len(b) => c[k] = "end"
  <2> TAKE k \in 0..3
  <2>1. p + k \in Nat \ {0} /\ base + (p + k) = base + p + k
    BY <1>1
  <2>2. /\ p + k <= Len(b) => At(b, p + k) = At(s, base + (p + k)) /\ At(b, p + k) = b[p + k] /\ At(b, p + k) \in Char
        /\ p + k > Len(b) => At(b, p + k) = "end"
    BY <2>1, AtWindow
  <2> QED
    BY <2>1, <2>2
<1> HIDE DEF ours, texts, c, t
<1>5. ours \in {0, 2, 3, 4} /\ texts \in {0, 2, 3, 4}
  BY <1>2, <1>3 DEF Match
<1>6. /\ p <= Len(b) => c[0] = t[0] /\ c[0] = b[p] /\ c[0] \in Char
      /\ p + 1 <= Len(b) => c[1] = t[1] /\ c[1] = b[p + 1] /\ c[1] \in Char
      /\ p + 2 <= Len(b) => c[2] = t[2] /\ c[2] = b[p + 2] /\ c[2] \in Char
      /\ p + 3 <= Len(b) => c[3] = t[3] /\ c[3] = b[p + 3] /\ c[3] \in Char
      /\ p + 1 > Len(b) => c[1] = "end"
      /\ p + 2 > Len(b) => c[2] = "end"
      /\ p + 3 > Len(b) => c[3] = "end"
  <2>1. p + 0 = p /\ 0 \in 0..3 /\ 1 \in 0..3 /\ 2 \in 0..3 /\ 3 \in 0..3
    BY <1>1
  <2> QED
    BY <1>4, <2>1
<1>7. p + ours <= Len(b) + 1
  BY <1>1, <1>2, <1>6, SMTT(30) DEF Match
<1>8. ours > 0 => texts > 0
  BY <1>1, <1>2, <1>3, <1>6, SMTT(30) DEF Match
<1>9. ours > 0 /\ (p + ours <= Len(b) \/ b[Len(b)] # "CR") => texts = ours
  <2>1. CASE ours = 2
    <3>1. p + 2 <= Len(b) \/ (Len(b) = p + 1 /\ b[Len(b)] = c[1])
      BY <1>1, <1>6, <1>7, <2>1
    <3> QED
      BY <1>1, <1>2, <1>3, <1>6, <2>1, <3>1, SMTT(30) DEF Match
  <2>2. CASE ours = 3
    <3>1. p + 3 <= Len(b) \/ (Len(b) = p + 2 /\ b[Len(b)] = c[2])
      BY <1>1, <1>6, <1>7, <2>2
    <3> QED
      BY <1>1, <1>2, <1>3, <1>6, <2>2, <3>1, SMTT(30) DEF Match
  <2>3. CASE ours = 4
    BY <1>1, <1>2, <1>3, <1>6, <1>7, <2>3, SMTT(30) DEF Match
  <2> QED
    BY <1>5, <2>1, <2>2, <2>3
<1>10. ours = 0 /\ p + 3 <= Len(b) => texts = 0
  BY <1>1, <1>2, <1>3, <1>6 DEF Match
<1>11. ours = 0 /\ texts > 0 => \A k \in p..Len(b) : b[k] # "hidden"
  <2> SUFFICES ASSUME ours = 0, texts > 0, NEW k \in p..Len(b)
               PROVE  b[k] # "hidden"
    OBVIOUS
  <2>1. t[0] \in {"CR", "LF"} /\ t[1] \in {"CR", "LF"}
    BY <1>3 DEF Match
  <2>2. p + 2 <= Len(b) => c[2] \in {"CR", "LF"}
    BY <1>1, <1>2, <1>3, <1>6 DEF Match
  <2>3. p + 3 > Len(b)
    BY <1>1, <1>5, <1>10
  <2>4. k = p \/ (k = p + 1 /\ p + 1 <= Len(b)) \/ (k = p + 2 /\ p + 2 <= Len(b))
    BY <1>1, <2>3
  <2> QED
    BY <1>1, <1>6, <2>1, <2>2, <2>4
<1>12. \A q \in p..Len(b) : EventEnd(b, q) > 0 /\ ours = 0 => texts = 0
  <2> SUFFICES ASSUME NEW q \in p..Len(b), EventEnd(b, q) > 0, ours = 0, texts > 0
               PROVE  FALSE
    BY <1>5
  <2>1. q \in Nat \ {0} /\ q # p
    BY <1>1 DEF ours
  <2>2. EventEnd(b, q) = Match(At(b, q), At(b, q + 1), At(b, q + 2), At(b, q + 3))
    BY <2>1, EndIsMatch
  <2>3. q + 1 <= Len(b)
    <3>1. q + 1 \in Nat \ {0} /\ (q + 1 > Len(b) => At(b, q + 1) = "end")
      BY <2>1, AtWindow
    <3> QED
      BY <1>1, <2>1, <2>2, <3>1 DEF Match
  <2>4. p + 2 <= Len(b)
    BY <1>1, <2>1, <2>3
  <2>5. c[0] = t[0] /\ c[1] = t[1] /\ c[2] = t[2]
    BY <1>1, <1>6, <2>4
  <2> QED
    BY <1>2, <1>3, <2>5 DEF Match
<1>13. ours > 0 => \A k \in p..(p + ours - 1) : b[k] \in {"CR", "LF"}
  <2> SUFFICES ASSUME ours > 0, NEW k \in p..(p + ours - 1)
               PROVE  b[k] \in {"CR", "LF"}
    OBVIOUS
  <2>1. /\ c[0] \in {"CR", "LF"} /\ c[1] \in {"CR", "LF"}
        /\ ours > 2 => c[2] \in {"CR", "LF"}
        /\ ours > 3 => c[3] \in {"CR", "LF"}
    BY <1>2 DEF Match
  <2>2. \/ k = p
        \/ k = p + 1
        \/ k = p + 2 /\ ours > 2
        \/ k = p + 3 /\ ours > 3
    BY <1>1, <1>5
  <2>3. k <= Len(b)
    BY <1>1, <1>5, <1>7
  <2> QED
    BY <1>1, <1>6, <2>1, <2>2, <2>3
<1>14. ours = 4 => b[p + 3] = "LF"
  BY <1>1, <1>2, <1>6, <1>7 DEF Match
<1> QED
  BY <1>5, <1>7, <1>8, <1>9, <1>10, <1>11, <1>12, <1>13, <1>14 DEF ours, texts

-----------------------------------------------------------------------------
(* Where the events of a text start and end.                               *)

\* An event ends here.
Ended(s, p) == EventEnd(s, p) > 0

\* FirstEnd finds the first, if there is one.
LEMMA FirstEndIs ==
  ASSUME NEW s \in Seq(Char), NEW p \in 1..(Len(s) + 1)
  PROVE  /\ FirstEnd(s, p) \in p..(Len(s) + 1)
         /\ FirstEnd(s, p) <= Len(s) => Ended(s, FirstEnd(s, p))
         /\ \A r \in p..Len(s) : r < FirstEnd(s, p) => ~Ended(s, r)
<1> DEFINE ends == {q \in p..Len(s) : EventEnd(s, q) > 0}
<1>1. Len(s) \in Nat
  BY LenProperties
<1>2. CASE ends = {}
  <2>1. FirstEnd(s, p) = Len(s) + 1
    BY <1>2 DEF FirstEnd
  <2> QED
    BY <1>1, <1>2, <2>1 DEF Ended
<1>3. CASE ends # {}
  <2>1. FirstEnd(s, p) = CHOOSE q \in ends : \A r \in ends : q <= r
    BY <1>3 DEF FirstEnd
  <2>2. ends \in SUBSET Nat
    BY <1>1
  <2>3. FirstEnd(s, p) \in ends /\ \A r \in ends : FirstEnd(s, p) <= r
    <3>1. \E q \in ends : \A r \in ends : q <= r
      <4> HIDE DEF ends
      <4> QED
        BY <1>3, <2>2, LeastExists
    <3> HIDE DEF ends
    <3> QED
      BY <2>1, <3>1
  <2>4. ASSUME NEW r \in p..Len(s), r < FirstEnd(s, p), Ended(s, r)
        PROVE  FALSE
    <3>1. r \in ends /\ r \in Nat
      BY <2>4, <1>1 DEF Ended
    <3>2. FirstEnd(s, p) <= r /\ FirstEnd(s, p) \in Nat
      <4> HIDE DEF ends
      <4> QED
        BY <2>2, <2>3, <3>1
    <3> QED
      BY <2>4, <3>1, <3>2
  <2> QED
    BY <1>1, <2>3, <2>4 DEF Ended
<1> QED
  BY <1>2, <1>3

\* What is the first end is FirstEnd.
LEMMA FirstEndAt ==
  ASSUME NEW s \in Seq(Char), NEW p \in 1..(Len(s) + 1), NEW q \in p..Len(s), Ended(s, q),
         \A r \in p..(q - 1) : ~Ended(s, r)
  PROVE  FirstEnd(s, p) = q
<1>1. Len(s) \in Nat
  BY LenProperties
<1>2. /\ FirstEnd(s, p) \in p..(Len(s) + 1)
      /\ FirstEnd(s, p) <= Len(s) => Ended(s, FirstEnd(s, p))
      /\ \A r \in p..Len(s) : r < FirstEnd(s, p) => ~Ended(s, r)
  BY FirstEndIs
<1>3. ~(q < FirstEnd(s, p))
  BY <1>2
<1>4. FirstEnd(s, p) <= q
  BY <1>1, <1>2, <1>3
<1>5. ASSUME FirstEnd(s, p) # q PROVE FALSE
  <2>1. FirstEnd(s, p) \in p..(q - 1) /\ FirstEnd(s, p) <= Len(s)
    BY <1>1, <1>2, <1>4, <1>5
  <2> QED
    BY <1>2, <2>1
<1> QED
  BY <1>5

\* An end lies within the text.
LEMMA EndWithin ==
  ASSUME NEW s \in Seq(Char), NEW p \in 1..Len(s)
  PROVE  EventEnd(s, p) \in {0, 2, 3, 4} /\ p + EventEnd(s, p) <= Len(s) + 1
<1>1. Window(s, 0, s)
  <2>1. Len(s) \in Nat
    BY LenProperties
  <2> QED
    BY <2>1 DEF Window
<1> QED
  BY <1>1, MatchInWindow

\* The first event starts at the beginning, and each one after the end of the one before.
LEMMA StartsAre ==
  ASSUME NEW s \in Seq(Char)
  PROVE  /\ 1 \in Starts(s)
         /\ \A p \in Starts(s) : p \in 1..(Len(s) + 1) /\ Follows(s, p) \in Starts(s)
<1>1. Len(s) \in Nat
  BY LenProperties
<1>2. 1 \in Starts(s)
  BY <1>1 DEF Starts
<1>3. ASSUME NEW p \in Starts(s)
      PROVE  p \in 1..(Len(s) + 1) /\ Follows(s, p) \in Starts(s)
  <2>1. p \in 1..(Len(s) + 1)
    BY DEF Starts
  <2>2. Follows(s, p) \in 1..(Len(s) + 1)
    <3> DEFINE e == FirstEnd(s, p)
    <3>1. e \in p..(Len(s) + 1)
      BY <2>1, FirstEndIs
    <3>2. CASE e > Len(s)
      BY <2>1, <3>2 DEF Follows
    <3>3. CASE ~(e > Len(s))
      <4>1. e \in 1..Len(s)
        BY <1>1, <2>1, <3>1, <3>3
      <4>2. EventEnd(s, e) \in {0, 2, 3, 4} /\ e + EventEnd(s, e) <= Len(s) + 1
        <5> HIDE DEF e
        <5> QED
          BY <4>1, EndWithin
      <4>3. Follows(s, p) = e + EventEnd(s, e)
        BY <3>3 DEF Follows
      <4> QED
        BY <1>1, <4>1, <4>2, <4>3
    <3> QED
      BY <3>2, <3>3
  <2>3. ASSUME NEW S \in SUBSET (1..(Len(s) + 1)), 1 \in S, \A q \in S : Follows(s, q) \in S
        PROVE  Follows(s, p) \in S
    BY <2>3 DEF Starts
  <2> QED
    BY <2>1, <2>2, <2>3 DEF Starts
<1> QED
  BY <1>2, <1>3

-----------------------------------------------------------------------------
(* The client's parser.                                                    *)

Event == Seq(Seq(Char))
State == [events : Seq(Event), event : Event, line : Seq(Char), afterCR : BOOLEAN]

\* What the parser makes of a character: half of a line's end, a character of the line, the end of
\* a line, a blank line that ends nothing, or one that ends an event.
LEMMA ParseIs ==
  ASSUME NEW p \in State, NEW c \in Char
  PROVE  LET q == Parse(p, c)
             joined == c = "LF" /\ p.afterCR
             ends == c \in {"CR", "LF"} /\ ~joined
         IN  /\ q \in State /\ (q.afterCR <=> c = "CR")
             /\ joined => q.line = p.line /\ q.event = p.event /\ q.events = p.events
             /\ c \notin {"CR", "LF"} => q.line = Append(p.line, c) /\ q.event = p.event /\ q.events = p.events
             /\ ends /\ p.line # <<>> => q.line = <<>> /\ q.event = Append(p.event, p.line) /\ q.events = p.events
             /\ ends /\ p.line = <<>> /\ p.event = <<>> => q.line = <<>> /\ q.event = <<>> /\ q.events = p.events
             /\ ends /\ p.line = <<>> /\ p.event # <<>> =>
                  q.line = <<>> /\ q.event = <<>> /\ q.events = Append(p.events, p.event)
<1> DEFINE q == Parse(p, c)
           joined == c = "LF" /\ p.afterCR
<1>1. /\ p.events \in Seq(Event) /\ p.event \in Event /\ p.line \in Seq(Char)
      /\ p = [events |-> p.events, event |-> p.event, line |-> p.line, afterCR |-> p.afterCR]
  BY DEF State
<1>2. <<>> \in Seq(Char) /\ <<>> \in Event
  BY EmptySeq DEF Event
<1>3. /\ Append(p.line, c) \in Seq(Char)
      /\ Append(p.event, p.line) \in Event
      /\ Append(p.events, p.event) \in Seq(Event)
  BY <1>1, AppendProperties DEF Event
<1>4. ASSUME NEW z, NEW y, NEW x, NEW w \in BOOLEAN, z \in Seq(Event), y \in Event, x \in Seq(Char),
             q = [events |-> z, event |-> y, line |-> x, afterCR |-> w]
      PROVE  q \in State /\ q.events = z /\ q.event = y /\ q.line = x /\ q.afterCR = w
  <2> HIDE DEF q
  <2> QED
    BY <1>4 DEF State
<1>5. joined => c = "LF"
  OBVIOUS
<1>6. CASE joined
  <2>1. q = [events |-> p.events, event |-> p.event, line |-> p.line, afterCR |-> FALSE]
    BY <1>1, <1>6 DEF Parse
  <2> HIDE DEF q
  <2>2. q \in State /\ q.events = p.events /\ q.event = p.event /\ q.line = p.line /\ q.afterCR = FALSE
    BY <1>1, <1>4, <2>1
  <2> HIDE DEF joined
  <2>3. q.afterCR <=> c = "CR"
    BY <1>5, <1>6, <2>2
  <2> QED
    BY <1>5, <1>6, <2>2, <2>3 DEF q, joined
<1>7. CASE c \notin {"CR", "LF"}
  <2>1. q = [events |-> p.events, event |-> p.event, line |-> Append(p.line, c), afterCR |-> FALSE]
    BY <1>1, <1>7 DEF Parse
  <2> HIDE DEF q
  <2>2. q \in State /\ q.events = p.events /\ q.event = p.event /\ q.line = Append(p.line, c) /\ q.afterCR = FALSE
    BY <1>1, <1>3, <1>4, <2>1
  <2>3. q.afterCR <=> c = "CR"
    BY <1>7, <2>2
  <2> QED
    BY <1>7, <2>2, <2>3 DEF q
<1>8. CASE c \in {"CR", "LF"} /\ ~joined
  <2> DEFINE ended(z, y) == [events |-> z, event |-> y, line |-> <<>>, afterCR |-> (c = "CR")]
  <2>1. CASE p.line # <<>>
    <3>1. q = ended(p.events, Append(p.event, p.line))
      BY <1>1, <1>8, <2>1 DEF Parse
    <3> HIDE DEF q
    <3>2. q \in State /\ q.events = p.events /\ q.event = Append(p.event, p.line) /\ q.line = <<>> /\ q.afterCR = (c = "CR")
      BY <1>1, <1>2, <1>3, <1>4, <3>1
    <3> HIDE DEF joined, ended
    <3> QED
      BY <1>8, <2>1, <3>2 DEF q, joined
  <2>2. CASE p.line = <<>> /\ p.event = <<>>
    <3>1. q = ended(p.events, p.event)
      BY <1>1, <1>8, <2>2 DEF Parse
    <3> HIDE DEF q
    <3>2. q \in State /\ q.events = p.events /\ q.event = p.event /\ q.line = <<>> /\ q.afterCR = (c = "CR")
      BY <1>1, <1>2, <1>3, <1>4, <3>1
    <3> HIDE DEF joined, ended
    <3> QED
      BY <1>8, <2>2, <3>2 DEF q, joined
  <2>3. CASE p.line = <<>> /\ p.event # <<>>
    <3>1. q = ended(Append(p.events, p.event), <<>>)
      BY <1>1, <1>8, <2>3 DEF Parse
    <3> HIDE DEF q
    <3>2. q \in State /\ q.events = Append(p.events, p.event) /\ q.event = <<>> /\ q.line = <<>> /\ q.afterCR = (c = "CR")
      BY <1>1, <1>2, <1>3, <1>4, <3>1
    <3> HIDE DEF joined, ended
    <3> QED
      BY <1>8, <2>3, <3>2 DEF q, joined
  <2> QED
    BY <2>1, <2>2, <2>3
<1> QED
  BY <1>5, <1>6, <1>7, <1>8

\* A function may be defined step by step.
Folded(T, N, start, step) ==
  \E f \in [0..N -> T] : f[0] = start /\ \A n \in 1..N : f[n] = step[n][f[n - 1]]

\* For any steps there is such a function.
LEMMA StepByStep ==
  ASSUME NEW T, NEW N \in Nat, NEW start \in T, NEW step \in [1..N -> [T -> T]]
  PROVE  Folded(T, N, start, step)
<1> DEFINE Run(g, m) == /\ g \in [0..m -> T] /\ g[0] = start
                        /\ \A n \in 1..m : g[n] = step[n][g[n - 1]]
           S == {m \in 0..N : ~\E g : Run(g, m)}
<1>1. S = {}
  <2> SUFFICES ASSUME S # {} PROVE FALSE
    OBVIOUS
  <2>1. PICK m \in S : \A j \in S : m <= j
    <3> S \in SUBSET Nat
      OBVIOUS
    <3> HIDE DEF S
    <3> QED
      BY LeastExists
  <2>2. m \in 0..N /\ ~\E g : Run(g, m)
    OBVIOUS
  <2>3. m # 0
    <3> DEFINE g == [n \in 0..0 |-> start]
    <3>1. Run(g, 0)
      OBVIOUS
    <3> QED
      BY <2>2, <3>1
  <2>4. m - 1 \in 0..N /\ m - 1 \notin S
    <3>1. m - 1 \in 0..N /\ ~(m <= m - 1)
      BY <2>2, <2>3
    <3> HIDE DEF S
    <3> QED
      BY <2>1, <3>1
  <2>5. PICK g : Run(g, m - 1)
    BY <2>4
  <2> DEFINE h == [n \in 0..m |-> IF n = m THEN step[m][g[m - 1]] ELSE g[n]]
  <2>6. Run(h, m)
    <3>1. g[m - 1] \in T /\ m \in 1..N /\ step[m][g[m - 1]] \in T
      <4>1. m - 1 \in 0..(m - 1) /\ m \in 1..N
        BY <2>2, <2>3
      <4>2. g[m - 1] \in T
        BY <2>5, <4>1
      <4> QED
        BY <4>1, <4>2
    <3>2. h \in [0..m -> T]
      <4>1. \A n \in 0..m : n # m => n \in 0..(m - 1)
        BY <2>2
      <4> QED
        BY <2>5, <3>1, <4>1
    <3>3. h[0] = start
      BY <2>2, <2>3, <2>5
    <3>4. ASSUME NEW n \in 1..m
          PROVE  h[n] = step[n][h[n - 1]]
      <4>1. n - 1 \in 0..m /\ n - 1 # m /\ n \in 0..m
        BY <2>2, <3>4
      <4>2. h[n - 1] = g[n - 1]
        BY <4>1
      <4>3. CASE n = m
        BY <4>1, <4>2, <4>3
      <4>4. CASE n # m
        <5>1. n \in 1..(m - 1) /\ h[n] = g[n]
          BY <2>2, <4>1, <4>4
        <5> QED
          BY <2>5, <4>2, <5>1
      <4> QED
        BY <4>3, <4>4
    <3> HIDE DEF h
    <3> QED
      BY <3>2, <3>3, <3>4
  <2> QED
    BY <2>2, <2>6
<1>2. \E g : Run(g, N)
  <2> N \in 0..N
    OBVIOUS
  <2> HIDE DEF Run
  <2> QED
    BY <1>1
<1> QED
  BY <1>2 DEF Folded

\* After reads a text one character after the other, and what does so ends there.
ReadsTo(p, s, n, after) ==
  \E f \in [0..n -> State] :
    /\ f[0] = p /\ \A k \in 1..n : f[k] = Parse(f[k - 1], s[k])
    /\ \A g : g[0] = p /\ (\A k \in 1..n : g[k] = Parse(g[k - 1], s[k])) => after = g[n]

\* For every parser and text.
LEMMA AfterReads ==
  ASSUME NEW p \in State, NEW s \in Seq(Char)
  PROVE  ReadsTo(p, s, Len(s), After(p, s))
<1> DEFINE N == Len(s)
           Is(g) == g = [n \in 0..N |-> IF n = 0 THEN p ELSE Parse(g[n - 1], s[n])]
           f == CHOOSE g : Is(g)
           step == [n \in 1..N |-> [q \in State |-> Parse(q, s[n])]]
<1>1. N \in Nat /\ \A n \in 1..N : s[n] \in Char
  BY LenProperties, ElementOfSeq
<1>2. \E g \in [0..N -> State] : g[0] = p /\ \A n \in 1..N : g[n] = Parse(g[n - 1], s[n])
  <2>1. step \in [1..N -> [State -> State]]
    <3>1. \A n \in 1..N : \A q \in State : Parse(q, s[n]) \in State
      BY <1>1, ParseIs
    <3> HIDE DEF N
    <3> QED
      BY <3>1
  <2> HIDE DEF N, step, Is, f
  <2>2. PICK g \in [0..N -> State] : g[0] = p /\ \A n \in 1..N : g[n] = step[n][g[n - 1]]
    <3>1. N \in Nat /\ p \in State
      BY <1>1
    <3> HIDE DEF State
    <3>2. Folded(State, N, p, step)
      BY <2>1, <3>1, StepByStep
    <3> QED
      BY <3>2 DEF Folded
  <2>3. ASSUME NEW n \in 1..N
        PROVE  g[n] = Parse(g[n - 1], s[n])
    <3>1. n - 1 \in 0..N
      BY <1>1
    <3>2. g[n - 1] \in State
      BY <2>2, <3>1
    <3>3. step[n][g[n - 1]] = Parse(g[n - 1], s[n])
      BY <3>2 DEF step
    <3> QED
      BY <2>2, <3>3
  <2> QED
    BY <2>2, <2>3
<1>3. PICK g \in [0..N -> State] : g[0] = p /\ \A n \in 1..N : g[n] = Parse(g[n - 1], s[n])
  BY <1>2
<1>4. Is(g)
  <2>1. \A n \in 0..N : g[n] = IF n = 0 THEN p ELSE Parse(g[n - 1], s[n])
    BY <1>1, <1>3
  <2>2. g = [n \in 0..N |-> g[n]]
    BY <1>3
  <2> QED
    BY <2>1, <2>2
<1>5. Is(f)
  <2> HIDE DEF Is
  <2> QED
    BY <1>4
<1>6. After(p, s) = f[N]
  BY DEF After
<1>7. /\ \A n \in 0..N : f[n] = IF n = 0 THEN p ELSE Parse(f[n - 1], s[n])
      /\ f = [n \in 0..N |-> f[n]]
  <2> HIDE DEF f
  <2>1. DOMAIN f = 0..N /\ \A n \in 0..N : f[n] = IF n = 0 THEN p ELSE Parse(f[n - 1], s[n])
    BY <1>5
  <2> QED
    BY <1>5, <2>1
<1> HIDE DEF f
<1>8. ASSUME NEW h, h[0] = p, \A n \in 1..N : h[n] = Parse(h[n - 1], s[n])
      PROVE  After(p, s) = h[N]
  <2> DEFINE S == {n \in 0..N : f[n] # h[n]}
  <2>1. ASSUME S # {} PROVE FALSE
    <3>1. S \in SUBSET Nat
      BY <1>1
    <3>2. PICK n \in S : \A m \in S : n <= m
      <4> HIDE DEF S
      <4> QED
        BY <2>1, <3>1, LeastExists
    <3>3. n \in 0..N /\ f[n] # h[n]
      BY <3>2
    <3>4. n # 0
      BY <1>1, <1>7, <1>8, <3>3
    <3>5. n - 1 \in 0..N /\ ~(n <= n - 1) /\ n \in 1..N
      BY <1>1, <3>3, <3>4
    <3>6. n - 1 \notin S
      <4> HIDE DEF S
      <4> QED
        BY <3>2, <3>5
    <3>7. f[n - 1] = h[n - 1]
      BY <3>5, <3>6
    <3> QED
      BY <1>7, <1>8, <3>3, <3>4, <3>5, <3>7
  <2> QED
    BY <1>1, <1>6, <2>1
<1> HIDE DEF N
<1> QED
  BY <1>3, <1>8 DEF N, ReadsTo

\* What the parser is after a stretch of a text.
Read(p, s, a, m) == After(p, SubSeq(s, a, m))

\* A stretch is read up to its last character, and then that.
LEMMA ReadNext ==
  ASSUME NEW p \in State, NEW s \in Seq(Char), NEW a \in Nat \ {0}, NEW m \in (a - 1)..Len(s)
  PROVE  /\ Read(p, s, a, m) \in State
         /\ m < a => Read(p, s, a, m) = p
         /\ m >= a => Read(p, s, a, m - 1) \in State /\ Read(p, s, a, m) = Parse(Read(p, s, a, m - 1), s[m])
<1> DEFINE t == SubSeq(s, a, m)
           u == SubSeq(s, a, m - 1)
           L == (m - a) + 1
<1>1. Len(s) \in Nat /\ a \in Nat \ {0} /\ m \in Int /\ L \in Nat /\ \A k \in a..m : s[k] \in Char
  BY LenProperties, ElementOfSeq
<1>2. t \in Seq(Char) /\ Len(t) = L /\ \A n \in 1..L : t[n] = s[(a + n) - 1]
  <2>1. /\ t \in Seq(Char)
        /\ Len(t) = IF a <= m THEN m - a + 1 ELSE 0
        /\ \A n \in 1..(m - a + 1) : t[n] = s[a + n - 1]
    BY <1>1, SubSeqProperties
  <2> HIDE DEF t
  <2> QED
    BY <1>1, <2>1
<1> HIDE DEF t
<1>3. PICK f \in [0..L -> State] :
         /\ f[0] = p /\ \A n \in 1..L : f[n] = Parse(f[n - 1], t[n])
         /\ \A g : g[0] = p /\ (\A n \in 1..L : g[n] = Parse(g[n - 1], t[n])) => After(p, t) = g[L]
  <2>1. ReadsTo(p, t, L, After(p, t))
    BY <1>2, AfterReads
  <2> QED
    BY <2>1 DEF ReadsTo
<1>4. After(p, t) = f[L] /\ f[L] \in State
  <2>1. L \in 0..L
    BY <1>1
  <2> HIDE DEF L
  <2> QED
    BY <1>3, <2>1
<1>5. CASE m < a
  <2>1. L = 0
    BY <1>1, <1>5
  <2> QED
    BY <1>3, <1>4, <1>5, <2>1 DEF Read, t
<1>6. CASE m >= a
  <2> DEFINE M == L - 1
  <2>1. M \in 0..L /\ L \in 1..L /\ (a + L) - 1 = m /\ m - 1 \in Int /\ M \in Nat
    BY <1>1, <1>6
  <2>2. u \in Seq(Char) /\ Len(u) = M /\ \A n \in 1..M : u[n] = t[n]
    <3> DEFINE e == m - 1
    <3>1. e \in Int /\ \A k \in a..e : s[k] \in Char
      BY <1>1
    <3> HIDE DEF e
    <3>2. /\ SubSeq(s, a, e) \in Seq(Char)
          /\ Len(SubSeq(s, a, e)) = IF a <= e THEN e - a + 1 ELSE 0
          /\ \A n \in 1..(e - a + 1) : SubSeq(s, a, e)[n] = s[a + n - 1]
      BY <1>1, <3>1, SubSeqProperties, SMTT(30)
    <3>3. u = SubSeq(s, a, e) /\ e = m - 1
      BY DEF e
    <3> HIDE DEF u
    <3>4. Len(u) = M /\ u \in Seq(Char)
      BY <1>1, <1>6, <3>2, <3>3
    <3>5. ASSUME NEW n \in 1..M PROVE u[n] = t[n]
      <4>1. n \in 1..(e - a + 1) /\ n \in 1..L /\ (a + n) - 1 = a + n - 1
        BY <1>1, <1>6, <3>3
      <4> QED
        BY <1>2, <3>2, <3>3, <4>1
    <3> QED
      BY <3>4, <3>5
  <2> HIDE DEF u, L, M
  <2>3. After(p, u) = f[M]
    <3>1. PICK h \in [0..M -> State] :
             \A g : g[0] = p /\ (\A n \in 1..M : g[n] = Parse(g[n - 1], u[n])) => After(p, u) = g[M]
      <4>1. ReadsTo(p, u, M, After(p, u))
        BY <2>2, AfterReads
      <4> QED
        BY <4>1 DEF ReadsTo
    <3>2. \A n \in 1..M : n \in 1..L /\ f[n] = Parse(f[n - 1], u[n])
      <4>1. \A n \in 1..M : n \in 1..L
        BY <1>1, <2>1
      <4> QED
        BY <1>3, <2>2, <4>1
    <3> QED
      BY <1>3, <3>1, <3>2
  <2>4. f[L] = Parse(f[M], t[L])
    BY <1>3, <2>1 DEF M
  <2>5. t[L] = s[m] /\ f[M] \in State
    <3>1. t[L] = s[(a + L) - 1]
      BY <1>2, <2>1
    <3> QED
      BY <1>3, <2>1, <3>1
  <2>6. Read(p, s, a, m) = f[L] /\ Read(p, s, a, m - 1) = f[M]
    BY <1>4, <2>3 DEF Read, t, u
  <2> QED
    BY <1>1, <1>4, <1>6, <2>4, <2>5, <2>6
<1> QED
  BY <1>1, <1>5, <1>6

\* A text is read in two stretches as it is in one.
LEMMA ReadOn ==
  ASSUME NEW p \in State, NEW s \in Seq(Char), NEW b \in 1..(Len(s) + 1),
         NEW a \in b..(Len(s) + 1), NEW m \in (a - 1)..Len(s)
  PROVE  Read(p, s, b, a - 1) \in State /\ Read(p, s, b, m) = Read(Read(p, s, b, a - 1), s, a, m)
<1> DEFINE q == Read(p, s, b, a - 1)
           S == {n \in (a - 1)..Len(s) : Read(p, s, b, n) # Read(q, s, a, n)}
<1>1. Len(s) \in Nat
  BY LenProperties
<1>2. q \in State
  <2> DEFINE e == a - 1
  <2>1. e \in (b - 1)..Len(s) /\ b \in Nat \ {0}
    BY <1>1
  <2> HIDE DEF e
  <2>2. Read(p, s, b, e) \in State
    BY <2>1, ReadNext
  <2> QED
    BY <2>2 DEF e
<1> HIDE DEF q
<1>3. ASSUME S # {} PROVE FALSE
  <2>1. S \in SUBSET Nat
    BY <1>1
  <2>2. PICK n \in S : \A k \in S : n <= k
    <3> HIDE DEF S
    <3> QED
      BY <1>3, <2>1, LeastExists
  <2>3. n \in (a - 1)..Len(s) /\ Read(p, s, b, n) # Read(q, s, a, n)
    BY <2>2
  <2>4. n \in Nat /\ n \in (b - 1)..Len(s) /\ b \in Nat \ {0} /\ a \in Nat \ {0}
    BY <1>1, <2>3
  <2>5. /\ n < a => Read(q, s, a, n) = q
        /\ n >= a => Read(q, s, a, n) = Parse(Read(q, s, a, n - 1), s[n])
        /\ n >= b => Read(p, s, b, n) = Parse(Read(p, s, b, n - 1), s[n])
    BY <1>2, <2>3, <2>4, ReadNext
  <2>6. n >= a
    <3>1. ASSUME n < a PROVE FALSE
      <4>1. n = a - 1
        BY <1>1, <2>3, <3>1
      <4>2. Read(p, s, b, n) = q
        BY <4>1 DEF q
      <4> QED
        BY <2>3, <2>5, <3>1, <4>2
    <3> QED
      BY <2>4, <3>1
  <2>7. n - 1 \in (a - 1)..Len(s) /\ ~(n <= n - 1) /\ n >= b
    BY <1>1, <2>3, <2>4, <2>6
  <2>8. n - 1 \notin S
    <3> HIDE DEF S
    <3> QED
      BY <2>2, <2>7
  <2>9. Read(p, s, b, n - 1) = Read(q, s, a, n - 1)
    BY <2>7, <2>8
  <2> QED
    BY <2>3, <2>5, <2>6, <2>7, <2>9
<1> QED
  BY <1>2, <1>3 DEF q

\* A text after another is read from where that one left the parser.
LEMMA AfterConcat ==
  ASSUME NEW p \in State, NEW x \in Seq(Char), NEW y \in Seq(Char)
  PROVE  After(p, x) \in State /\ After(p, x \o y) = After(After(p, x), y)
<1> DEFINE s == x \o y
           a == Len(x) + 1
           m == Len(s)
<1>1. /\ s \in Seq(Char) /\ m = Len(x) + Len(y) /\ Len(x) \in Nat /\ Len(y) \in Nat
      /\ \A i \in 1..m : s[i] = IF i <= Len(x) THEN x[i] ELSE y[i - Len(x)]
  BY LenProperties, ConcatProperties
<1>2. a \in 1..(Len(s) + 1) /\ m \in (a - 1)..Len(s) /\ a - 1 = Len(x) /\ (m - a) + 1 = Len(y)
  <2> HIDE DEF s
  <2> QED
    BY <1>1
<1> HIDE DEF s
<1>3. SubSeq(s, 1, m) = s
  BY <1>1, SubSeqFull
<1>4. SubSeq(s, 1, a - 1) = x
  <2> DEFINE t == SubSeq(s, 1, Len(x))
  <2>1. \A k \in 1..Len(x) : s[k] \in Char /\ s[k] = x[k]
    BY <1>1, ElementOfSeq
  <2>2. /\ t \in Seq(Char) /\ Len(t) = IF 1 <= Len(x) THEN Len(x) - 1 + 1 ELSE 0
        /\ \A k \in 1..(Len(x) - 1 + 1) : t[k] = s[1 + k - 1]
    BY <1>1, <2>1, SubSeqProperties
  <2> HIDE DEF t
  <2>3. Len(t) = Len(x) /\ \A k \in 1..Len(t) : t[k] = x[k]
    BY <1>1, <2>1, <2>2
  <2>4. t = x
    BY <2>2, <2>3, SeqEqual
  <2> QED
    BY <1>2, <2>4 DEF t
<1>5. SubSeq(s, a, m) = y
  <2> DEFINE t == SubSeq(s, a, m)
  <2>1. \A k \in a..m : s[k] \in Char
    BY <1>1, ElementOfSeq
  <2>2. /\ t \in Seq(Char) /\ Len(t) = IF a <= m THEN m - a + 1 ELSE 0
        /\ \A k \in 1..(m - a + 1) : t[k] = s[a + k - 1]
    BY <1>1, <2>1, SubSeqProperties
  <2> HIDE DEF t
  <2>3. Len(t) = Len(y)
    BY <1>1, <2>2
  <2>4. ASSUME NEW k \in 1..Len(t) PROVE t[k] = y[k]
    <3>1. k \in 1..(m - a + 1) /\ a + k - 1 = Len(x) + k /\ Len(x) + k \in 1..m /\ ~(Len(x) + k <= Len(x))
          /\ (Len(x) + k) - Len(x) = k
      BY <1>1, <2>3
    <3> QED
      BY <1>1, <2>2, <3>1
  <2>5. t = y
    BY <2>2, <2>3, <2>4, SeqEqual
  <2> QED
    BY <2>5 DEF t
<1> HIDE DEF a, m
<1>6. Read(p, s, 1, a - 1) \in State /\ Read(p, s, 1, m) = Read(Read(p, s, 1, a - 1), s, a, m)
  <2>1. 1 \in 1..(Len(s) + 1) /\ a \in 1..(Len(s) + 1) /\ m \in (a - 1)..Len(s) /\ s \in Seq(Char)
    BY <1>1, <1>2
  <2> QED
    BY <2>1, ReadOn
<1>7. Read(p, s, 1, a - 1) = After(p, x) /\ Read(p, s, 1, m) = After(p, s)
      /\ Read(After(p, x), s, a, m) = After(After(p, x), y)
  BY <1>3, <1>4, <1>5 DEF Read
<1> QED
  BY <1>6, <1>7 DEF s

\* One character, and none.
LEMMA AfterFew ==
  ASSUME NEW p \in State
  PROVE  /\ After(p, <<>>) = p
         /\ \A c \in Char : After(p, <<c>>) = Parse(p, c)
<1>1. After(p, <<>>) = p
  <2>1. <<>> \in Seq(Char) /\ Len(<<>>) = 0
    BY EmptySeq
  <2>2. ReadsTo(p, <<>>, 0, After(p, <<>>))
    BY <2>1, AfterReads
  <2>3. PICK f : f[0] = p /\ (f[0] = p /\ (\A k \in 1..0 : f[k] = Parse(f[k - 1], <<>>[k])) => After(p, <<>>) = f[0])
    BY <2>2 DEF ReadsTo
  <2> QED
    BY <2>3
<1>2. ASSUME NEW c \in Char
      PROVE  After(p, <<c>>) = Parse(p, c)
  <2>1. <<c>> \in Seq(Char) /\ Len(<<c>>) = 1 /\ <<c>>[1] = c
    OBVIOUS
  <2>2. ReadsTo(p, <<c>>, 1, After(p, <<c>>))
    BY <2>1, AfterReads
  <2>3. PICK f : /\ f[0] = p /\ (\A k \in 1..1 : f[k] = Parse(f[k - 1], <<c>>[k]))
                 /\ f[0] = p /\ (\A k \in 1..1 : f[k] = Parse(f[k - 1], <<c>>[k])) => After(p, <<c>>) = f[1]
    BY <2>2 DEF ReadsTo
  <2>4. f[1] = Parse(f[1 - 1], <<c>>[1]) /\ 1 - 1 = 0
    BY <2>3
  <2> QED
    BY <2>1, <2>3, <2>4
<1> QED
  BY <1>1, <1>2

-----------------------------------------------------------------------------
(* What was enqueued.                                                      *)

Blocks == Seq([block : Seq(Char), end : Seq(Char)])

\* What the filter makes of a block is text.
LEMMA FilterType ==
  ASSUME NEW b \in Seq(Char)
  PROVE  filterEvent(b) \in Seq(Char)
<1>1. <<"shown">> \in Seq(Char)
  BY DEF Char
<1> QED
  BY <1>1 DEF filterEvent

\* One block more is written after the others.
Wrote(w, block) == w \o filterEvent(block.block) \o block.end

\* For any blocks written before.
LEMMA WrittenAppends ==
  ASSUME NEW blocks \in Blocks, NEW block \in [block : Seq(Char), end : Seq(Char)]
  PROVE  Written(blocks) \in Seq(Char) /\ Written(Append(blocks, block)) = Wrote(Written(blocks), block)
<1> DEFINE all == Append(blocks, block)
           L == Len(blocks)
           N == L + 1
           Is(g, b, n) == g = [k \in 0..n |-> IF k = 0 THEN <<>> ELSE g[k - 1] \o filterEvent(b[k].block) \o b[k].end]
           step == [n \in 1..N |-> [w \in Seq(Char) |-> Wrote(w, all[n])]]
<1>1. /\ L \in Nat /\ N \in Nat /\ Len(all) = N /\ all \in Blocks
      /\ \A n \in 1..L : all[n] = blocks[n]
      /\ all[N] = block
  BY LenProperties, AppendProperties DEF Blocks
<1>2. \A n \in 1..N : all[n].block \in Seq(Char) /\ all[n].end \in Seq(Char)
  <2>1. \A n \in 1..N : all[n] \in [block : Seq(Char), end : Seq(Char)]
    BY <1>1, ElementOfSeq DEF Blocks
  <2> QED
    BY <2>1
<1> HIDE DEF all, L, N
<1>3. ASSUME NEW n \in 1..N, NEW w \in Seq(Char)
      PROVE  Wrote(w, all[n]) \in Seq(Char)
  <2>1. filterEvent(all[n].block) \in Seq(Char) /\ all[n].end \in Seq(Char)
    BY <1>2, FilterType
  <2>2. w \o filterEvent(all[n].block) \in Seq(Char)
    BY <2>1, ConcatProperties
  <2> QED
    BY <2>1, <2>2, ConcatProperties DEF Wrote
<1>4. PICK f \in [0..N -> Seq(Char)] : f[0] = <<>> /\ \A n \in 1..N : f[n] = Wrote(f[n - 1], all[n])
  <2>1. step \in [1..N -> [Seq(Char) -> Seq(Char)]]
    BY <1>3
  <2>2. <<>> \in Seq(Char)
    BY EmptySeq
  <2> HIDE DEF step
  <2>3. Folded(Seq(Char), N, <<>>, step)
    BY <1>1, <2>1, <2>2, StepByStep
  <2>4. PICK g \in [0..N -> Seq(Char)] : g[0] = <<>> /\ \A n \in 1..N : g[n] = step[n][g[n - 1]]
    BY <2>3 DEF Folded
  <2>5. ASSUME NEW n \in 1..N
        PROVE  g[n] = Wrote(g[n - 1], all[n])
    <3>1. n - 1 \in 0..N
      BY <1>1
    <3>2. g[n - 1] \in Seq(Char)
      BY <2>4, <3>1
    <3>3. step[n][g[n - 1]] = Wrote(g[n - 1], all[n])
      BY <3>2 DEF step
    <3> QED
      BY <2>4, <3>3
  <2> QED
    BY <2>4, <2>5
<1>5. ASSUME NEW b, NEW n \in 0..N, \A k \in 1..n : b[k] = all[k]
      PROVE  (CHOOSE g : Is(g, b, n))[n] = f[n]
  <2> DEFINE g == CHOOSE x : Is(x, b, n)
             cut == [k \in 0..n |-> f[k]]
             S == {k \in 0..n : g[k] # f[k]}
  <2>1. Is(cut, b, n)
    <3>1. ASSUME NEW k \in 0..n, k # 0
          PROVE  f[k] = f[k - 1] \o filterEvent(b[k].block) \o b[k].end /\ k - 1 \in 0..n
      <4>1. k \in 1..n /\ k \in 1..N /\ k - 1 \in 0..n
        BY <1>1, <3>1
      <4>2. b[k] = all[k]
        BY <1>5, <4>1
      <4> QED
        BY <1>4, <4>1, <4>2 DEF Wrote
    <3>2. \A k \in 0..n : f[k] = IF k = 0 THEN <<>> ELSE cut[k - 1] \o filterEvent(b[k].block) \o b[k].end
      BY <1>4, <3>1
    <3> QED
      BY <3>2
  <2>2. Is(g, b, n)
    <3> HIDE DEF Is, cut
    <3> QED
      BY <2>1
  <2>3. \A k \in 0..n : g[k] = IF k = 0 THEN <<>> ELSE g[k - 1] \o filterEvent(b[k].block) \o b[k].end
    <3> HIDE DEF g
    <3> QED
      BY <2>2
  <2> HIDE DEF g, Is
  <2>4. ASSUME S # {} PROVE FALSE
    <3>1. S \in SUBSET Nat
      BY <1>1
    <3>2. PICK k \in S : \A m \in S : k <= m
      <4> HIDE DEF S
      <4> QED
        BY <2>4, <3>1, LeastExists
    <3>3. k \in 0..n /\ g[k] # f[k]
      BY <3>2
    <3>4. k # 0
      BY <1>4, <2>3, <3>3
    <3>5. k - 1 \in 0..n /\ ~(k <= k - 1) /\ k \in 1..n /\ k \in 1..N
      BY <1>1, <3>3, <3>4
    <3>6. k - 1 \notin S
      <4> HIDE DEF S
      <4> QED
        BY <3>2, <3>5
    <3>7. g[k - 1] = f[k - 1] /\ b[k] = all[k]
      BY <1>5, <3>5, <3>6
    <3>8. g[k] = g[k - 1] \o filterEvent(b[k].block) \o b[k].end
      BY <2>3, <3>4, <3>5
    <3>9. f[k] = f[k - 1] \o filterEvent(all[k].block) \o all[k].end
      BY <1>4, <3>5 DEF Wrote
    <3> QED
      BY <3>3, <3>7, <3>8, <3>9
  <2>5. n \in 0..n
    BY <1>1
  <2>6. g[n] = f[n]
    BY <2>4, <2>5
  <2> QED
    BY <2>6 DEF g
<1>6. Written(blocks) = f[L]
  <2>1. Written(blocks) = (CHOOSE g : Is(g, blocks, L))[L]
    BY DEF Written, L
  <2>2. L \in 0..N /\ \A k \in 1..L : blocks[k] = all[k]
    BY <1>1 DEF N
  <2> HIDE DEF Is
  <2> QED
    BY <1>5, <2>1, <2>2
<1>7. Written(all) = f[N]
  <2>1. Written(all) = (CHOOSE g : Is(g, all, N))[N]
    BY <1>1 DEF Written
  <2>2. N \in 0..N
    BY <1>1
  <2> HIDE DEF Is
  <2> QED
    BY <1>5, <2>1, <2>2
<1>8. N \in 1..N /\ N - 1 = L /\ L \in 0..N
  BY <1>1 DEF N
<1>9. f[N] = Wrote(f[L], all[N]) /\ f[L] \in Seq(Char)
  BY <1>4, <1>8
<1> QED
  BY <1>1, <1>6, <1>7, <1>9 DEF all

-----------------------------------------------------------------------------
(* What the parser makes of an event of the text.                          *)

Breaks == {"CR", "LF"}

\* Two line's ends that are not one make an event end, at the first or at the CR before it.
LEMMA TwoEnds ==
  ASSUME NEW s \in Seq(Char), NEW a \in 1..Len(s), NEW k \in a..(Len(s) - 1), s[k] \in Breaks, s[k + 1] \in Breaks,
         (s[k] = "CR" /\ s[k + 1] = "LF") => Ended(s, k + 1)
  PROVE  \E j \in a..k : Ended(s, j)
<1>1. Len(s) \in Nat /\ k \in 1..Len(s) /\ k + 1 \in 1..Len(s) /\ k \in Nat \ {0} /\ k \in a..k
  BY LenProperties
<1>2. At(s, k) = s[k] /\ At(s, k + 1) = s[k + 1]
  BY <1>1 DEF At
<1>3. CASE s[k] = "CR" /\ s[k + 1] = "LF"
  <2>1. LineEnd(s, k) = 2 /\ LineEnd(s, k + 1) = 1
    BY <1>2, <1>3 DEF LineEnd
  <2>2. LineEnd(s, (k + 1) + 1) > 0
    BY <1>3, <2>1 DEF Ended, EventEnd
  <2>3. (k + 1) + 1 = k + 2
    BY <1>1
  <2>4. EventEnd(s, k) = 2 + LineEnd(s, k + 2) /\ LineEnd(s, k + 2) \in {0, 1, 2}
    BY <2>1, <2>2, <2>3 DEF EventEnd, LineEnd
  <2>5. Ended(s, k)
    BY <2>2, <2>3, <2>4 DEF Ended
  <2> QED
    BY <1>1, <2>5
<1>4. CASE ~(s[k] = "CR" /\ s[k + 1] = "LF")
  <2>1. LineEnd(s, k) = 1
    BY <1>2, <1>4 DEF LineEnd, Breaks
  <2>2. LineEnd(s, k + 1) \in {1, 2}
    BY <1>2 DEF LineEnd, Breaks
  <2>3. EventEnd(s, k) = 1 + LineEnd(s, k + 1)
    BY <2>1, <2>2 DEF EventEnd
  <2>4. Ended(s, k)
    BY <2>2, <2>3 DEF Ended
  <2> QED
    BY <1>1, <2>4
<1> QED
  BY <1>3, <1>4

\* Between two events the parser has nothing in hand, and what it reads next is no half of a line's end.
Fresh(p, s, a) == p \in State /\ p.line = <<>> /\ p.event = <<>> /\ ~(p.afterCR /\ At(s, a) = "LF")

Secret(line) == \E k \in DOMAIN line : line[k] = "hidden"
SecretIn(event) == \E k \in DOMAIN event : Secret(event[k])

\* What was appended is what was there and that.
LEMMA SecretAppends ==
  /\ \A line \in Seq(Char) : \A c \in Char : Append(line, c) # <<>> /\ (Secret(Append(line, c)) <=> Secret(line) \/ c = "hidden")
  /\ \A event \in Event : \A line \in Seq(Char) :
       Append(event, line) # <<>> /\ (SecretIn(Append(event, line)) <=> SecretIn(event) \/ Secret(line))
  /\ ~Secret(<<>>) /\ ~SecretIn(<<>>)
<1>1. ASSUME NEW line \in Seq(Char), NEW c \in Char
      PROVE  Append(line, c) # <<>> /\ (Secret(Append(line, c)) <=> Secret(line) \/ c = "hidden")
  <2>1. /\ Len(line) \in Nat /\ DOMAIN line = 1..Len(line) /\ DOMAIN Append(line, c) = 1..(Len(line) + 1)
        /\ \A k \in 1..Len(line) : Append(line, c)[k] = line[k]
        /\ Append(line, c)[Len(line) + 1] = c /\ Len(Append(line, c)) = Len(line) + 1
    BY AppendProperties, LenProperties
  <2>2. Append(line, c) # <<>>
    BY <2>1, EmptySeq
  <2>3. Len(line) + 1 \in 1..(Len(line) + 1) /\ \A k \in 1..Len(line) : k \in 1..(Len(line) + 1)
    BY <2>1
  <2>4. \A k \in 1..(Len(line) + 1) : k \in 1..Len(line) \/ k = Len(line) + 1
    BY <2>1
  <2> DEFINE more == Append(line, c)
  <2> HIDE DEF more
  <2>5. Secret(more) <=> Secret(line) \/ c = "hidden"
    BY <2>1, <2>3, <2>4 DEF Secret, more
  <2> QED
    BY <2>2, <2>5 DEF more
<1>2. ASSUME NEW event \in Event, NEW line \in Seq(Char)
      PROVE  Append(event, line) # <<>> /\ (SecretIn(Append(event, line)) <=> SecretIn(event) \/ Secret(line))
  <2>1. /\ Len(event) \in Nat /\ DOMAIN event = 1..Len(event) /\ DOMAIN Append(event, line) = 1..(Len(event) + 1)
        /\ \A k \in 1..Len(event) : Append(event, line)[k] = event[k]
        /\ Append(event, line)[Len(event) + 1] = line /\ Len(Append(event, line)) = Len(event) + 1
    BY AppendProperties, LenProperties DEF Event
  <2>2. Append(event, line) # <<>>
    <3>1. Len(Append(event, line)) # 0 /\ Len(<<>>) = 0
      BY <2>1, EmptySeq
    <3> QED
      BY <3>1
  <2>3. Len(event) + 1 \in 1..(Len(event) + 1) /\ \A k \in 1..Len(event) : k \in 1..(Len(event) + 1)
    BY <2>1
  <2>4. \A k \in 1..(Len(event) + 1) : k \in 1..Len(event) \/ k = Len(event) + 1
    BY <2>1
  <2>5. SecretIn(Append(event, line)) <=> SecretIn(event) \/ Secret(line)
    BY <2>1, <2>3, <2>4 DEF SecretIn
  <2> QED
    BY <2>2, <2>5
<1>3. ~Secret(<<>>) /\ ~SecretIn(<<>>)
  BY EmptySeq DEF Secret, SecretIn
<1> QED
  BY <1>1, <1>2, <1>3

\* The parser after k characters of a stretch in which no event ends.
Reading(p, s, a, k) ==
  LET r == Read(p, s, a, k)
  IN  /\ r \in State /\ r.events = p.events
      /\ IF k < a THEN r = p ELSE (r.afterCR <=> s[k] = "CR") /\ (r.line = <<>> => s[k] \in Breaks)
      /\ (Secret(r.line) \/ SecretIn(r.event)) <=> \E j \in a..k : s[j] = "hidden"

\* A character more that ends no event.
LEMMA ReadingNext ==
  ASSUME NEW p, NEW s \in Seq(Char), NEW a \in 1..(Len(s) + 1), Fresh(p, s, a),
         NEW k \in a..Len(s), \A j \in a..k : ~Ended(s, j), Reading(p, s, a, k - 1)
  PROVE  Reading(p, s, a, k)
<1> DEFINE r == Read(p, s, a, k - 1)
           q == Read(p, s, a, k)
           c == s[k]
           joined == c = "LF" /\ r.afterCR
           ends == c \in {"CR", "LF"} /\ ~joined
<1>1. /\ Len(s) \in Nat /\ a \in Nat \ {0} /\ k \in Nat \ {0} /\ a <= k /\ k <= Len(s) /\ c \in Char
      /\ p \in State /\ p.line = <<>> /\ p.event = <<>> /\ At(s, k) = s[k]
  BY LenProperties, ElementOfSeq DEF Fresh, At
<1>2. /\ r \in State /\ r.events = p.events
      /\ IF k - 1 < a THEN r = p ELSE (r.afterCR <=> s[k - 1] = "CR") /\ (r.line = <<>> => s[k - 1] \in Breaks)
      /\ (Secret(r.line) \/ SecretIn(r.event)) <=> \E j \in a..(k - 1) : s[j] = "hidden"
  BY DEF Reading
<1>3. q = Parse(r, c) /\ r.line \in Seq(Char) /\ r.event \in Event
  <2>1. k \in (a - 1)..Len(s) /\ k >= a
    BY <1>1
  <2>2. q = Parse(r, c)
    BY <1>1, <2>1, ReadNext
  <2> QED
    BY <1>2, <2>2 DEF State
<1> HIDE DEF r, q
<1>4. /\ q \in State /\ (q.afterCR <=> c = "CR")
      /\ joined => q.line = r.line /\ q.event = r.event /\ q.events = r.events
      /\ c \notin {"CR", "LF"} => q.line = Append(r.line, c) /\ q.event = r.event /\ q.events = r.events
      /\ ends /\ r.line # <<>> => q.line = <<>> /\ q.event = Append(r.event, r.line) /\ q.events = r.events
      /\ ends /\ r.line = <<>> /\ r.event = <<>> => q.line = <<>> /\ q.event = <<>> /\ q.events = r.events
  BY <1>1, <1>2, <1>3, ParseIs, ZenonT(60)
<1>5. ~(ends /\ r.line = <<>> /\ r.event # <<>>)
  <2> SUFFICES ASSUME ends, r.line = <<>>, r.event # <<>> PROVE FALSE
    OBVIOUS
  <2>1. ~(k - 1 < a)
    BY <1>1, <1>2
  <2> DEFINE i == k - 1
  <2>2. i \in a..(Len(s) - 1) /\ a \in 1..Len(s) /\ i + 1 = k /\ i \in a..k /\ \A j \in a..i : j \in a..k
    BY <1>1, <2>1
  <2>3. s[i] \in Breaks /\ s[k] \in Breaks /\ ~(s[i] = "CR" /\ s[k] = "LF")
    BY <1>2, <2>1 DEF Breaks
  <2> HIDE DEF i, c
  <2>4. \E j \in a..i : Ended(s, j)
    BY <2>2, <2>3, TwoEnds
  <2> QED
    BY <2>2, <2>4
<1>6. (\E j \in a..k : s[j] = "hidden") <=> (\E j \in a..(k - 1) : s[j] = "hidden") \/ c = "hidden"
  <2>1. \A j \in a..k : j \in a..(k - 1) \/ j = k
    BY <1>1
  <2>2. k \in a..k /\ \A j \in a..(k - 1) : j \in a..k
    BY <1>1
  <2> QED
    BY <2>1, <2>2
<1>7. CASE c \notin {"CR", "LF"}
  <2>1. q.line = Append(r.line, c) /\ q.event = r.event /\ q.events = p.events
    BY <1>2, <1>4, <1>7
  <2>2. q.line # <<>> /\ (Secret(q.line) <=> Secret(r.line) \/ c = "hidden")
    <3>1. r.line \in Seq(Char) /\ c \in Char
      BY <1>1, <1>3
    <3> HIDE DEF c
    <3>2. Append(r.line, c) # <<>> /\ (Secret(Append(r.line, c)) <=> Secret(r.line) \/ c = "hidden")
      BY <3>1, SecretAppends, ZenonT(60)
    <3> QED
      BY <2>1, <3>2
  <2>3. (Secret(q.line) \/ SecretIn(q.event)) <=> \E j \in a..k : s[j] = "hidden"
    BY <1>2, <1>6, <2>1, <2>2
  <2>4. ~(k < a)
    BY <1>1
  <2> QED
    BY <1>4, <2>1, <2>2, <2>3, <2>4 DEF Reading, q
<1>8. CASE c \in {"CR", "LF"}
  <2>1. q.events = p.events /\ ((Secret(q.line) \/ SecretIn(q.event)) <=> (Secret(r.line) \/ SecretIn(r.event)))
    <3>1. CASE joined
      BY <1>2, <1>4, <3>1
    <3>2. CASE ends /\ r.line # <<>>
      <4>1. q.line = <<>> /\ q.event = Append(r.event, r.line) /\ q.events = r.events
        BY <1>4, <3>2
      <4>2. (SecretIn(q.event) <=> SecretIn(r.event) \/ Secret(r.line)) /\ ~Secret(q.line)
        BY <1>3, <4>1, SecretAppends
      <4> QED
        BY <1>2, <4>1, <4>2
    <3>3. CASE ends /\ r.line = <<>>
      <4>1. r.event = <<>>
        BY <1>5, <3>3
      <4> QED
        BY <1>2, <1>4, <3>3, <4>1
    <3> QED
      BY <1>8, <3>1, <3>2, <3>3
  <2>2. (Secret(q.line) \/ SecretIn(q.event)) <=> \E j \in a..k : s[j] = "hidden"
    <3>1. c # "hidden"
      BY <1>8
    <3> QED
      BY <1>2, <1>6, <2>1, <3>1
  <2>3. ~(k < a) /\ c \in Breaks
    BY <1>1, <1>8 DEF Breaks
  <2> QED
    BY <1>4, <2>1, <2>2, <2>3 DEF Reading, q
<1> QED
  BY <1>7, <1>8

\* A stretch in which no event ends.
LEMMA Stretch ==
  ASSUME NEW p, NEW s \in Seq(Char), NEW a \in 1..(Len(s) + 1), Fresh(p, s, a),
         NEW m \in (a - 1)..Len(s), \A j \in a..m : ~Ended(s, j)
  PROVE  Reading(p, s, a, m)
<1> DEFINE S == {k \in (a - 1)..m : ~Reading(p, s, a, k)}
<1>1. Len(s) \in Nat /\ a \in Nat \ {0} /\ m \in Int /\ p \in State
  BY LenProperties DEF Fresh
<1>2. ASSUME S # {} PROVE FALSE
  <2>1. S \in SUBSET Nat
    BY <1>1
  <2>2. PICK k \in S : \A j \in S : k <= j
    <3> HIDE DEF S
    <3> QED
      BY <1>2, <2>1, LeastExists
  <2>3. k \in (a - 1)..m /\ ~Reading(p, s, a, k)
    BY <2>2
  <2>4. CASE k = a - 1
    <3>1. k \in (a - 1)..Len(s) /\ k < a
      BY <1>1, <2>4
    <3>2. Read(p, s, a, k) = p
      BY <1>1, <3>1, ReadNext
    <3>3. p.line = <<>> /\ p.event = <<>>
      BY DEF Fresh
    <3>4. ~(\E j \in a..k : s[j] = "hidden")
      BY <1>1, <3>1
    <3>5. Reading(p, s, a, k)
      BY <1>1, <3>1, <3>2, <3>3, <3>4, SecretAppends DEF Reading
    <3> QED
      BY <2>3, <3>5
  <2>5. CASE k # a - 1
    <3>1. k \in a..Len(s) /\ k - 1 \in (a - 1)..m /\ ~(k <= k - 1) /\ \A j \in a..k : j \in a..m
      BY <1>1, <2>3, <2>5
    <3>2. k - 1 \notin S
      <4> HIDE DEF S
      <4> QED
        BY <2>2, <3>1
    <3>3. Reading(p, s, a, k - 1)
      BY <3>1, <3>2
    <3>4. Reading(p, s, a, k)
      BY <3>1, <3>3, ReadingNext
    <3> QED
      BY <2>3, <3>4
  <2> QED
    BY <2>4, <2>5
<1>3. m \in (a - 1)..m
  BY <1>1
<1> QED
  BY <1>2, <1>3

\* Parsers that differ in what they dispatched before read the same lines.
SameLines(p, q) == p.line = q.line /\ p.event = q.event /\ (p.afterCR <=> q.afterCR)

\* On any stretch of a text.
LEMMA SameStretch ==
  ASSUME NEW p \in State, NEW q \in State, SameLines(p, q),
         NEW s \in Seq(Char), NEW a \in 1..(Len(s) + 1), NEW m \in (a - 1)..Len(s)
  PROVE  SameLines(Read(p, s, a, m), Read(q, s, a, m))
<1> DEFINE S == {k \in (a - 1)..m : ~SameLines(Read(p, s, a, k), Read(q, s, a, k))}
<1>1. Len(s) \in Nat /\ a \in Nat \ {0} /\ m \in Int
  BY LenProperties
<1>2. ASSUME S # {} PROVE FALSE
  <2>1. S \in SUBSET Nat
    BY <1>1
  <2>2. PICK k \in S : \A j \in S : k <= j
    <3> HIDE DEF S
    <3> QED
      BY <1>2, <2>1, LeastExists
  <2>3. k \in (a - 1)..m /\ ~SameLines(Read(p, s, a, k), Read(q, s, a, k))
    BY <2>2
  <2>4. k \in (a - 1)..Len(s) /\ k \in Int
    BY <1>1, <2>3
  <2>5. CASE k < a
    <3>1. Read(p, s, a, k) = p /\ Read(q, s, a, k) = q
      BY <1>1, <2>4, <2>5, ReadNext
    <3> QED
      BY <2>3, <3>1
  <2>6. CASE k >= a
    <3> DEFINE r == Read(p, s, a, k - 1)
               t == Read(q, s, a, k - 1)
               c == s[k]
    <3>1. r \in State /\ Read(p, s, a, k) = Parse(r, c)
      BY <1>1, <2>4, <2>6, ReadNext
    <3>2. t \in State /\ Read(q, s, a, k) = Parse(t, c)
      BY <1>1, <2>4, <2>6, ReadNext
    <3>3. c \in Char
      BY <1>1, <2>4, <2>6, ElementOfSeq
    <3>4. SameLines(r, t)
      <4>1. k - 1 \in (a - 1)..m /\ ~(k <= k - 1)
        BY <1>1, <2>3, <2>6
      <4>2. k - 1 \notin S
        <5> HIDE DEF S
        <5> QED
          BY <2>2, <4>1
      <4> QED
        BY <4>1, <4>2
    <3> HIDE DEF r, t, c
    <3>5. SameLines(Parse(r, c), Parse(t, c))
      <4> DEFINE x == Parse(r, c)
                 y == Parse(t, c)
      <4>1. /\ (x.afterCR <=> c = "CR")
            /\ c = "LF" /\ r.afterCR => x.line = r.line /\ x.event = r.event
            /\ c \notin {"CR", "LF"} => x.line = Append(r.line, c) /\ x.event = r.event
            /\ (c \in {"CR", "LF"} /\ ~(c = "LF" /\ r.afterCR)) /\ r.line # <<>> =>
                 x.line = <<>> /\ x.event = Append(r.event, r.line)
            /\ (c \in {"CR", "LF"} /\ ~(c = "LF" /\ r.afterCR)) /\ r.line = <<>> =>
                 x.line = <<>> /\ x.event = <<>>
        <5> HIDE DEF x
        <5> QED
          BY <3>1, <3>3, ParseIs DEF x
      <4>2. /\ (y.afterCR <=> c = "CR")
            /\ c = "LF" /\ t.afterCR => y.line = t.line /\ y.event = t.event
            /\ c \notin {"CR", "LF"} => y.line = Append(t.line, c) /\ y.event = t.event
            /\ (c \in {"CR", "LF"} /\ ~(c = "LF" /\ t.afterCR)) /\ t.line # <<>> =>
                 y.line = <<>> /\ y.event = Append(t.event, t.line)
            /\ (c \in {"CR", "LF"} /\ ~(c = "LF" /\ t.afterCR)) /\ t.line = <<>> =>
                 y.line = <<>> /\ y.event = <<>>
        <5> HIDE DEF y
        <5> QED
          BY <3>2, <3>3, ParseIs DEF y
      <4> HIDE DEF x, y
      <4>3. x.line = y.line /\ x.event = y.event
        BY <3>4, <4>1, <4>2 DEF SameLines
      <4> QED
        BY <4>1, <4>2, <4>3 DEF SameLines, x, y
    <3> QED
      BY <2>3, <3>1, <3>2, <3>5
  <2> QED
    BY <1>1, <2>4, <2>5, <2>6
<1>3. m \in (a - 1)..m
  BY <1>1
<1> QED
  BY <1>2, <1>3

\* One line's end, of one character or two.
LEMMA LineRead ==
  ASSUME NEW r \in State, NEW s \in Seq(Char), NEW f \in 1..Len(s), LineEnd(s, f) > 0, ~(r.afterCR /\ At(s, f) = "LF")
  PROVE  LET z == f + LineEnd(s, f)
             q == Read(r, s, f, z - 1)
         IN  /\ z \in (f + 1)..(Len(s) + 1) /\ q \in State /\ q.line = <<>>
             /\ q.event = IF r.line # <<>> THEN Append(r.event, r.line) ELSE <<>>
             /\ q.events = IF r.line = <<>> /\ r.event # <<>> THEN Append(r.events, r.event) ELSE r.events
             /\ (q.afterCR <=> s[z - 1] = "CR") /\ ~(q.afterCR /\ At(s, z) = "LF")
<1> DEFINE c == s[f]
           one == Read(r, s, f, f)
<1>1. /\ Len(s) \in Nat /\ f \in Nat \ {0} /\ f \in (f - 1)..Len(s) /\ f >= f /\ f - 1 < f /\ f - 1 \in (f - 1)..Len(s)
      /\ c \in Char /\ At(s, f) = c
  BY LenProperties, ElementOfSeq DEF At
<1>2. one = Parse(r, c)
  <2> DEFINE e == f - 1
  <2>1. Read(r, s, f, e) = r
    <3> HIDE DEF e
    <3> QED
      BY <1>1, ReadNext DEF e
  <2>2. one = Parse(Read(r, s, f, e), c)
    BY <1>1, ReadNext
  <2> QED
    BY <2>1, <2>2
<1>3. c \in {"CR", "LF"} /\ ~(c = "LF" /\ r.afterCR)
  BY <1>1 DEF LineEnd
<1> HIDE DEF one, c
<1>4. /\ one \in State /\ one.line = <<>> /\ (one.afterCR <=> c = "CR")
      /\ one.event = IF r.line # <<>> THEN Append(r.event, r.line) ELSE <<>>
      /\ one.events = IF r.line = <<>> /\ r.event # <<>> THEN Append(r.events, r.event) ELSE r.events
  <2>1. CASE r.line # <<>>
    BY <1>1, <1>2, <1>3, <2>1, ParseIs
  <2>2. CASE r.line = <<>> /\ r.event = <<>>
    BY <1>1, <1>2, <1>3, <2>2, ParseIs
  <2>3. CASE r.line = <<>> /\ r.event # <<>>
    BY <1>1, <1>2, <1>3, <2>3, ParseIs
  <2> QED
    BY <2>1, <2>2, <2>3
<1>5. CASE c = "CR" /\ At(s, f + 1) = "LF"
  <2>1. LineEnd(s, f) = 2
    BY <1>1, <1>5 DEF LineEnd
  <2>2. f + 1 \in 1..Len(s) /\ s[f + 1] = "LF"
    BY <1>5 DEF At
  <2> DEFINE g == f + 1
             q == Read(r, s, f, g)
  <2>3. g \in (f - 1)..Len(s) /\ g >= f /\ g - 1 = f
    BY <1>1, <2>2
  <2>4. q = Parse(one, "LF")
    <3> HIDE DEF g
    <3>1. Read(r, s, f, g) = Parse(Read(r, s, f, g - 1), s[g])
      BY <1>1, <2>3, ReadNext
    <3>2. s[g] = "LF"
      BY <2>2 DEF g
    <3> QED
      BY <2>3, <3>1, <3>2 DEF one
  <2>5. "LF" \in Char
    BY DEF Char
  <2> HIDE DEF q, g
  <2>6. q \in State /\ (q.afterCR <=> "LF" = "CR") /\ q.line = one.line /\ q.event = one.event /\ q.events = one.events
    BY <1>4, <1>5, <2>4, <2>5, ParseIs
  <2>7. f + 2 \in (f + 1)..(Len(s) + 1) /\ (f + 2) - 1 = g /\ s[g] = "LF"
    BY <1>1, <2>2 DEF g
  <2> DEFINE z == f + LineEnd(s, f)
  <2>8. z - 1 = g /\ z \in (f + 1)..(Len(s) + 1)
    BY <2>1, <2>7
  <2>9. Read(r, s, f, z - 1) = q
    BY <2>8 DEF q
  <2> HIDE DEF z
  <2>10. ~q.afterCR /\ s[z - 1] # "CR"
    BY <2>6, <2>7, <2>8
  <2> QED
    BY <1>4, <2>6, <2>8, <2>9, <2>10 DEF z
<1>6. CASE ~(c = "CR" /\ At(s, f + 1) = "LF")
  <2>1. LineEnd(s, f) = 1
    BY <1>1, <1>3, <1>6 DEF LineEnd
  <2> DEFINE z == f + LineEnd(s, f)
  <2>2. z = f + 1 /\ z - 1 = f /\ z \in (f + 1)..(Len(s) + 1)
    BY <1>1, <2>1
  <2>3. Read(r, s, f, z - 1) = one
    BY <2>2 DEF one
  <2> HIDE DEF z
  <2>4. (one.afterCR <=> s[z - 1] = "CR") /\ ~(one.afterCR /\ At(s, z) = "LF")
    BY <1>4, <1>6, <2>2 DEF c
  <2> QED
    BY <1>4, <2>2, <2>3, <2>4 DEF z
<1> QED
  BY <1>5, <1>6

\* The event the parser is reading, with its line.
Whole(r) == IF r.line = <<>> THEN r.event ELSE Append(r.event, r.line)

\* The end of an event of the text: what was being read is dispatched, if it is anything.
LEMMA EndRead ==
  ASSUME NEW r \in State, NEW s \in Seq(Char), NEW f \in 1..Len(s), Ended(s, f), ~(r.afterCR /\ At(s, f) = "LF")
  PROVE  LET z == f + EventEnd(s, f)
             q == Read(r, s, f, z - 1)
         IN  /\ z \in (f + 1)..(Len(s) + 1) /\ Fresh(q, s, z) /\ (q.afterCR <=> s[z - 1] = "CR")
             /\ q.events = IF Whole(r) = <<>> THEN r.events ELSE Append(r.events, Whole(r))
<1> DEFINE g == f + LineEnd(s, f)
           one == Read(r, s, f, g - 1)
           z == g + LineEnd(s, g)
           two == Read(one, s, g, z - 1)
<1>1. Len(s) \in Nat /\ LineEnd(s, f) \in {0, 1, 2} /\ LineEnd(s, g) \in {0, 1, 2}
  BY LenProperties DEF LineEnd
<1>2. LineEnd(s, f) > 0 /\ LineEnd(s, g) > 0 /\ f + EventEnd(s, f) = z
  <2> DEFINE l == LineEnd(s, f)
             h == LineEnd(s, g)
  <2>1. l > 0 /\ h > 0 /\ EventEnd(s, f) = l + h
    <3>1. EventEnd(s, f) = IF l > 0 /\ h > 0 THEN l + h ELSE 0
      BY DEF EventEnd
    <3> HIDE DEF l, h
    <3> QED
      BY <3>1 DEF Ended
  <2>2. f + (l + h) = (f + l) + h
    <3> HIDE DEF l, h
    <3> QED
      BY <1>1 DEF l, h
  <2> QED
    BY <2>1, <2>2
<1> HIDE DEF z, two
<1>3. /\ g \in (f + 1)..(Len(s) + 1) /\ one \in State /\ one.line = <<>>
      /\ one.event = IF r.line # <<>> THEN Append(r.event, r.line) ELSE <<>>
      /\ one.events = IF r.line = <<>> /\ r.event # <<>> THEN Append(r.events, r.event) ELSE r.events
      /\ ~(one.afterCR /\ At(s, g) = "LF")
  BY <1>2, LineRead
<1> HIDE DEF g, one
<1>4. g \in 1..Len(s)
  <2>1. g = Len(s) + 1 => At(s, g) = "end"
    BY <1>1 DEF At
  <2>2. At(s, g) # "end"
    BY <1>2 DEF LineEnd
  <2> QED
    BY <1>1, <1>3, <2>1, <2>2
<1>5. /\ z \in (g + 1)..(Len(s) + 1) /\ two \in State /\ two.line = <<>>
      /\ two.event = IF one.line # <<>> THEN Append(one.event, one.line) ELSE <<>>
      /\ two.events = IF one.line = <<>> /\ one.event # <<>> THEN Append(one.events, one.event) ELSE one.events
      /\ (two.afterCR <=> s[z - 1] = "CR") /\ ~(two.afterCR /\ At(s, z) = "LF")
  BY <1>2, <1>3, <1>4, LineRead DEF z, two
<1>6. Read(r, s, f, z - 1) = two
  <2> DEFINE m == z - 1
  <2>1. f \in 1..(Len(s) + 1) /\ g \in f..(Len(s) + 1) /\ m \in (g - 1)..Len(s)
    BY <1>1, <1>3, <1>4, <1>5
  <2> HIDE DEF m
  <2>2. Read(r, s, f, m) = Read(Read(r, s, f, g - 1), s, g, m)
    BY <2>1, ReadOn
  <2> QED
    BY <2>2 DEF m, one, two
<1>7. two.events = IF Whole(r) = <<>> THEN r.events ELSE Append(r.events, Whole(r))
  <2>1. r.line \in Seq(Char) /\ r.event \in Event
    BY DEF State
  <2>2. Append(r.event, r.line) # <<>>
    BY <2>1, SecretAppends
  <2> QED
    BY <1>3, <1>5, <2>2 DEF Whole
<1>8. z \in (f + 1)..(Len(s) + 1)
  BY <1>1, <1>3, <1>5
<1>9. Fresh(two, s, z)
  BY <1>3, <1>5 DEF Fresh
<1> QED
  BY <1>2, <1>5, <1>6, <1>7, <1>8, <1>9

-----------------------------------------------------------------------------
(* The filter and the client.                                              *)

Cleaned(events) == [k \in DOMAIN events |-> Filtered(events[k])]

LEMMA CleanedAppends ==
  ASSUME NEW events \in Seq(Event), NEW event \in Event
  PROVE  Cleaned(Append(events, event)) = Append(Cleaned(events), Filtered(event))
<1> DEFINE more == Append(events, event)
           L == Len(events)
<1>1. /\ L \in Nat /\ DOMAIN events = 1..L /\ DOMAIN more = 1..(L + 1) /\ Len(more) = L + 1
      /\ \A k \in 1..L : more[k] = events[k]
      /\ more[L + 1] = event
  BY AppendProperties, LenProperties
<1>2. \A x \in Event : Filtered(x) \in Event
  <2>1. <<<<"shown">>>> \in Event
    BY DEF Event, Char
  <2> QED
    BY <2>1 DEF Filtered
<1>3. \A k \in 1..L : events[k] \in Event
  BY <1>1, ElementOfSeq
<1> HIDE DEF more, L
<1>4. Cleaned(more) = [k \in 1..(L + 1) |-> Filtered(more[k])] /\ Cleaned(events) = [k \in 1..L |-> Filtered(events[k])]
  BY <1>1 DEF Cleaned
<1>5. Cleaned(events) \in Seq(Event) /\ Len(Cleaned(events)) = L
  <2>1. [k \in 1..L |-> Filtered(events[k])] \in [1..L -> Event]
    BY <1>2, <1>3
  <2> QED
    BY <1>1, <1>4, <2>1, SeqDef, LenProperties
<1>6. Cleaned(more) \in Seq(Event) /\ Len(Cleaned(more)) = L + 1
  <2>1. \A k \in 1..(L + 1) : more[k] \in Event
    BY <1>1, <1>3
  <2>2. [k \in 1..(L + 1) |-> Filtered(more[k])] \in [1..(L + 1) -> Event]
    BY <1>2, <2>1
  <2>3. Cleaned(more) \in Seq(Event)
    BY <1>1, <1>4, <2>2, SeqDef
  <2>4. DOMAIN Cleaned(more) = 1..(L + 1)
    BY <1>4
  <2> QED
    BY <1>1, <2>3, <2>4, LenProperties
<1> DEFINE right == Append(Cleaned(events), Filtered(event))
<1>7. /\ right \in Seq(Event) /\ Len(right) = L + 1
      /\ \A k \in 1..L : right[k] = Cleaned(events)[k]
      /\ right[L + 1] = Filtered(event)
  <2>1. Filtered(event) \in Event
    BY <1>2
  <2> QED
    BY <1>5, <2>1, AppendProperties
<1>8. ASSUME NEW k \in 1..(L + 1)
      PROVE  Cleaned(more)[k] = right[k]
  <2> HIDE DEF right
  <2>1. CASE k = L + 1
    BY <1>1, <1>4, <1>7, <2>1
  <2>2. CASE k # L + 1
    <3>1. k \in 1..L
      BY <1>1, <2>2
    <3> QED
      BY <1>1, <1>4, <1>7, <3>1
  <2> QED
    BY <2>1, <2>2
<1>9. Cleaned(more) = right
  <2> HIDE DEF right
  <2> QED
    BY <1>6, <1>7, <1>8, SeqEqual
<1> QED
  BY <1>9 DEF more

\* The filter and the client's parser are between two events: what the client dispatched of what
\* was enqueued is what the upstream ended before, filtered.
Parted(s, base, blocks) ==
  LET p == Read(Parser, s, 1, base)
      q == After(Parser, Written(blocks))
  IN  /\ Fresh(p, s, base + 1) /\ Fresh(q, s, base + 1) /\ (p.afterCR <=> q.afterCR)
      /\ q.events = Cleaned(p.events)

\* A block of the text, filtered or not, is read as the text's event is.
LEMMA BlockRead ==
  ASSUME NEW p, NEW q, NEW s \in Seq(Char), NEW a \in 1..(Len(s) + 1), NEW m \in (a - 1)..Len(s),
         Fresh(p, s, a), Fresh(q, s, a), p.afterCR <=> q.afterCR, \A j \in a..m : ~Ended(s, j)
  PROVE  LET x == Read(p, s, a, m)
             y == After(q, filterEvent(SubSeq(s, a, m)))
         IN  /\ x \in State /\ y \in State /\ x.events = p.events /\ y.events = q.events
             /\ (~Secret(SubSeq(s, a, m))) => SameLines(x, y) /\ Filtered(Whole(x)) = Whole(x)
             /\ Secret(SubSeq(s, a, m)) =>
                  /\ m >= a /\ y.line = <<"shown">> /\ y.event = <<>> /\ ~y.afterCR
                  /\ Secret(x.line) \/ SecretIn(x.event)
<1> DEFINE b == SubSeq(s, a, m)
           x == Read(p, s, a, m)
           y == After(q, filterEvent(b))
<1>1. /\ Len(s) \in Nat /\ a \in Nat \ {0} /\ m \in Int /\ p \in State /\ q \in State
      /\ q.line = <<>> /\ q.event = <<>> /\ p.line = <<>> /\ p.event = <<>>
  BY LenProperties DEF Fresh
<1>2. Reading(p, s, a, m) /\ Reading(q, s, a, m)
  BY Stretch
<1>3. /\ x \in State /\ x.events = p.events
      /\ (Secret(x.line) \/ SecretIn(x.event)) <=> \E j \in a..m : s[j] = "hidden"
  BY <1>2 DEF Reading
<1>4. Secret(b) <=> \E j \in a..m : s[j] = "hidden"
  <2>1. \A k \in a..m : s[k] \in Char
    BY <1>1, ElementOfSeq
  <2>2. /\ b \in Seq(Char) /\ Len(b) = IF a <= m THEN m - a + 1 ELSE 0
        /\ \A k \in 1..(m - a + 1) : b[k] = s[a + k - 1]
    BY <1>1, <2>1, SubSeqProperties
  <2> HIDE DEF b
  <2>3. DOMAIN b = 1..((m - a) + 1)
    BY <1>1, <2>2, LenProperties
  <2>4. ASSUME NEW k \in DOMAIN b, b[k] = "hidden"
        PROVE  \E j \in a..m : s[j] = "hidden"
    <3>1. k \in 1..(m - a + 1) /\ a + k - 1 \in a..m
      BY <1>1, <2>3
    <3>2. s[a + k - 1] = "hidden"
      BY <2>2, <2>4, <3>1
    <3> QED
      BY <3>1, <3>2
  <2>5. ASSUME NEW j \in a..m, s[j] = "hidden"
        PROVE  \E k \in DOMAIN b : b[k] = "hidden"
    <3> DEFINE k == (j - a) + 1
    <3>1. k \in 1..(m - a + 1) /\ k \in DOMAIN b /\ a + k - 1 = j
      BY <1>1, <2>3
    <3> HIDE DEF k
    <3>2. b[k] = s[j]
      BY <2>2, <3>1
    <3> QED
      BY <2>5, <3>1, <3>2
  <2> QED
    BY <2>4, <2>5 DEF Secret
<1>5. filterEvent(b) = IF Secret(b) THEN <<"shown">> ELSE b
  BY DEF filterEvent, Secret
<1>6. CASE ~Secret(b)
  <2>1. y = Read(q, s, a, m)
    BY <1>5, <1>6 DEF Read
  <2>2. y \in State /\ y.events = q.events
    BY <1>2, <2>1 DEF Reading
  <2>3. SameLines(p, q)
    BY <1>1 DEF SameLines
  <2>4. SameLines(x, y)
    <3> HIDE DEF x, y, b
    <3> QED
      BY <1>1, <2>1, <2>3, SameStretch DEF x
  <2> HIDE DEF x, y, b
  <2>5. ~Secret(x.line) /\ ~SecretIn(x.event) /\ x.line \in Seq(Char) /\ x.event \in Event
    BY <1>3, <1>4, <1>6 DEF State
  <2>6. ~SecretIn(Whole(x))
    <3>1. ~SecretIn(Append(x.event, x.line))
      BY <2>5, SecretAppends
    <3> QED
      BY <2>5, <3>1 DEF Whole
  <2>7. Filtered(Whole(x)) = Whole(x)
    BY <2>6 DEF Filtered, SecretIn, Secret
  <2> QED
    BY <1>3, <1>6, <2>2, <2>4, <2>7 DEF x, y, b
<1>7. CASE Secret(b)
  <2>1. y = Parse(q, "shown") /\ "shown" \in Char
    BY <1>1, <1>5, <1>7, AfterFew DEF Char
  <2> HIDE DEF x, y
  <2>2. y \in State /\ (y.afterCR <=> "shown" = "CR") /\ y.line = Append(<<>>, "shown") /\ y.event = <<>> /\ y.events = q.events
    BY <1>1, <2>1, ParseIs
  <2>3. Append(<<>>, "shown") = <<"shown">>
    OBVIOUS
  <2>4. m >= a
    BY <1>1, <1>4, <1>7
  <2>5. Secret(x.line) \/ SecretIn(x.event)
    BY <1>3, <1>4, <1>7
  <2>6. ~y.afterCR
    BY <2>2
  <2> HIDE DEF b
  <2> QED
    BY <1>3, <1>7, <2>2, <2>3, <2>4, <2>5, <2>6 DEF x, y, b
<1> QED
  BY <1>6, <1>7

\* What ends before an event does is the last line's text.
LEMMA LastIsText ==
  ASSUME NEW s \in Seq(Char), NEW a \in 1..Len(s), NEW f \in (a + 1)..Len(s), Ended(s, f), \A j \in a..(f - 1) : ~Ended(s, j)
  PROVE  s[f - 1] \notin Breaks
<1> SUFFICES ASSUME s[f - 1] \in Breaks PROVE FALSE
  OBVIOUS
<1> DEFINE k == f - 1
<1>1. Len(s) \in Nat /\ k \in a..(Len(s) - 1) /\ k + 1 = f /\ f \in 1..Len(s)
  BY LenProperties
<1>2. s[f] \in Breaks
  <2>1. LineEnd(s, f) > 0
    BY DEF Ended, EventEnd
  <2>2. At(s, f) = s[f]
    BY <1>1 DEF At
  <2> QED
    BY <2>1, <2>2 DEF LineEnd, Breaks
<1>3. s[k] \in Breaks /\ s[k + 1] \in Breaks /\ Ended(s, k + 1) /\ \A j \in a..k : ~Ended(s, j)
  BY <1>1, <1>2
<1> HIDE DEF k
<1> QED
  BY <1>1, <1>3, TwoEnds

\* An event passes the filter, and client and upstream are between two events again.
LEMMA EventPasses ==
  ASSUME NEW s \in Seq(Char), NEW base \in 0..Len(s), NEW blocks \in Blocks, Parted(s, base, blocks),
         NEW f \in (base + 1)..Len(s), Ended(s, f), \A j \in (base + 1)..(f - 1) : ~Ended(s, j)
  PROVE  LET z == f + EventEnd(s, f)
             block == [block |-> SubSeq(s, base + 1, f - 1), end |-> SubSeq(s, f, z - 1)]
         IN  Parted(s, z - 1, Append(blocks, block))
<1> DEFINE a == base + 1
           m == f - 1
           z == f + EventEnd(s, f)
           b == SubSeq(s, a, m)
           end == SubSeq(s, f, z - 1)
           block == [block |-> b, end |-> end]
           p == Read(Parser, s, 1, base)
           q == After(Parser, Written(blocks))
           x == Read(p, s, a, m)
           y == After(q, filterEvent(b))
           X == Read(x, s, f, z - 1)
           Y == Read(y, s, f, z - 1)
<1>1. /\ Len(s) \in Nat /\ base \in Nat /\ f \in Nat \ {0} /\ a \in 1..Len(s) /\ a \in 1..(Len(s) + 1) /\ m \in (a - 1)..Len(s)
      /\ a - 1 = base /\ f \in 1..Len(s) /\ f \in a..(Len(s) + 1) /\ f - 1 = m /\ m + 1 = f
  BY LenProperties
<1>2. /\ Fresh(p, s, a) /\ Fresh(q, s, a) /\ (p.afterCR <=> q.afterCR)
      /\ q.events = Cleaned(p.events) /\ p \in State /\ q \in State
  BY DEF Parted, Fresh
<1>3. Parser \in State
  BY EmptySeq DEF Parser, State, Event
<1>4. \A j \in a..m : ~Ended(s, j)
  BY <1>1
<1> HIDE DEF p, q, m, a, z
<1>5. /\ x \in State /\ y \in State /\ x.events = p.events /\ y.events = q.events
      /\ (~Secret(b)) => SameLines(x, y) /\ Filtered(Whole(x)) = Whole(x)
      /\ Secret(b) =>
           /\ m >= a /\ y.line = <<"shown">> /\ y.event = <<>> /\ ~y.afterCR
           /\ Secret(x.line) \/ SecretIn(x.event)
  BY <1>1, <1>2, <1>4, BlockRead
<1>6. IF m < a THEN x = p ELSE ~x.afterCR /\ x.line # <<>>
  <2>1. Reading(p, s, a, m)
    BY <1>1, <1>2, <1>4, Stretch
  <2>2. IF m < a THEN x = p ELSE (x.afterCR <=> s[m] = "CR") /\ (x.line = <<>> => s[m] \in Breaks)
    <3> HIDE DEF x
    <3> QED
      BY <2>1 DEF Reading, x
  <2>3. CASE m < a
    BY <2>2, <2>3
  <2>4. CASE ~(m < a)
    <3>1. f \in (a + 1)..Len(s)
      BY <1>1, <2>4
    <3>2. s[f - 1] \notin Breaks
      BY <1>1, <1>4, <3>1, LastIsText
    <3> QED
      BY <1>1, <2>2, <2>4, <3>2 DEF Breaks
  <2> QED
    BY <2>3, <2>4
<1> HIDE DEF x, y
<1>7. ~(x.afterCR /\ At(s, f) = "LF")
  <2>1. CASE m < a
    <3>1. f = a /\ x = p
      BY <1>1, <1>6, <2>1
    <3> QED
      BY <1>2, <3>1 DEF Fresh
  <2>2. CASE ~(m < a)
    BY <1>6, <2>2
  <2> QED
    BY <2>1, <2>2
<1>8. ~(y.afterCR /\ At(s, f) = "LF")
  BY <1>5, <1>7 DEF SameLines
<1>9. /\ z \in (f + 1)..(Len(s) + 1) /\ Fresh(X, s, z) /\ (X.afterCR <=> s[z - 1] = "CR")
      /\ X.events = IF Whole(x) = <<>> THEN p.events ELSE Append(p.events, Whole(x))
  BY <1>1, <1>5, <1>7, EndRead DEF z
<1>10. /\ Fresh(Y, s, z) /\ (Y.afterCR <=> s[z - 1] = "CR")
       /\ Y.events = IF Whole(y) = <<>> THEN q.events ELSE Append(q.events, Whole(y))
  BY <1>1, <1>5, <1>8, EndRead DEF z
<1> HIDE DEF X, Y
<1>11. Y.events = Cleaned(X.events)
  <2>1. p.events \in Seq(Event) /\ x.line \in Seq(Char) /\ x.event \in Event
    BY <1>2, <1>5 DEF State
  <2>2. Append(x.event, x.line) # <<>> /\ Append(x.event, x.line) \in Event
    BY <2>1, SecretAppends, AppendProperties DEF Event
  <2>3. Whole(x) \in Event
    BY <2>1, <2>2 DEF Whole
  <2>4. Whole(y) = Filtered(Whole(x)) /\ (Whole(y) = <<>> <=> Whole(x) = <<>>)
    <3>1. CASE ~Secret(b)
      <4>1. Whole(y) = Whole(x)
        BY <1>5, <3>1 DEF SameLines, Whole
      <4> QED
        BY <1>5, <3>1, <4>1
    <3>2. CASE Secret(b)
      <4>1. y.line = <<"shown">> /\ y.event = <<>> /\ x.line # <<>>
        <5>1. m >= a /\ y.line = <<"shown">> /\ y.event = <<>>
          BY <1>5, <3>2
        <5>2. m \in Int /\ a \in Int
          BY <1>1
        <5>3. ~(m < a)
          BY <5>1, <5>2
        <5> QED
          BY <1>6, <5>1, <5>3
      <4>2. Whole(x) = Append(x.event, x.line) /\ Whole(y) = Append(<<>>, <<"shown">>)
        <5>1. <<"shown">> # <<>>
          OBVIOUS
        <5> QED
          BY <4>1, <5>1 DEF Whole
      <4>3. Append(<<>>, <<"shown">>) = <<<<"shown">>>> /\ <<<<"shown">>>> # <<>>
        OBVIOUS
      <4>4. SecretIn(Whole(x))
        BY <1>5, <2>1, <3>2, <4>2, SecretAppends
      <4>5. Filtered(Whole(x)) = <<<<"shown">>>>
        BY <4>4 DEF Filtered, SecretIn, Secret
      <4> QED
        BY <2>2, <4>2, <4>3, <4>5
    <3> QED
      BY <3>1, <3>2
  <2>5. CASE Whole(x) = <<>>
    BY <1>2, <1>5, <1>9, <1>10, <2>4, <2>5
  <2>6. CASE Whole(x) # <<>>
    <3>1. X.events = Append(p.events, Whole(x)) /\ Y.events = Append(Cleaned(p.events), Filtered(Whole(x)))
      BY <1>2, <1>9, <1>10, <2>4, <2>6
    <3> QED
      BY <2>1, <2>3, <3>1, CleanedAppends
  <2> QED
    BY <2>5, <2>6
<1>12. Read(Parser, s, 1, z - 1) = X
  <2> DEFINE n == z - 1
  <2>1. n \in (f - 1)..Len(s) /\ n \in (a - 1)..Len(s) /\ 1 \in 1..(Len(s) + 1) /\ a \in 1..(Len(s) + 1)
    BY <1>1, <1>9
  <2> HIDE DEF n
  <2>2. Read(Parser, s, 1, n) = Read(p, s, a, n)
    <3>1. Read(Parser, s, 1, n) = Read(Read(Parser, s, 1, a - 1), s, a, n)
      BY <1>3, <2>1, ReadOn
    <3> QED
      BY <1>1, <3>1 DEF p
  <2>3. Read(p, s, a, n) = Read(x, s, f, n)
    <3>1. Read(p, s, a, n) = Read(Read(p, s, a, f - 1), s, f, n)
      BY <1>1, <1>2, <2>1, ReadOn, SMTT(30)
    <3> QED
      BY <1>1, <3>1 DEF x
  <2> QED
    BY <2>2, <2>3 DEF n, X
<1>13. After(Parser, Written(Append(blocks, block))) = Y
  <2>1. b \in Seq(Char) /\ end \in Seq(Char)
    <3>1. \A k \in 1..Len(s) : s[k] \in Char
      BY ElementOfSeq
    <3>2. m \in Int /\ a \in Int /\ \A k \in a..m : s[k] \in Char
      BY <1>1, <3>1
    <3> DEFINE n == z - 1
    <3>3. f \in Int /\ n \in Int /\ \A k \in f..n : s[k] \in Char
      BY <1>1, <1>9, <3>1
    <3> HIDE DEF n
    <3>4. SubSeq(s, f, n) \in Seq(Char)
      BY <3>3, SubSeqProperties
    <3> QED
      BY <3>2, <3>4, SubSeqProperties DEF n
  <2>2. block \in [block : Seq(Char), end : Seq(Char)] /\ block.block = b /\ block.end = end
    BY <2>1
  <2> DEFINE w == Written(blocks)
             v == filterEvent(b)
  <2> HIDE DEF block
  <2>3. w \in Seq(Char) /\ Written(Append(blocks, block)) = (w \o v) \o end /\ v \in Seq(Char)
    <3>1. Written(blocks) \in Seq(Char) /\ Written(Append(blocks, block)) = Wrote(Written(blocks), block)
      BY <2>2, WrittenAppends
    <3>2. filterEvent(b) \in Seq(Char)
      BY <2>1, FilterType
    <3> QED
      BY <2>2, <3>1, <3>2 DEF Wrote
  <2> HIDE DEF w, v, b, end
  <2>4. After(Parser, w \o v) = After(q, v)
    BY <1>3, <2>3, AfterConcat DEF q, w
  <2>5. w \o v \in Seq(Char)
    BY <2>3, ConcatProperties
  <2>6. After(Parser, (w \o v) \o end) = After(After(Parser, w \o v), end)
    BY <1>3, <2>1, <2>5, AfterConcat
  <2>7. After(Parser, (w \o v) \o end) = After(y, end)
    BY <2>4, <2>6 DEF y, v
  <2> QED
    BY <2>3, <2>7 DEF Y, Read, end
<1> HIDE DEF block
<1>14. z = (z - 1) + 1
  BY <1>1, <1>9
<1>15. Fresh(X, s, (z - 1) + 1) /\ Fresh(Y, s, (z - 1) + 1)
  BY <1>9, <1>10, <1>14
<1>16. Parted(s, z - 1, Append(blocks, block))
  BY <1>9, <1>10, <1>11, <1>12, <1>13, <1>15 DEF Parted
<1> QED
  BY <1>16 DEF block, b, end, z, a, m

-----------------------------------------------------------------------------
(* What the buffer is: a window of the text.                               *)

\* Where the search has been, no event of the text ends: what starts at the window's start has not
\* ended before From(scan).
Searched(s, base, scan) == \A p \in 1..(From(scan) - 1) : ~Ended(s, base + p)

\* The first match in a buffer.
FirstMatch(b, scan) == CHOOSE p \in Matches(b, scan) : \A q \in Matches(b, scan) : p <= q

Found(b, scan, at) == at = FirstMatch(b, scan)

\* Of the matches the search finds the first, and it is the end of the text's event.
LEMMA FoundIsFirst ==
  ASSUME NEW s \in Seq(Char), NEW base, NEW b, Window(s, base, b), NEW scan \in 0..Len(b),
         Searched(s, base, scan), Matches(b, scan) # {},
         NEW at, Found(b, scan, at)
  PROVE  /\ at \in 1..Len(b) /\ EventEnd(b, at) > 0
         /\ FirstEnd(s, base + 1) = base + at
<1>1. base \in Nat /\ Len(b) \in Nat /\ base + Len(b) <= Len(s) /\ Len(s) \in Nat
  BY LenProperties DEF Window
<1>2. From(scan) \in Nat \ {0}
  BY <1>1 DEF From, OVERLAP
<1>3. Matches(b, scan) = {p \in From(scan)..Len(b) : EventEnd(b, p) > 0}
  BY DEF Matches
<1>4. at \in Matches(b, scan) /\ \A q \in Matches(b, scan) : at <= q
  <2>1. Matches(b, scan) \in SUBSET Nat
    BY <1>1, <1>2, <1>3
  <2>2. \E p \in Matches(b, scan) : \A q \in Matches(b, scan) : p <= q
    BY <2>1, LeastExists
  <2> QED
    BY <2>2 DEF Found, FirstMatch
<1>5. at \in 1..Len(b) /\ EventEnd(b, at) > 0
  BY <1>1, <1>2, <1>3, <1>4
<1>6. base + 1 \in 1..(Len(s) + 1) /\ base + at \in (base + 1)..Len(s)
  BY <1>1, <1>5
<1>7. Ended(s, base + at)
  BY <1>5, MatchInWindow DEF Ended
<1>8. ASSUME NEW r \in (base + 1)..((base + at) - 1), Ended(s, r)
      PROVE  FALSE
  <2> DEFINE p == r - base
  <2>1. p \in 1..Len(b) /\ p < at /\ at \in p..Len(b) /\ base + p = r
    BY <1>1, <1>5
  <2>2. ~(p < From(scan))
    <3> HIDE DEF p
    <3>1. Ended(s, base + p)
      BY <1>8, <2>1
    <3>2. ASSUME p < From(scan) PROVE FALSE
      <4>1. p \in 1..(From(scan) - 1)
        BY <1>1, <1>2, <2>1, <3>2
      <4> QED
        BY <3>1, <4>1 DEF Searched
    <3> QED
      BY <3>2
  <2>3. p \notin Matches(b, scan)
    <3> HIDE DEF p
    <3>1. ASSUME p \in Matches(b, scan) PROVE FALSE
      <4>1. at <= p
        BY <1>4, <3>1
      <4> QED
        BY <1>1, <1>5, <2>1, <4>1
    <3> QED
      BY <3>1
  <2>4. ~(EventEnd(b, p) > 0)
    BY <1>1, <1>2, <1>3, <2>1, <2>2, <2>3
  <2> HIDE DEF p
  <2>5. EventEnd(b, p) = 0
    BY <2>1, <2>4, MatchInWindow
  <2>6. EventEnd(s, base + p) = 0
    BY <1>5, <2>1, <2>5, MatchInWindow
  <2> QED
    BY <1>8, <2>1, <2>6 DEF Ended
<1>9. FirstEnd(s, base + 1) = base + at
  <2>1. \A r \in (base + 1)..((base + at) - 1) : ~Ended(s, r)
    BY <1>8
  <2> DEFINE first == base + 1
             q == base + at
  <2>2. first \in 1..(Len(s) + 1) /\ q \in first..Len(s) /\ Ended(s, q)
        /\ \A r \in first..(q - 1) : ~Ended(s, r)
    BY <1>6, <1>7, <2>1
  <2> HIDE DEF first, q
  <2>3. FirstEnd(s, first) = q
    BY <2>2, FirstEndAt
  <2> QED
    BY <2>3 DEF first, q
<1> QED
  BY <1>5, <1>9

\* A return without an event: nothing found, or a last CR that may be half a CRLF.
Waits(b, scan) ==
  LET found == Matches(b, scan)
      at    == CHOOSE p \in found : \A q \in found : p <= q
  IN  found = {} \/ (at + EventEnd(b, at) > Len(b) /\ b[Len(b)] = "CR")

\* A buffer in which no event has ended yet holds the text's event, or that and three characters
\* of its end.
LEMMA WaitsNearEnd ==
  ASSUME NEW s \in Seq(Char), NEW base, NEW b, Window(s, base, b), NEW scan \in 0..Len(b),
         Searched(s, base, scan), Waits(b, scan), NEW p \in 1..Len(b), Ended(s, base + p),
         \A r \in 1..(p - 1) : ~Ended(s, base + r)
  PROVE  p + 3 > Len(b) /\ \A k \in p..Len(b) : b[k] # "hidden"
<1>1. base \in Nat /\ Len(b) \in Nat /\ base + Len(b) <= Len(s) /\ Len(s) \in Nat
  BY LenProperties DEF Window
<1>2. From(scan) \in Nat \ {0}
  BY <1>1 DEF From, OVERLAP
<1>3. ~(p < From(scan))
  BY <1>1, <1>2 DEF Searched
<1>4. EventEnd(b, p) \in {0, 2, 3, 4}
  BY MatchInWindow
<1>5. CASE EventEnd(b, p) = 0
  <2>1. EventEnd(s, base + p) > 0 /\ EventEnd(s, base + p) \in {0, 2, 3, 4}
    BY MatchInWindow DEF Ended
  <2> QED
    BY <1>1, <1>5, <2>1, MatchInWindow
<1>6. CASE EventEnd(b, p) # 0
  <2> DEFINE found == Matches(b, scan)
             at == CHOOSE q \in found : \A r \in found : q <= r
  <2>1. p \in found
    BY <1>1, <1>2, <1>3, <1>4, <1>6 DEF Matches
  <2>2. at + EventEnd(b, at) > Len(b) /\ b[Len(b)] = "CR"
    BY <2>1 DEF Waits
  <2>3. at \in 1..Len(b) /\ EventEnd(b, at) > 0 /\ FirstEnd(s, base + 1) = base + at
    <3>1. found # {}
      BY <2>1
    <3> QED
      BY <3>1, FoundIsFirst DEF Found, FirstMatch
  <2>4. FirstEnd(s, base + 1) = base + p
    <3>1. base + 1 \in 1..(Len(s) + 1) /\ base + p \in (base + 1)..Len(s)
      BY <1>1
    <3>2. ASSUME NEW r \in (base + 1)..((base + p) - 1), Ended(s, r)
          PROVE  FALSE
      <4>1. r - base \in 1..(p - 1) /\ base + (r - base) = r
        BY <1>1
      <4> QED
        BY <3>2, <4>1
    <3>3. \A r \in (base + 1)..((base + p) - 1) : ~Ended(s, r)
      BY <3>2
    <3> DEFINE first == base + 1
               q == base + p
    <3>4. first \in 1..(Len(s) + 1) /\ q \in first..Len(s) /\ Ended(s, q)
          /\ \A r \in first..(q - 1) : ~Ended(s, r)
      BY <3>1, <3>3
    <3> HIDE DEF first, q
    <3>5. FirstEnd(s, first) = q
      BY <3>4, FirstEndAt
    <3> QED
      BY <3>5 DEF first, q
  <2> HIDE DEF at, found
  <2>5. at = p
    BY <1>1, <2>3, <2>4
  <2>6. p + EventEnd(b, p) = Len(b) + 1
    BY <1>1, <1>4, <2>2, <2>5, MatchInWindow
  <2>7. EventEnd(b, p) = 4 => b[p + 3] = "LF" /\ p + 3 = Len(b)
    BY <1>1, <2>6, MatchInWindow
  <2>8. EventEnd(b, p) \in {2, 3}
    BY <1>4, <1>6, <2>2, <2>7
  <2>9. \A k \in p..(p + EventEnd(b, p) - 1) : b[k] \in {"CR", "LF"}
    BY <2>8, MatchInWindow
  <2> QED
    BY <1>1, <2>6, <2>8, <2>9
<1> QED
  BY <1>5, <1>6

\* An event of the text is at most three bytes under the cap, or over it.
Near(s) == \E p \in Starts(s) : Bytes(Block(s, p)) + 3 > Cap

\* A part of a window is a window.
LEMMA CutWindow ==
  ASSUME NEW s, NEW base, NEW b, Window(s, base, b),
         NEW i \in 1..(Len(b) + 1), NEW j \in (i - 1)..Len(b)
  PROVE  /\ Window(s, base + (i - 1), SubSeq(b, i, j))
         /\ Len(SubSeq(b, i, j)) = (j - i) + 1
<1>1. /\ base \in Nat /\ b \in Seq(Char) /\ Len(b) \in Nat /\ base + Len(b) <= Len(s)
      /\ \A k \in 1..Len(b) : b[k] = s[base + k] /\ b[k] \in Char
  BY ElementOfSeq DEF Window
<1>2. /\ SubSeq(b, i, j) \in Seq(Char)
      /\ Len(SubSeq(b, i, j)) = IF i <= j THEN (j - i) + 1 ELSE 0
      /\ \A k \in 1..((j - i) + 1) : SubSeq(b, i, j)[k] = b[(i + k) - 1]
  <2>1. \A k \in i..j : b[k] \in Char
    BY <1>1
  <2>2. i \in Int /\ j \in Int
    BY <1>1
  <2>3. /\ SubSeq(b, i, j) \in Seq(Char)
        /\ Len(SubSeq(b, i, j)) = IF i <= j THEN j - i + 1 ELSE 0
        /\ \A k \in 1..(j - i + 1) : SubSeq(b, i, j)[k] = b[i + k - 1]
    BY <2>1, <2>2, SubSeqProperties
  <2> QED
    BY <2>2, <2>3
<1>3. Len(SubSeq(b, i, j)) = (j - i) + 1
  BY <1>1, <1>2
<1>4. ASSUME NEW k \in 1..Len(SubSeq(b, i, j))
      PROVE  SubSeq(b, i, j)[k] = s[(base + (i - 1)) + k]
  <2>1. k \in 1..((j - i) + 1) /\ (i + k) - 1 \in 1..Len(b) /\ base + ((i + k) - 1) = (base + (i - 1)) + k
    BY <1>1, <1>3
  <2> QED
    BY <1>1, <1>2, <2>1
<1>5. base + (i - 1) \in Nat /\ (base + (i - 1)) + Len(SubSeq(b, i, j)) <= Len(s)
  BY <1>1, <1>3
<1> QED
  BY <1>2, <1>3, <1>4, <1>5 DEF Window

\* What the event that starts at p weighs.
LEMMA BlockWeighs ==
  ASSUME NEW s \in Seq(Char), NEW p \in 1..(Len(s) + 1)
  PROVE  Bytes(Block(s, p)) = Weight(s, p, FirstEnd(s, p) - 1)
<1>1. Len(s) \in Nat /\ FirstEnd(s, p) \in p..(Len(s) + 1)
  BY LenProperties, FirstEndIs
<1>2. Window(s, 0, s)
  BY <1>1 DEF Window
<1> DEFINE e == FirstEnd(s, p) - 1
<1>3. e \in (p - 1)..Len(s)
  BY <1>1
<1> HIDE DEF e
<1>4. Window(s, 0 + (p - 1), SubSeq(s, p, e)) /\ Len(SubSeq(s, p, e)) = (e - p) + 1
  BY <1>2, <1>3, CutWindow
<1> DEFINE base == p - 1
           b == SubSeq(s, p, e)
<1>5. 0 + (p - 1) = base /\ base + 1 = p /\ base + ((e - p) + 1) = e
  BY <1>1, <1>3
<1>6. Window(s, base, b) /\ Len(b) = (e - p) + 1
  BY <1>4, <1>5
<1> HIDE DEF base, b
<1>7. Bytes(b) = Weight(s, p, e)
  BY <1>5, <1>6, BytesOfWindow
<1> QED
  BY <1>7 DEF b, e, Block

\* A buffer over the cap that waits for more holds an event of the text that is near it.
LEMMA FullIsNear ==
  ASSUME NEW s \in Seq(Char), NEW base, NEW b, Window(s, base, b), NEW scan \in 0..Len(b),
         Searched(s, base, scan), Waits(b, scan), base + 1 \in Starts(s), Bytes(b) > Cap
  PROVE  Near(s)
<1> DEFINE first == base + 1
           e == FirstEnd(s, first)
           last == base + Len(b)
<1>1. base \in Nat /\ Len(b) \in Nat /\ last <= Len(s) /\ Len(s) \in Nat /\ Cap \in Nat
  BY LenProperties, EventStreamAssumption DEF Window
<1>2. first \in 1..(Len(s) + 1)
  BY StartsAre
<1>3. /\ e \in first..(Len(s) + 1)
      /\ e <= Len(s) => Ended(s, e)
      /\ \A r \in first..Len(s) : r < e => ~Ended(s, r)
  <2> HIDE DEF first
  <2> QED
    BY <1>2, FirstEndIs
<1>4. Bytes(Block(s, first)) = Weight(s, first, e - 1)
  BY <1>2, BlockWeighs
<1>5. Bytes(b) = Weight(s, first, last)
  BY BytesOfWindow
<1>6. e \in Nat /\ first \in Nat /\ last \in Nat /\ first <= e /\ first <= last + 1 /\ e <= Len(s) + 1
  <2>1. first \in Nat /\ last \in Nat /\ first <= last + 1
    BY <1>1
  <2>2. e \in first..(Len(s) + 1)
    BY <1>3
  <2> HIDE DEF first, e, last
  <2> QED
    BY <1>1, <2>1, <2>2
<1> HIDE DEF first, e, last
<1>7. Weight(s, first, e - 1) \in Nat /\ Weight(s, first, last) \in Nat
  BY <1>6, WeightType
<1>8. Bytes(Block(s, first)) + 3 > Cap
  <2>1. CASE last < e
    <3>1. Weight(s, first, e - 1) = Weight(s, first, last) + Weight(s, last + 1, e - 1)
      BY <1>6, <2>1, WeightAdds
    <3>2. Weight(s, last + 1, e - 1) \in Nat
      BY <1>6, <2>1, WeightType
    <3> QED
      BY <1>1, <1>4, <1>5, <1>7, <3>1, <3>2
  <2>2. CASE e <= last
    <3> DEFINE p == e - base
    <3>1. p \in 1..Len(b) /\ base + p = e
      BY <1>1, <1>6, <2>2 DEF first, last
    <3>2. Ended(s, base + p) /\ \A r \in 1..(p - 1) : ~Ended(s, base + r)
      <4>1. Ended(s, e)
        BY <1>1, <1>3, <1>6, <2>2
      <4>2. ASSUME NEW r \in 1..(p - 1)
            PROVE  ~Ended(s, base + r)
        <5>1. base + r \in first..Len(s) /\ base + r < e
          BY <1>1, <1>6, <2>2 DEF first, last
        <5> QED
          BY <1>3, <5>1
      <4> QED
        BY <3>1, <4>1, <4>2
    <3> HIDE DEF p
    <3>3. p + 3 > Len(b) /\ \A k \in p..Len(b) : b[k] # "hidden"
      BY <3>1, <3>2, WaitsNearEnd
    <3>4. \A k \in e..last : s[k] # "hidden"
      <4> TAKE k \in e..last
      <4>1. k - base \in p..Len(b) /\ k - base \in 1..Len(b) /\ base + (k - base) = k
        BY <1>1, <1>6, <3>1 DEF last
      <4>2. b[k - base] = s[k]
        BY <4>1 DEF Window
      <4> QED
        BY <3>3, <4>1, <4>2
    <3>5. Weight(s, e, last) = (last - e) + 1 /\ (last - e) + 1 <= 3
      <4>1. Weight(s, e, last) = last - e + 1
        BY <1>6, <2>2, <3>4, WeightPlain
      <4> QED
        BY <1>1, <1>6, <3>1, <3>3, <4>1 DEF last
    <3>6. Weight(s, first, last) = Weight(s, first, e - 1) + Weight(s, e, last)
      <4> DEFINE m == e - 1
      <4>1. m \in Int /\ first <= m + 1 /\ m <= last /\ m + 1 = e
        BY <1>6, <2>2
      <4> HIDE DEF m
      <4>2. Weight(s, first, last) = Weight(s, first, m) + Weight(s, m + 1, last)
        BY <1>6, <4>1, WeightAdds
      <4>3. Weight(s, first, last) = Weight(s, first, m) + Weight(s, e, last)
        BY <4>1, <4>2
      <4> QED
        BY <4>3 DEF m
    <3> QED
      BY <1>1, <1>4, <1>5, <1>6, <1>7, <3>5, <3>6, SMTT(30)
  <2> QED
    BY <1>6, <2>1, <2>2
<1> QED
  BY <1>8 DEF Near, first

\* Cutting a window in two cuts its bytes in two.
LEMMA CutWeighs ==
  ASSUME NEW s \in Seq(Char), NEW base, NEW b, Window(s, base, b), NEW i \in 1..(Len(b) + 1)
  PROVE  LET head == SubSeq(b, 1, i - 1)  tail == SubSeq(b, i, Len(b))
         IN  /\ head \in Seq(Char) /\ Len(head) = i - 1
             /\ Bytes(head) = Weight(s, base + 1, base + (i - 1)) /\ Bytes(head) \in Nat
             /\ tail \in Seq(Char) /\ Len(tail) = (Len(b) + 1) - i
             /\ Window(s, base + (i - 1), tail)
             /\ Bytes(tail) = Bytes(b) - Bytes(head) /\ Bytes(tail) \in Nat
<1> DEFINE head == SubSeq(b, 1, i - 1)
           tail == SubSeq(b, i, Len(b))
           mid == base + (i - 1)
           n == Len(b)
           h == i - 1
<1>1. base \in Nat /\ n \in Nat /\ b \in Seq(Char) /\ mid \in Nat /\ h \in 0..n /\ h = mid - base
  BY DEF Window
<1>2. Window(s, base, head) /\ Len(head) = h
  <2>1. 1 \in 1..(n + 1) /\ h \in (1 - 1)..n
    BY <1>1
  <2> HIDE DEF n, h
  <2>2. Window(s, base + (1 - 1), SubSeq(b, 1, h)) /\ Len(SubSeq(b, 1, h)) = (h - 1) + 1
    BY <2>1, CutWindow DEF n
  <2>3. base + (1 - 1) = base /\ (h - 1) + 1 = h
    BY <1>1
  <2>4. Window(s, base, SubSeq(b, 1, h)) /\ Len(SubSeq(b, 1, h)) = h
    BY <2>2, <2>3
  <2> QED
    BY <2>4 DEF head, h
<1>3. Window(s, mid, tail) /\ Len(tail) = (n + 1) - i
  <2>1. n \in (i - 1)..n
    BY <1>1
  <2> HIDE DEF n
  <2>2. Window(s, base + (i - 1), SubSeq(b, i, n)) /\ Len(SubSeq(b, i, n)) = (n - i) + 1
    BY <2>1, CutWindow DEF n
  <2> QED
    BY <1>1, <2>2 DEF n
<1>4. mid + ((n + 1) - i) = base + n
  BY <1>1
<1> HIDE DEF head, tail, mid, n, h
<1>5. Bytes(head) = Weight(s, base + 1, base + h)
  BY <1>2, BytesOfWindow
<1>6. Bytes(tail) = Weight(s, mid + 1, base + n)
  BY <1>3, <1>4, BytesOfWindow
<1>7. Bytes(b) = Weight(s, base + 1, base + n)
  BY BytesOfWindow DEF n
<1>8. /\ base + 1 \in Nat /\ base + 1 <= mid + 1 /\ mid <= base + n /\ base + n \in Int /\ mid \in Int
      /\ base + h = mid /\ mid + 1 \in Nat /\ mid + 1 <= (base + n) + 1
  BY <1>1
<1>9. /\ Weight(s, base + 1, mid) \in Nat /\ Weight(s, mid + 1, base + n) \in Nat
      /\ Weight(s, base + 1, base + n) = Weight(s, base + 1, mid) + Weight(s, mid + 1, base + n)
  <2> DEFINE a == base + 1
             c == base + n
             m == mid + 1
  <2>1. a \in Nat /\ m \in Nat /\ c \in Int /\ a <= mid + 1 /\ mid <= c /\ m <= c + 1
    BY <1>8
  <2> HIDE DEF a, c, m
  <2>2. Weight(s, a, mid) \in Nat /\ Weight(s, m, c) \in Nat
    BY <1>1, <2>1, WeightType
  <2>3. Weight(s, a, c) = Weight(s, a, mid) + Weight(s, mid + 1, c)
    BY <1>1, <2>1, WeightAdds
  <2> QED
    BY <2>2, <2>3 DEF a, c, m
<1>10. /\ Bytes(head) \in Nat /\ Bytes(tail) \in Nat /\ Bytes(tail) = Bytes(b) - Bytes(head)
  BY <1>5, <1>6, <1>7, <1>8, <1>9
<1>11. head \in Seq(Char) /\ tail \in Seq(Char)
  BY <1>2, <1>3 DEF Window
<1> QED
  BY <1>2, <1>3, <1>5, <1>10, <1>11 DEF head, tail, mid, n, h

\* A chunk that continues the window makes a longer one.
LEMMA MoreWindow ==
  ASSUME NEW s \in Seq(Char), NEW base, NEW b, Window(s, base, b), NEW n \in Nat,
         (base + Len(b)) + n <= Len(s)
  PROVE  LET chunk == SubSeq(s, base + Len(b) + 1, base + Len(b) + n)
         IN  /\ b \o chunk \in Seq(Char) /\ Len(b \o chunk) = Len(b) + n
             /\ Window(s, base, b \o chunk)
             /\ Bytes(b \o chunk) = Bytes(b) + Bytes(chunk)
<1> DEFINE at == base + Len(b)
           chunk == SubSeq(s, at + 1, at + n)
           more == b \o chunk
<1>1. /\ base \in Nat /\ Len(b) \in Nat /\ b \in Seq(Char) /\ at \in Nat /\ at + n <= Len(s) /\ Len(s) \in Nat
      /\ \A k \in 1..Len(b) : b[k] = s[base + k]
  BY LenProperties DEF Window
<1>2. Window(s, 0, s)
  BY <1>1 DEF Window
<1>3. Window(s, at, chunk) /\ Len(chunk) = n
  <2> DEFINE i == at + 1
             j == at + n
  <2>1. i \in 1..(Len(s) + 1) /\ j \in (i - 1)..Len(s) /\ 0 + (i - 1) = at /\ (j - i) + 1 = n
    BY <1>1
  <2> HIDE DEF i, j, at
  <2>2. Window(s, 0 + (i - 1), SubSeq(s, i, j)) /\ Len(SubSeq(s, i, j)) = (j - i) + 1
    BY <1>2, <2>1, CutWindow
  <2>3. Window(s, at, SubSeq(s, i, j)) /\ Len(SubSeq(s, i, j)) = n
    BY <2>1, <2>2
  <2> QED
    BY <2>3 DEF i, j
<1>4. chunk \in Seq(Char) /\ \A k \in 1..n : chunk[k] = s[at + k]
  BY <1>3 DEF Window
<1> HIDE DEF chunk
<1>5. more \in Seq(Char) /\ Len(more) = Len(b) + n
      /\ \A k \in 1..(Len(b) + n) : more[k] = IF k <= Len(b) THEN b[k] ELSE chunk[k - Len(b)]
  BY <1>1, <1>3, <1>4, ConcatProperties
<1>6. \A k \in 1..Len(more) : more[k] = s[base + k]
  <2> TAKE k \in 1..Len(more)
  <2>1. CASE k <= Len(b)
    BY <1>1, <1>5, <2>1
  <2>2. CASE ~(k <= Len(b))
    <3>1. k \in 1..(Len(b) + n)
      BY <1>5
    <3>2. k - Len(b) \in 1..n /\ at + (k - Len(b)) = base + k
      BY <1>1, <2>2, <3>1
    <3>3. more[k] = chunk[k - Len(b)]
      BY <1>5, <2>2, <3>1
    <3> QED
      BY <1>4, <3>2, <3>3
  <2> QED
    BY <2>1, <2>2
<1>7. base + Len(more) <= Len(s)
  BY <1>1, <1>5
<1> HIDE DEF more
<1>8. Window(s, base, more)
  BY <1>1, <1>5, <1>6, <1>7 DEF Window
<1>9. Bytes(more) = Bytes(b) + Bytes(chunk)
  <2> DEFINE a == base + 1
             c == at + n
  <2>1. base + Len(more) = c /\ a \in Nat /\ at \in Int /\ c \in Int /\ a <= at + 1 /\ at <= c /\ at + 1 \in Nat /\ at + 1 <= c + 1
    BY <1>1, <1>5
  <2>2. Bytes(more) = Weight(s, a, c)
    BY <1>8, <2>1, BytesOfWindow
  <2>3. Bytes(b) = Weight(s, a, at)
    BY BytesOfWindow
  <2>4. Bytes(chunk) = Weight(s, at + 1, c)
    BY <1>3, BytesOfWindow
  <2> HIDE DEF a, c, at
  <2>5. Weight(s, a, c) = Weight(s, a, at) + Weight(s, at + 1, c)
    BY <2>1, WeightAdds
  <2> QED
    BY <2>2, <2>3, <2>4, <2>5
<1> QED
  BY <1>5, <1>8, <1>9 DEF more, chunk

\* The buffer holds the text from an event's start to what has arrived, and was searched as far as
\* the scan says.
Placed(s, arr, b, scan) ==
  /\ Len(b) <= arr
  /\ Window(s, arr - Len(b), b)
  /\ (arr - Len(b)) + 1 \in Starts(s)
  /\ scan \in 0..Len(b)
  /\ Searched(s, arr - Len(b), scan)

\* What it is to cut the event off that ends at a position of the buffer: the text's next event ends
\* there, one over the cap is near it in the text too, and the rest starts the event after it.
CutsOff(s, arr, b, at) ==
  LET after == at + EventEnd(b, at)
      head  == SubSeq(b, 1, at - 1)
      tail  == SubSeq(b, after, Len(b))
  IN  /\ at \in 1..Len(b) /\ after \in (at + 2)..(Len(b) + 1)
      /\ FirstEnd(s, (arr - Len(b)) + 1) = (arr - Len(b)) + at
      /\ EventEnd(s, (arr - Len(b)) + at) = EventEnd(b, at)
      /\ head \in Seq(Char) /\ SubSeq(b, at, after - 1) \in Seq(Char)
      /\ Bytes(head) \in Nat /\ (Bytes(head) > Cap => Near(s))
      /\ tail \in Seq(Char) /\ Len(tail) = (Len(b) + 1) - after
      /\ Bytes(tail) = Bytes(b) - Consumed(b, at) /\ Bytes(tail) \in Nat
      /\ Placed(s, arr, tail, 0)

\* Where an event was found, that is what is done.
LEMMA CutKeeps ==
  ASSUME NEW s \in Seq(Char), NEW arr \in Nat, NEW b, NEW scan, Placed(s, arr, b, scan), ~Waits(b, scan),
         NEW at, Found(b, scan, at)
  PROVE  CutsOff(s, arr, b, at)
<1> DEFINE base == arr - Len(b)
           end == EventEnd(b, at)
           after == at + end
           head == SubSeq(b, 1, at - 1)
           tail == SubSeq(b, after, Len(b))
<1>1. /\ base \in Nat /\ Len(b) \in Nat /\ b \in Seq(Char) /\ Len(s) \in Nat /\ arr = base + Len(b)
      /\ Window(s, base, b) /\ scan \in 0..Len(b) /\ Searched(s, base, scan) /\ base + 1 \in Starts(s)
  BY LenProperties DEF Placed, Window
<1>2. Matches(b, scan) # {} /\ ~(after > Len(b) /\ b[Len(b)] = "CR")
  BY DEF Waits, Found, FirstMatch
<1>3. at \in 1..Len(b) /\ end > 0 /\ FirstEnd(s, base + 1) = base + at
  <2> HIDE DEF base
  <2> QED
    BY <1>1, <1>2, FoundIsFirst
<1>4. /\ end \in {0, 2, 3, 4} /\ at + end <= Len(b) + 1
      /\ end > 0 /\ (at + end <= Len(b) \/ b[Len(b)] # "CR") => EventEnd(s, base + at) = end
  <2> HIDE DEF base
  <2> QED
    BY <1>1, <1>3, MatchInWindow
<1> HIDE DEF base, end
<1>5. after \in (at + 2)..(Len(b) + 1) /\ end \in {2, 3, 4} /\ after = at + end
  BY <1>1, <1>3, <1>4
<1> HIDE DEF after, head, tail
<1>20. /\ base \in Nat /\ Len(b) \in Nat /\ at \in Nat /\ after \in Nat
       /\ 1 <= at /\ at <= Len(b) /\ at + 2 <= after /\ after <= Len(b) + 1
  <2>1. Len(b) \in Nat /\ at \in 1..Len(b) /\ after \in (at + 2)..(Len(b) + 1)
    BY <1>1, <1>3, <1>5
  <2> QED
    BY <1>1, <2>1
<1>6. EventEnd(s, base + at) = end
  <2>1. ~(after > Len(b)) => at + end <= Len(b)
    BY <1>1, <1>5
  <2> QED
    BY <1>2, <1>3, <1>4, <2>1
<1>7. /\ head \in Seq(Char) /\ Bytes(head) = Weight(s, base + 1, base + (at - 1)) /\ Bytes(head) \in Nat
  <2>1. at \in 1..(Len(b) + 1) /\ Window(s, base, b)
    BY <1>1, <1>3
  <2>2. /\ SubSeq(b, 1, at - 1) \in Seq(Char)
        /\ Bytes(SubSeq(b, 1, at - 1)) = Weight(s, base + 1, base + (at - 1))
        /\ Bytes(SubSeq(b, 1, at - 1)) \in Nat
    BY <2>1, CutWeighs
  <2> QED
    BY <2>2 DEF head
<1>8. SubSeq(b, at, after - 1) \in Seq(Char)
  <2> DEFINE j == after - 1
  <2>1. at \in 1..(Len(b) + 1) /\ j \in (at - 1)..Len(b)
    BY <1>20
  <2> HIDE DEF j
  <2>2. Window(s, base + (at - 1), SubSeq(b, at, j))
    BY <1>1, <2>1, CutWindow
  <2> QED
    BY <2>2 DEF j, Window
<1>9. Bytes(head) > Cap => Near(s)
  <2> DEFINE first == base + 1
             e == base + at
  <2>1. first \in 1..(Len(s) + 1) /\ first \in Starts(s)
    BY <1>1, StartsAre
  <2>2. FirstEnd(s, first) = e /\ e - 1 = base + (at - 1)
    BY <1>1, <1>3
  <2> HIDE DEF first, e
  <2>3. Bytes(Block(s, first)) = Weight(s, first, e - 1)
    BY <2>1, <2>2, BlockWeighs
  <2>4. Bytes(Block(s, first)) = Bytes(head)
    BY <1>7, <2>2, <2>3 DEF first
  <2>5. Cap \in Nat
    BY EventStreamAssumption
  <2>6. Bytes(head) > Cap => Bytes(Block(s, first)) + 3 > Cap
    BY <1>7, <2>4, <2>5
  <2> QED
    BY <2>1, <2>6 DEF Near
<1>10. /\ tail \in Seq(Char) /\ Len(tail) = (Len(b) + 1) - after
       /\ Window(s, base + (after - 1), tail)
       /\ Bytes(tail) = Bytes(b) - Bytes(SubSeq(b, 1, after - 1)) /\ Bytes(tail) \in Nat
  <2>1. after \in 1..(Len(b) + 1)
    BY <1>1, <1>3, <1>5
  <2> QED
    BY <1>1, <2>1, CutWeighs DEF tail
<1>11. Consumed(b, at) = Bytes(SubSeq(b, 1, after - 1))
  <2>1. (at - 1) + end = after - 1
    BY <1>1, <1>3, <1>5
  <2>2. Consumed(b, at) = Bytes(SubSeq(b, 1, (at - 1) + end))
    BY DEF Consumed, end
  <2> QED
    BY <2>1, <2>2
<1>12. Placed(s, arr, tail, 0)
  <2> DEFINE from == base + (after - 1)
  <2>1. arr - Len(tail) = from /\ Len(tail) <= arr /\ Len(tail) \in Nat /\ from + 1 = (base + at) + end
    <3>1. Len(tail) = (Len(b) + 1) - after /\ after = at + end /\ end \in {2, 3, 4} /\ arr = base + Len(b)
      BY <1>1, <1>5, <1>10
    <3> DEFINE long == Len(b)
               rest == Len(tail)
    <3>2. /\ base \in Nat /\ long \in Nat /\ at \in Nat /\ after \in Nat /\ at + 2 <= after /\ after <= long + 1
          /\ rest = (long + 1) - after /\ after = at + end /\ end \in Nat /\ arr = base + long /\ 1 <= at
      BY <1>20, <3>1
    <3> HIDE DEF long, rest
    <3>3. rest \in Nat /\ rest <= long
      BY <3>2
    <3>4. arr - rest = base + (after - 1)
      BY <3>2
    <3>5. (base + (after - 1)) + 1 = (base + at) + end
      <4> DEFINE u == base + (after - 1)
                 v == base + at
      <4>1. u \in Int /\ u + 1 = base + after /\ base \in Int /\ after \in Int
        BY <3>2
      <4>2. v \in Int /\ v + end = base + after
        BY <3>2
      <4> HIDE DEF u, v
      <4>3. u + 1 = v + end
        BY <4>1, <4>2
      <4> QED
        BY <4>3 DEF u, v
    <3>6. rest \in Nat /\ rest <= arr
      <4>1. base \in Nat /\ long \in Nat /\ arr = base + long
        BY <3>2
      <4> QED
        BY <3>3, <4>1
    <3> QED
      BY <3>4, <3>5, <3>6 DEF rest
  <2>2. (base + at) + end \in Starts(s)
    <3> DEFINE first == base + 1
               e == base + at
    <3>1. FirstEnd(s, first) = e /\ ~(e > Len(s)) /\ EventEnd(s, e) = end
      <4>1. base + Len(b) <= Len(s)
        BY <1>1 DEF Window
      <4> QED
        BY <1>1, <1>3, <1>6, <4>1
    <3>2. first \in Starts(s)
      BY <1>1
    <3> HIDE DEF first, e
    <3>3. Follows(s, first) = e + end
      BY <3>1 DEF Follows
    <3>4. Follows(s, first) \in Starts(s)
      BY <3>2, StartsAre
    <3> QED
      BY <3>3, <3>4 DEF e
  <2>3. From(0) = 1
    BY DEF From, OVERLAP
  <2> HIDE DEF from
  <2>4. Searched(s, from, 0)
    BY <2>3 DEF Searched
  <2>5. Window(s, from, tail)
    BY <1>10 DEF from
  <2> QED
    BY <2>1, <2>2, <2>4, <2>5 DEF Placed
<1> QED
  BY <1>3, <1>5, <1>6, <1>7, <1>8, <1>9, <1>10, <1>11, <1>12 DEF CutsOff, base, end, after, head, tail

\* Where none was, the whole buffer has been searched; over the cap, an event of the text is near it.
LEMMA WaitKeeps ==
  ASSUME NEW s \in Seq(Char), NEW arr \in Nat, NEW b, NEW scan, Placed(s, arr, b, scan), Waits(b, scan)
  PROVE  Placed(s, arr, b, Len(b)) /\ (Bytes(b) > Cap => Near(s))
<1> DEFINE base == arr - Len(b)
<1>1. /\ base \in Nat /\ Len(b) \in Nat /\ Len(s) \in Nat
      /\ Window(s, base, b) /\ scan \in 0..Len(b) /\ Searched(s, base, scan) /\ base + 1 \in Starts(s)
  BY LenProperties DEF Placed, Window
<1> HIDE DEF base
<1>2. Bytes(b) > Cap => Near(s)
  BY <1>1, FullIsNear
<1>3. Searched(s, base, Len(b))
  <2> DEFINE S == {p \in 1..(From(Len(b)) - 1) : Ended(s, base + p)}
  <2>1. ASSUME S # {} PROVE FALSE
    <3>1. S \in SUBSET Nat
      BY <1>1 DEF From, OVERLAP
    <3>2. PICK p \in S : \A q \in S : p <= q
      <4> HIDE DEF S
      <4> QED
        BY <2>1, <3>1, LeastExists
    <3>3. p \in 1..(From(Len(b)) - 1) /\ Ended(s, base + p)
      BY <3>2
    <3>4. p \in 1..Len(b) /\ p + 3 <= Len(b) /\ From(Len(b)) \in Nat
      BY <1>1, <3>3 DEF From, OVERLAP
    <3>5. ASSUME NEW r \in 1..(p - 1), Ended(s, base + r)
          PROVE  FALSE
      <4>1. r \in S /\ ~(p <= r)
        BY <3>3, <3>4, <3>5
      <4> HIDE DEF S
      <4> QED
        BY <3>2, <4>1
    <3>6. \A r \in 1..(p - 1) : ~Ended(s, base + r)
      BY <3>5
    <3>7. p + 3 > Len(b)
      <4> HIDE DEF S
      <4> QED
        BY <1>1, <3>3, <3>4, <3>6, WaitsNearEnd
    <3> QED
      BY <1>1, <3>4, <3>7
  <2> QED
    BY <2>1 DEF Searched
<1> QED
  BY <1>1, <1>2, <1>3 DEF Placed, base

\* A window is a stretch of the text.
LEMMA WindowIs ==
  ASSUME NEW s \in Seq(Char), NEW base, NEW b, Window(s, base, b)
  PROVE  b = SubSeq(s, base + 1, base + Len(b))
<1> DEFINE t == SubSeq(s, base + 1, base + Len(b))
<1>1. /\ base \in Nat /\ b \in Seq(Char) /\ Len(b) \in Nat /\ base + Len(b) <= Len(s) /\ Len(s) \in Nat
      /\ \A k \in 1..Len(b) : b[k] = s[base + k]
  BY LenProperties DEF Window
<1>2. Window(s, 0, s)
  BY <1>1 DEF Window
<1> DEFINE i == base + 1
           j == base + Len(b)
<1>3. i \in 1..(Len(s) + 1) /\ j \in (i - 1)..Len(s) /\ (j - i) + 1 = Len(b) /\ 0 + (i - 1) = base
  BY <1>1
<1> HIDE DEF i, j
<1>4. Window(s, 0 + (i - 1), SubSeq(s, i, j)) /\ Len(SubSeq(s, i, j)) = (j - i) + 1
  BY <1>2, <1>3, CutWindow
<1>5. Window(s, base, t) /\ Len(t) = Len(b)
  BY <1>3, <1>4 DEF i, j
<1> HIDE DEF t
<1>6. t \in Seq(Char) /\ \A k \in 1..Len(b) : t[k] = b[k]
  BY <1>1, <1>5 DEF Window
<1> QED
  BY <1>1, <1>5, <1>6, SeqEqual DEF t

\* What is cut off passes the filter.
LEMMA CutPasses ==
  ASSUME NEW s \in Seq(Char), NEW arr \in Nat, NEW b, NEW scan, Placed(s, arr, b, scan), ~Waits(b, scan),
         NEW at, Found(b, scan, at), NEW blocks \in Blocks, Parted(s, arr - Len(b), blocks)
  PROVE  LET after == at + EventEnd(b, at)
             block == [block |-> SubSeq(b, 1, at - 1), end |-> SubSeq(b, at, after - 1)]
             tail  == SubSeq(b, after, Len(b))
         IN  Parted(s, arr - Len(tail), Append(blocks, block))
<1> DEFINE base == arr - Len(b)
           end == EventEnd(b, at)
           after == at + end
           head == SubSeq(b, 1, at - 1)
           stop == SubSeq(b, at, after - 1)
           tail == SubSeq(b, after, Len(b))
           f == base + at
<1>1. /\ at \in 1..Len(b) /\ after \in (at + 2)..(Len(b) + 1)
      /\ FirstEnd(s, base + 1) = f /\ EventEnd(s, f) = end
      /\ Len(tail) = (Len(b) + 1) - after
  BY CutKeeps DEF CutsOff
<1>2. base \in Nat /\ Len(b) \in Nat /\ Len(s) \in Nat /\ arr = base + Len(b) /\ Window(s, base, b) /\ base + Len(b) <= Len(s)
  BY LenProperties DEF Placed, Window
<1> HIDE DEF tail
<1>3. head = SubSeq(s, base + 1, f - 1)
  <2> DEFINE h == at - 1
  <2>1. 1 \in 1..(Len(b) + 1) /\ h \in (1 - 1)..Len(b) /\ base + (1 - 1) = base /\ (h - 1) + 1 = h
    BY <1>1, <1>2
  <2> HIDE DEF h, base
  <2>2. Window(s, base + (1 - 1), SubSeq(b, 1, h)) /\ Len(SubSeq(b, 1, h)) = (h - 1) + 1
    BY <1>2, <2>1, CutWindow
  <2>3. SubSeq(b, 1, h) = SubSeq(s, base + 1, base + h)
    BY <2>1, <2>2, WindowIs
  <2>4. base + h = f - 1
    BY <1>1, <1>2 DEF h
  <2> QED
    BY <2>3, <2>4 DEF h
<1>4. stop = SubSeq(s, f, (f + end) - 1)
  <2> DEFINE j == after - 1
             low == base + (at - 1)
  <2>1. at \in 1..(Len(b) + 1) /\ j \in (at - 1)..Len(b)
    BY <1>1, <1>2
  <2>2. low + 1 = f /\ low + ((j - at) + 1) = (f + end) - 1
    <3>1. after = at + end /\ end \in Int
      <4>1. end = after - at
        <5>1. end \in {0, 2, 3, 4}
          <6> HIDE DEF base
          <6> QED
            BY <1>1, <1>2, MatchInWindow
        <5> HIDE DEF end
        <5> QED
          BY <1>1, <5>1
      <4> HIDE DEF end, after
      <4> QED
        BY <1>1, <4>1
    <3>2. base \in Nat /\ at \in Nat /\ j = after - 1 /\ low = base + (at - 1) /\ f = base + at
      BY <1>1, <1>2
    <3> HIDE DEF end, after, base, j, low, f
    <3>6. /\ end \in Int /\ base \in Int /\ at \in Int /\ j \in Int
          /\ j = (at + end) - 1
      BY <3>1, <3>2
    <3>3. low + 1 = f
      BY <3>2
    <3>4. (j - at) + 1 = end
      BY <3>6
    <3>7. low \in Int /\ f \in Int /\ low = f - 1
      BY <3>2
    <3>5. low + end = (f + end) - 1
      BY <3>6, <3>7
    <3> QED
      BY <3>3, <3>4, <3>5
  <2> HIDE DEF j, base, after, low
  <2>3. Window(s, low, SubSeq(b, at, j)) /\ Len(SubSeq(b, at, j)) = (j - at) + 1
    BY <1>2, <2>1, CutWindow DEF low
  <2>4. SubSeq(b, at, j) = SubSeq(s, low + 1, low + ((j - at) + 1))
    BY <2>3, WindowIs
  <2>5. SubSeq(b, at, j) = SubSeq(s, f, (f + end) - 1)
    BY <2>2, <2>4
  <2> QED
    BY <2>5 DEF j
<1>5. /\ base \in 0..Len(s) /\ f \in (base + 1)..Len(s) /\ Ended(s, f) /\ \A j \in (base + 1)..(f - 1) : ~Ended(s, j)
  <2> DEFINE first == base + 1
  <2>1. first \in 1..(Len(s) + 1) /\ base \in 0..Len(s) /\ f \in first..Len(s)
    BY <1>1, <1>2
  <2>2. FirstEnd(s, first) = f
    BY <1>1
  <2> HIDE DEF first, f
  <2>3. /\ FirstEnd(s, first) <= Len(s) => Ended(s, FirstEnd(s, first))
        /\ \A r \in first..Len(s) : r < FirstEnd(s, first) => ~Ended(s, r)
    BY <2>1, FirstEndIs
  <2>4. Ended(s, f)
    BY <1>2, <2>1, <2>2, <2>3
  <2>5. ASSUME NEW j \in first..(f - 1)
        PROVE  ~Ended(s, j)
    <3>1. j \in first..Len(s) /\ j < f
      BY <1>2, <2>1
    <3> QED
      BY <2>2, <2>3, <3>1
  <2> QED
    BY <2>1, <2>4, <2>5 DEF first
<1>6. arr - Len(tail) = (f + end) - 1
  <2> HIDE DEF base
  <2>1. after = at + end /\ end \in {0, 2, 3, 4}
    BY <1>1, <1>2, MatchInWindow
  <2> DEFINE long == Len(b)
             left == Len(tail)
  <2>2. long \in Int /\ base \in Int /\ at \in Int /\ end \in Int /\ arr = base + long
    BY <1>1, <1>2, <2>1
  <2>3. left = (long + 1) - after
    BY <1>1
  <2> HIDE DEF end, after, long, left
  <2>4. left = ((long + 1) - at) - end
    BY <2>1, <2>2, <2>3
  <2>5. arr - left = ((base + at) + end) - 1
    BY <2>2, <2>4
  <2> QED
    BY <2>5 DEF left
<1> HIDE DEF base, f, end, head, stop
<1>7. LET z == f + EventEnd(s, f)
          block == [block |-> SubSeq(s, base + 1, f - 1), end |-> SubSeq(s, f, z - 1)]
      IN  Parted(s, z - 1, Append(blocks, block))
  BY <1>5, EventPasses DEF base
<1>8. Parted(s, arr - Len(tail), Append(blocks, [block |-> head, end |-> stop]))
  BY <1>1, <1>3, <1>4, <1>6, <1>7
<1> QED
  BY <1>8 DEF head, stop, tail, end

\* No event ends in a buffer, unless its last CR may be half a line's end.
Quiet(b) == b # <<>> /\ b[Len(b)] # "CR" => \A p \in 1..Len(b) : ~Ended(b, p)

\* That is what a search that found nothing leaves behind (proxy.ts:950-957).
LEMMA WaitQuiet ==
  ASSUME NEW s \in Seq(Char), NEW arr \in Nat, NEW b, NEW scan, Placed(s, arr, b, scan), Waits(b, scan)
  PROVE  Quiet(b)
<1> DEFINE base == arr - Len(b)
<1>1. Window(s, base, b) /\ Len(b) \in Nat /\ scan \in 0..Len(b) /\ Searched(s, base, scan)
  BY DEF Placed, Window
<1> HIDE DEF base
<1>2. ASSUME b[Len(b)] # "CR", NEW p \in 1..Len(b), Ended(b, p)
      PROVE  FALSE
  <2>1. Ended(s, base + p)
    BY <1>1, <1>2, MatchInWindow DEF Ended
  <2>2. From(scan) \in Nat /\ p \in Nat
    BY <1>1 DEF From, OVERLAP
  <2>3. ~(p \in 1..(From(scan) - 1))
    BY <1>1, <2>1 DEF Searched
  <2>4. p \in Matches(b, scan)
    <3>1. p \in From(scan)..Len(b)
      BY <1>1, <2>2, <2>3
    <3> QED
      BY <1>2, <3>1 DEF Matches, Ended
  <2> QED
    BY <1>2, <2>4 DEF Waits
<1> QED
  BY <1>2 DEF Quiet

-----------------------------------------------------------------------------
(* The loop, turn by turn.                                                 *)

\* drain takes its turns one after the other (proxy.ts:945-969).
LEMMA DrainTurns ==
  ASSUME NEW d, Len(d.buffered) \in Nat
  PROVE  \E f : /\ f[0] = d
                /\ \A n \in 1..(Len(d.buffered) + 1) : f[n] = Turn(f[n - 1])
                /\ drain(d) = f[Len(d.buffered) + 1]
<1> DEFINE Run(g, m) == g = [n \in 0..m |-> IF n = 0 THEN d ELSE Turn(g[n - 1])]
           S == {m \in Nat : ~\E g : Run(g, m)}
           N == Len(d.buffered) + 1
<1>1. S = {}
  <2> SUFFICES ASSUME S # {} PROVE FALSE
    OBVIOUS
  <2>1. PICK m \in S : \A j \in S : m <= j
    <3> S \in SUBSET Nat
      OBVIOUS
    <3> HIDE DEF S
    <3> QED
      BY LeastExists
  <2>2. m \in Nat /\ ~\E g : Run(g, m)
    OBVIOUS
  <2>3. m # 0
    <3> DEFINE g == [n \in 0..0 |-> d]
    <3>1. Run(g, 0)
      OBVIOUS
    <3> QED
      BY <2>2, <3>1
  <2>4. m - 1 \in Nat /\ m - 1 \notin S
    <3>1. m - 1 \in Nat /\ ~(m <= m - 1)
      BY <2>2, <2>3
    <3> HIDE DEF S
    <3> QED
      BY <2>1, <3>1
  <2>5. PICK g : Run(g, m - 1)
    BY <2>4
  <2> DEFINE h == [n \in 0..m |-> IF n = m THEN Turn(g[m - 1]) ELSE g[n]]
  <2>6. Run(h, m)
    <3>1. \A n \in 0..m : h[n] = IF n = 0 THEN d ELSE Turn(h[n - 1])
      <4> TAKE n \in 0..m
      <4>1. CASE n = 0
        <5>1. h[n] = g[0]
          BY <2>2, <2>3, <4>1
        <5> QED
          BY <2>2, <2>3, <2>4, <2>5, <4>1, <5>1
      <4>2. CASE n = m
        <5>1. h[n] = Turn(g[m - 1]) /\ h[m - 1] = g[m - 1]
          BY <2>2, <2>4, <4>2
        <5> QED
          BY <2>3, <4>2, <5>1
      <4>3. CASE n # 0 /\ n # m
        <5>1. n \in 0..(m - 1) /\ n - 1 \in 0..m /\ n - 1 # m
          BY <2>2, <4>3
        <5>2. h[n] = g[n] /\ h[n - 1] = g[n - 1]
          BY <4>3, <5>1
        <5>3. g[n] = Turn(g[n - 1])
          BY <2>5, <4>3, <5>1
        <5> QED
          BY <4>3, <5>2, <5>3
      <4> QED
        BY <4>1, <4>2, <4>3
    <3>2. h = [n \in 0..m |-> h[n]]
      OBVIOUS
    <3> HIDE DEF h
    <3> QED
      BY <3>1, <3>2
  <2> QED
    BY <2>2, <2>6
<1>2. \E g : Run(g, N)
  <2> N \in Nat
    OBVIOUS
  <2> HIDE DEF Run, N
  <2> QED
    BY <1>1
<1> DEFINE f == CHOOSE g : Run(g, N)
<1>3. Run(f, N)
  <2> HIDE DEF Run, N
  <2> QED
    BY <1>2
<1>4. drain(d) = f[N]
  BY DEF drain
<1>5. f[0] = d /\ \A n \in 1..N : f[n] = Turn(f[n - 1])
  <2> HIDE DEF f
  <2> QED
    BY <1>3
<1> QED
  BY <1>4, <1>5

\* The loop's own variables, as they stand between two turns.
Loop(s, arr, d) ==
  /\ d \in [buffered : Seq(Char), bytes : Nat, scanned : Nat, out : Blocks, is : {"draining", "open", "refused"}]
  /\ d.bytes = Bytes(d.buffered)
  /\ Placed(s, arr, d.buffered, d.scanned)
  /\ Parted(s, arr - Len(d.buffered), d.out)
  /\ \A k \in DOMAIN d.out : Bytes(d.out[k].block) <= Cap
  /\ d.is = "open" => d.bytes <= Cap /\ Quiet(d.buffered)
  /\ d.is = "refused" => Near(s)

\* One turn keeps that, and a turn after which the loop goes on has cut the buffer.
LEMMA TurnKeeps ==
  ASSUME NEW s \in Seq(Char), NEW arr \in Nat, NEW d, Loop(s, arr, d)
  PROVE  /\ Loop(s, arr, Turn(d))
         /\ Turn(d).is = "draining" => d.is = "draining" /\ Len(Turn(d).buffered) < Len(d.buffered)
<1> DEFINE b == d.buffered
           scan == d.scanned
           at == FirstMatch(b, scan)
           after == at + EventEnd(b, at)
           head == SubSeq(b, 1, at - 1)
           tail == SubSeq(b, after, Len(b))
           block == [block |-> head, end |-> SubSeq(b, at, after - 1)]
           waited == [d EXCEPT !.scanned = Len(b), !.is = IF d.bytes <= Cap THEN "open" ELSE "refused"]
           refused == [d EXCEPT !.is = "refused"]
           cut == [buffered |-> tail, bytes |-> d.bytes - Consumed(b, at), scanned |-> 0,
                   out |-> Append(d.out, block), is |-> "draining"]
<1>1. /\ d \in [buffered : Seq(Char), bytes : Nat, scanned : Nat, out : Blocks, is : {"draining", "open", "refused"}]
      /\ d.bytes = Bytes(b) /\ Placed(s, arr, b, scan) /\ Parted(s, arr - Len(b), d.out)
      /\ \A k \in DOMAIN d.out : Bytes(d.out[k].block) <= Cap
      /\ d.is = "refused" => Near(s)
  BY DEF Loop
<1>2. b \in Seq(Char) /\ Len(b) \in Nat /\ d.bytes \in Nat /\ Cap \in Nat /\ d.out \in Blocks
  BY <1>1, LenProperties, EventStreamAssumption
<1>3. Turn(d) = IF d.is # "draining" THEN d
                ELSE IF Waits(b, scan) THEN waited
                ELSE IF Bytes(head) > Cap THEN refused
                ELSE cut
  BY DEF Turn, Waits, FirstMatch
<1>4. CASE d.is # "draining"
  BY <1>3, <1>4
<1>5. CASE d.is = "draining" /\ Waits(b, scan)
  <2>1. Turn(d) = waited
    BY <1>3, <1>5
  <2>2. Placed(s, arr, b, Len(b)) /\ (Bytes(b) > Cap => Near(s))
    <3> HIDE DEF b, scan
    <3> QED
      BY <1>1, <1>5, WaitKeeps
  <2>5. Quiet(b)
    <3> HIDE DEF b, scan
    <3> QED
      BY <1>1, <1>5, WaitQuiet
  <2>3. /\ waited \in [buffered : Seq(Char), bytes : Nat, scanned : Nat, out : Blocks, is : {"draining", "open", "refused"}]
        /\ waited.buffered = b /\ waited.bytes = d.bytes /\ waited.scanned = Len(b) /\ waited.out = d.out
        /\ waited.is = IF d.bytes <= Cap THEN "open" ELSE "refused"
    BY <1>1, <1>2
  <2> HIDE DEF b, scan, waited
  <2>4. Loop(s, arr, waited)
    BY <1>1, <1>2, <2>2, <2>3, <2>5 DEF Loop
  <2> QED
    BY <2>1, <2>3, <2>4
<1>6. CASE d.is = "draining" /\ ~Waits(b, scan)
  <2>1. /\ at \in 1..Len(b) /\ after \in (at + 2)..(Len(b) + 1)
        /\ head \in Seq(Char) /\ SubSeq(b, at, after - 1) \in Seq(Char)
        /\ Bytes(head) \in Nat /\ (Bytes(head) > Cap => Near(s))
        /\ tail \in Seq(Char) /\ Len(tail) = (Len(b) + 1) - after
        /\ Bytes(tail) = Bytes(b) - Consumed(b, at) /\ Bytes(tail) \in Nat
        /\ Placed(s, arr, tail, 0)
    <3> HIDE DEF b, scan, at, cut, refused, waited, block
    <3>1. Found(b, scan, at) /\ Placed(s, arr, b, scan) /\ ~Waits(b, scan)
      BY <1>1, <1>6 DEF at, Found
    <3>2. CutsOff(s, arr, b, at)
      BY <3>1, CutKeeps
    <3> QED
      BY <3>2 DEF CutsOff, after, head, tail
  <2>2. CASE Bytes(head) > Cap
    <3>1. Turn(d) = refused
      BY <1>3, <1>6, <2>2
    <3>2. /\ refused \in [buffered : Seq(Char), bytes : Nat, scanned : Nat, out : Blocks, is : {"draining", "open", "refused"}]
          /\ refused.buffered = b /\ refused.bytes = d.bytes /\ refused.scanned = scan /\ refused.out = d.out
          /\ refused.is = "refused"
      BY <1>1
    <3>3. Near(s)
      BY <2>1, <2>2
    <3> HIDE DEF b, scan, refused
    <3>4. Loop(s, arr, refused)
      BY <1>1, <3>2, <3>3 DEF Loop
    <3> QED
      BY <3>1, <3>2, <3>4
  <2>3. CASE ~(Bytes(head) > Cap)
    <3>1. Turn(d) = cut
      BY <1>3, <1>6, <2>3
    <3>2. block \in [block : Seq(Char), end : Seq(Char)] /\ block.block = head
      BY <2>1
    <3>3. /\ cut.buffered = tail /\ cut.bytes = d.bytes - Consumed(b, at) /\ cut.scanned = 0
          /\ cut.out = Append(d.out, block) /\ cut.is = "draining"
      OBVIOUS
    <3> HIDE DEF block
    <3>4. /\ Append(d.out, block) \in Blocks
          /\ \A k \in DOMAIN Append(d.out, block) : Bytes(Append(d.out, block)[k].block) <= Cap
      <4>1. d.out \in Seq([block : Seq(Char), end : Seq(Char)])
        BY <1>2 DEF Blocks
      <4>2. /\ Append(d.out, block) \in Blocks
            /\ Len(d.out) \in Nat
            /\ Len(Append(d.out, block)) = Len(d.out) + 1
            /\ \A k \in 1..Len(d.out) : Append(d.out, block)[k] = d.out[k]
            /\ Append(d.out, block)[Len(d.out) + 1] = block
        BY <3>2, <4>1, AppendProperties, LenProperties DEF Blocks
      <4>3. DOMAIN Append(d.out, block) = 1..(Len(d.out) + 1) /\ DOMAIN d.out = 1..Len(d.out)
        BY <4>1, <4>2, LenProperties DEF Blocks
      <4>4. Bytes(block.block) <= Cap
        <5>1. Bytes(head) <= Cap
          BY <1>2, <2>1, <2>3
        <5> QED
          BY <3>2, <5>1
      <4>5. ASSUME NEW k \in 1..(Len(d.out) + 1)
            PROVE  Bytes(Append(d.out, block)[k].block) <= Cap
        <5>1. CASE k = Len(d.out) + 1
          BY <4>2, <4>4, <5>1
        <5>2. CASE k # Len(d.out) + 1
          <6>1. k \in DOMAIN d.out
            BY <4>2, <4>3, <5>2
          <6> QED
            BY <1>1, <4>2, <4>3, <6>1
        <5> QED
          BY <5>1, <5>2
      <4> QED
        BY <4>2, <4>3, <4>5
    <3>5. cut.bytes = Bytes(tail) /\ cut.bytes \in Nat
      BY <1>1, <2>1
    <3>9. Parted(s, arr - Len(tail), Append(d.out, block))
      <4>1. Found(b, scan, at) /\ Placed(s, arr, b, scan) /\ ~Waits(b, scan)
        BY <1>1, <1>6 DEF at, Found
      <4>2. d.out \in Blocks /\ Parted(s, arr - Len(b), d.out)
        BY <1>1, <1>2
      <4> HIDE DEF b, scan, at, after, head, tail, cut, refused, waited
      <4>3. LET a == at + EventEnd(b, at)
                k == [block |-> SubSeq(b, 1, at - 1), end |-> SubSeq(b, at, a - 1)]
                t == SubSeq(b, a, Len(b))
            IN  Parted(s, arr - Len(t), Append(d.out, k))
        BY <4>1, <4>2, CutPasses
      <4> QED
        BY <4>3 DEF block, head, tail, after
    <3>6. cut \in [buffered : Seq(Char), bytes : Nat, scanned : Nat, out : Blocks, is : {"draining", "open", "refused"}]
      BY <2>1, <3>4, <3>5
    <3> HIDE DEF b, scan, at, after, head, tail, cut
    <3>7. Loop(s, arr, cut)
      BY <2>1, <3>3, <3>4, <3>5, <3>6, <3>9 DEF Loop
    <3>8. Len(tail) < Len(b)
      BY <1>2, <2>1
    <3> QED
      BY <1>6, <3>1, <3>3, <3>7, <3>8 DEF b
  <2> QED
    BY <2>2, <2>3
<1> QED
  BY <1>4, <1>5, <1>6

\* Where the loop ends it has returned, with what it kept.
LEMMA DrainKeeps ==
  ASSUME NEW s \in Seq(Char), NEW arr \in Nat, NEW d, Loop(s, arr, d)
  PROVE  Loop(s, arr, drain(d)) /\ drain(d).is \in {"open", "refused"}
<1>1. d.buffered \in Seq(Char)
  BY DEF Loop
<1> DEFINE N == Len(d.buffered)
<1>2. N \in Nat
  BY <1>1, LenProperties
<1>3. PICK f : /\ f[0] = d
               /\ \A n \in 1..(Len(d.buffered) + 1) : f[n] = Turn(f[n - 1])
               /\ drain(d) = f[Len(d.buffered) + 1]
  BY <1>2, DrainTurns
<1> DEFINE Kept(n) == /\ Loop(s, arr, f[n])
                      /\ f[n].is = "draining" => Len(f[n].buffered) + n <= N
           S == {n \in 0..(N + 1) : ~Kept(n)}
<1>4. S = {}
  <2> SUFFICES ASSUME S # {} PROVE FALSE
    OBVIOUS
  <2>1. PICK n \in S : \A m \in S : n <= m
    <3> S \in SUBSET Nat
      BY <1>2
    <3> HIDE DEF S
    <3> QED
      BY LeastExists
  <2>2. n \in 0..(N + 1) /\ ~Kept(n)
    OBVIOUS
  <2>3. Kept(0)
    BY <1>2, <1>3
  <2>4. n # 0
    <3> HIDE DEF Kept
    <3> QED
      BY <2>2, <2>3
  <2> DEFINE m == n - 1
  <2>5. m \in 0..(N + 1) /\ n \in 1..(N + 1) /\ ~(n <= m) /\ n = m + 1 /\ m \in Nat
    BY <1>2, <2>2, <2>4
  <2>6. Kept(m)
    <3> HIDE DEF Kept, m
    <3>1. m \notin S
      <4> HIDE DEF S
      <4> QED
        BY <2>1, <2>5
    <3> QED
      BY <2>5, <3>1
  <2>7. f[n] = Turn(f[m])
    BY <1>3, <2>5
  <2> HIDE DEF m, N, S
  <2>8. /\ Loop(s, arr, f[n])
        /\ f[n].is = "draining" => f[m].is = "draining" /\ Len(f[n].buffered) < Len(f[m].buffered)
    BY <2>6, <2>7, TurnKeeps
  <2>9. ASSUME f[n].is = "draining"
        PROVE  Len(f[n].buffered) + n <= N
    <3>1. Len(f[m].buffered) + m <= N /\ Len(f[n].buffered) < Len(f[m].buffered)
      BY <2>6, <2>8, <2>9
    <3>2. Len(f[n].buffered) \in Nat /\ Len(f[m].buffered) \in Nat
      <4>1. f[n].buffered \in Seq(Char) /\ f[m].buffered \in Seq(Char)
        BY <2>6, <2>8 DEF Loop
      <4> QED
        BY <4>1, LenProperties
    <3> DEFINE long == Len(f[m].buffered)
               short == Len(f[n].buffered)
    <3>3. long \in Nat /\ short \in Nat /\ long + m <= N /\ short < long
      BY <3>1, <3>2
    <3> HIDE DEF long, short
    <3>4. short + n <= N
      BY <1>2, <2>5, <3>3
    <3> QED
      BY <3>4 DEF short
  <2> QED
    BY <2>2, <2>8, <2>9
<1>5. Kept(N + 1)
  <2>1. N + 1 \in 0..(N + 1)
    BY <1>2
  <2> HIDE DEF Kept, N
  <2> QED
    BY <1>4, <2>1
<1>6. drain(d) = f[N + 1] /\ Loop(s, arr, f[N + 1])
  BY <1>3, <1>5
<1>7. f[N + 1].is # "draining"
  <2> SUFFICES ASSUME f[N + 1].is = "draining" PROVE FALSE
    OBVIOUS
  <2>1. Len(f[N + 1].buffered) + (N + 1) <= N
    BY <1>5
  <2>2. f[N + 1].buffered \in Seq(Char)
    BY <1>6 DEF Loop
  <2>3. Len(f[N + 1].buffered) \in Nat
    BY <2>2, LenProperties
  <2> DEFINE left == Len(f[N + 1].buffered)
  <2>4. left \in Nat /\ left + (N + 1) <= N
    BY <2>1, <2>3
  <2> HIDE DEF N, left
  <2> QED
    BY <1>2, <2>4
<1> HIDE DEF N
<1>8. f[N + 1].is \in {"draining", "open", "refused"}
  BY <1>6 DEF Loop
<1> QED
  BY <1>6, <1>7, <1>8

-----------------------------------------------------------------------------
(* The stream.                                                             *)

\* Nothing enqueued is no text, and leaves the filter and the parser at the start.
LEMMA NothingWritten ==
  ASSUME NEW s \in Seq(Char)
  PROVE  Written(<<>>) = <<>> /\ Parser \in State /\ Parted(s, 0, <<>>)
<1>1. Parser \in State
  BY EmptySeq DEF Parser, State, Event
<1>2. Written(<<>>) = <<>>
  <2> DEFINE Is(g) == g = [n \in 0..0 |-> IF n = 0 THEN <<>> ELSE g[n - 1] \o filterEvent(<<>>[n].block) \o <<>>[n].end]
             w == CHOOSE g : Is(g)
             g0 == [n \in 0..0 |-> <<>>]
  <2>1. Written(<<>>) = w[0]
    BY EmptySeq DEF Written
  <2>2. Is(g0)
    OBVIOUS
  <2>3. Is(w)
    <3> HIDE DEF Is, g0
    <3> QED
      BY <2>2
  <2>4. w[0] = <<>>
    <3> HIDE DEF w
    <3> QED
      BY <2>3
  <2> QED
    BY <2>1, <2>4
<1>3. Read(Parser, s, 1, 0) = Parser
  BY <1>1, LenProperties, ReadNext
<1>4. After(Parser, <<>>) = Parser
  BY <1>1, AfterFew
<1>5. Parser.line = <<>> /\ Parser.event = <<>> /\ Parser.events = <<>> /\ Parser.afterCR = FALSE
  BY DEF Parser
<1>6. Fresh(Parser, s, 0 + 1)
  BY <1>1, <1>5 DEF Fresh
<1>7. Cleaned(<<>>) = <<>>
  BY EmptySeq DEF Cleaned
<1> QED
  BY <1>1, <1>2, <1>3, <1>4, <1>5, <1>6, <1>7 DEF Parted

\* While the stream is open, and where what is left of a quiet buffer is passed on as it stands, the client
\* dispatched what the upstream ended.
LEMMA QuietKept ==
  ASSUME NEW s \in Seq(Char), NEW arr \in Nat, NEW b, NEW scan, Placed(s, arr, b, scan),
         NEW blocks \in Blocks, Parted(s, arr - Len(b), blocks), Quiet(b), arr > 0 => s[arr] # "CR"
  PROVE  LET rest   == [block |-> b, end |-> <<>>]
             wanted == Cleaned(Dispatched(SubSeq(s, 1, arr)))
         IN  Dispatched(Written(blocks)) = wanted /\ Dispatched(Written(Append(blocks, rest))) = wanted
<1> DEFINE base == arr - Len(b)
           P == Read(Parser, s, 1, base)
           W == Written(blocks)
           Q == After(Parser, W)
           F == filterEvent(b)
           rest == [block |-> b, end |-> <<>>]
<1>1. /\ base \in Nat /\ b \in Seq(Char) /\ Len(b) \in Nat /\ Len(s) \in Nat /\ arr = base + Len(b) /\ arr <= Len(s)
      /\ Window(s, base, b) /\ Window(b, 0, b)
      /\ \A k \in 1..Len(b) : b[k] = s[base + k]
  BY LenProperties DEF Placed, Window
<1>2. /\ Fresh(P, s, base + 1) /\ Fresh(Q, s, base + 1) /\ (P.afterCR <=> Q.afterCR)
      /\ Q.events = Cleaned(P.events)
  BY DEF Parted
<1>3. Parser \in State /\ P \in State /\ Q \in State
  BY <1>2, NothingWritten DEF Fresh
<1> HIDE DEF base, P, Q, W, F
<1>4. SubSeq(b, 1, Len(b)) = b /\ SubSeq(s, base + 1, arr) = b
  <2>1. b = SubSeq(b, 0 + 1, 0 + Len(b))
    BY <1>1, WindowIs
  <2>2. b = SubSeq(s, base + 1, base + Len(b))
    BY <1>1, WindowIs
  <2> QED
    BY <1>1, <2>1, <2>2
<1>5. \A j \in 1..Len(b) : ~Ended(b, j)
  <2>1. CASE Len(b) = 0
    BY <2>1
  <2>2. CASE Len(b) # 0
    <3>1. b # <<>> /\ b[Len(b)] = s[arr] /\ arr > 0
      BY <1>1, <2>2, EmptySeq
    <3> QED
      BY <3>1 DEF Quiet
  <2> QED
    BY <2>1, <2>2
<1>6. At(b, 1) = "end" \/ At(b, 1) = At(s, base + 1)
  BY <1>1, AtWindow DEF At
<1>7. Fresh(P, b, 1) /\ Fresh(Q, b, 1)
  BY <1>2, <1>6 DEF Fresh
<1>8. Dispatched(SubSeq(s, 1, arr)) = P.events
  <2> DEFINE a == base + 1
  <2>1. /\ 1 \in 1..(Len(s) + 1) /\ a \in 1..(Len(s) + 1) /\ arr \in (a - 1)..Len(s)
        /\ a - 1 = base
    BY <1>1
  <2> HIDE DEF a
  <2>2. Read(Parser, s, 1, arr) = Read(Read(Parser, s, 1, a - 1), s, a, arr)
    BY <1>3, <2>1, ReadOn
  <2>3. Read(P, s, a, arr) = Read(P, b, 1, Len(b))
    BY <1>4 DEF Read, a
  <2>4. 1 \in 1..(Len(b) + 1) /\ Len(b) \in (1 - 1)..Len(b)
    BY <1>1
  <2>5. Reading(P, b, 1, Len(b))
    BY <1>1, <1>5, <1>7, <2>4, Stretch
  <2>6. Read(P, b, 1, Len(b)).events = P.events
    BY <2>5 DEF Reading
  <2>7. Read(Parser, s, 1, arr).events = P.events
    BY <2>1, <2>2, <2>3, <2>6 DEF P
  <2> QED
    BY <2>7 DEF Dispatched, Read
<1>9. Dispatched(W) = Q.events
  BY DEF Dispatched, Q
<1>10. W \in Seq(Char) /\ F \in Seq(Char) /\ rest \in [block : Seq(Char), end : Seq(Char)]
       /\ Written(Append(blocks, rest)) = W \o F \o <<>>
  <2>1. rest \in [block : Seq(Char), end : Seq(Char)] /\ rest.block = b /\ rest.end = <<>>
    BY <1>1, EmptySeq
  <2> HIDE DEF rest
  <2>2. W \in Seq(Char) /\ Written(Append(blocks, rest)) = Wrote(W, rest)
    BY <2>1, WrittenAppends DEF W
  <2>3. F \in Seq(Char)
    BY <1>1, FilterType DEF F
  <2> QED
    BY <2>1, <2>2, <2>3 DEF Wrote, F
<1>11. After(Parser, W \o F) = After(Q, F)
  BY <1>3, <1>10, AfterConcat DEF Q
<1>12. After(Parser, (W \o F) \o <<>>) = After(Q, F)
  <2>1. W \o F \in Seq(Char) /\ <<>> \in Seq(Char)
    BY <1>10, ConcatProperties, EmptySeq
  <2>2. After(Parser, W \o F) \in State /\ After(Parser, (W \o F) \o <<>>) = After(After(Parser, W \o F), <<>>)
    BY <1>3, <2>1, AfterConcat
  <2>3. After(After(Parser, W \o F), <<>>) = After(Parser, W \o F)
    BY <2>2, AfterFew
  <2> QED
    BY <1>11, <2>2, <2>3
<1>13. After(Q, F).events = Q.events
  <2>1. 1 \in 1..(Len(b) + 1) /\ Len(b) \in (1 - 1)..Len(b)
    BY <1>1
  <2>2. LET y == After(Q, filterEvent(SubSeq(b, 1, Len(b)))) IN y.events = Q.events
    BY <1>1, <1>2, <1>5, <1>7, <2>1, BlockRead
  <2> QED
    BY <1>4, <2>2 DEF F
<1>14. Dispatched(Written(Append(blocks, rest))) = Q.events
  <2>1. W \o F \o <<>> = (W \o F) \o <<>>
    OBVIOUS
  <2> HIDE DEF rest
  <2> QED
    BY <1>10, <1>12, <1>13, <2>1 DEF Dispatched
<1> QED
  BY <1>2, <1>8, <1>9, <1>14 DEF W

\* The inductive invariant: while the stream is open its buffer is a window of the text that starts
\* where an event does and holds no event's end, and the client dispatched what was ended before it;
\* what ended the stream is near the cap.
Passed == (arrived > 0 => text[arrived] # "CR") => Dispatched(Sent) = Wanted

StreamInv ==
  /\ TypeOK
  /\ \A k \in DOMAIN out : Bytes(out[k].block) <= Cap
  /\ status # "refused" => bufferedBytes <= Cap
  /\ status = "open" => Placed(text, arrived, buffered, scanned)
  /\ status = "open" => Parted(text, arrived - Len(buffered), out) /\ Quiet(buffered)
  /\ status = "flushed" => Passed
  /\ status = "refused" => Near(text)

\* A text is a sequence of characters.
LEMMA TextType ==
  ASSUME NEW s \in Texts
  PROVE  s \in Seq(Char) /\ Len(s) \in Nat
<1>1. PICK n \in 0..MaxLength : s \in [1..n -> Char]
  BY DEF Texts
<1>2. n \in Nat
  BY EventStreamAssumption
<1>3. s \in Seq(Char)
  BY <1>1, <1>2, SeqDef
<1> QED
  BY <1>3, LenProperties

\* Nothing weighs nothing.
LEMMA BytesOfNothing == Bytes(<<>>) = 0
<1>1. {k \in DOMAIN <<>> : <<>>[k] = "hidden"} = {}
  BY EmptySeq
<1>2. Len(<<>>) = 0 /\ Cardinality({}) = 0
  BY EmptySeq, FS_EmptySet
<1> QED
  BY <1>1, <1>2 DEF Bytes

\* A stream starts with nothing read, held or passed on (proxy.ts:883-911).
LEMMA StreamInit == Init => StreamInv
<1> SUFFICES ASSUME Init PROVE StreamInv
  OBVIOUS
<1>1. text \in Seq(Char) /\ Len(text) \in Nat /\ text \in Texts
  BY TextType DEF Init
<1>2. /\ arrived = 0 /\ buffered = <<>> /\ bufferedBytes = 0 /\ scanned = 0 /\ out = <<>> /\ status = "open"
  BY DEF Init
<1>3. <<>> \in Seq(Char) /\ Len(<<>>) = 0 /\ <<>> \in Seq([block : Seq(Char), end : Seq(Char)]) /\ DOMAIN <<>> = {}
  BY EmptySeq
<1>4. TypeOK
  BY <1>1, <1>2, <1>3, BytesOfNothing DEF TypeOK
<1>5. Placed(text, 0, <<>>, 0)
  <2>1. Window(text, 0, <<>>)
    BY <1>1, <1>3 DEF Window
  <2>2. 1 \in Starts(text)
    BY <1>1, StartsAre
  <2>3. Searched(text, 0, 0)
    BY DEF Searched, From, OVERLAP
  <2>4. 0 - 0 = 0 /\ 0 + 1 = 1
    OBVIOUS
  <2> QED
    BY <1>3, <2>1, <2>2, <2>3, <2>4 DEF Placed
<1>6. 0 <= Cap
  BY EventStreamAssumption
<1>7. Parted(text, arrived - Len(buffered), out) /\ Quiet(buffered)
  <2> DEFINE held == Len(buffered)
             base == arrived - held
  <2>1. held = 0
    BY <1>2, EmptySeq
  <2> HIDE DEF held
  <2>2. base = 0
    BY <1>2, <2>1
  <2> HIDE DEF base
  <2>3. Parted(text, base, out)
    BY <1>1, <1>2, <2>2, NothingWritten
  <2>4. Quiet(<<>>)
    BY DEF Quiet
  <2> QED
    BY <1>2, <2>3, <2>4 DEF base, held
<1> QED
  BY <1>2, <1>3, <1>4, <1>5, <1>6, <1>7 DEF StreamInv

\* A chunk: the loop runs over what is buffered and the chunk.
LEMMA TransformKeeps ==
  ASSUME StreamInv, NEW n \in 1..MaxLength, transform(n)
  PROVE  StreamInv'
<1> DEFINE chunk == SubSeq(text, arrived + 1, arrived + n)
           more == buffered \o chunk
           start == [buffered |-> more, bytes |-> bufferedBytes + Bytes(chunk),
                     scanned |-> scanned, out |-> out, is |-> "draining"]
           d == drain(start)
           arr == arrived + n
<1>1. /\ text \in Texts /\ text \in Seq(Char) /\ Len(text) \in Nat /\ arrived \in 0..Len(text)
      /\ buffered \in Seq(Char) /\ Len(buffered) \in Nat /\ bufferedBytes = Bytes(buffered) /\ out \in Blocks
      /\ n \in Nat \ {0}
  BY TextType, LenProperties, EventStreamAssumption DEF StreamInv, TypeOK, Blocks
<1>2. /\ status = "open" /\ arr <= Len(text) /\ arrived' = arr
      /\ buffered' = IF d.is = "open" THEN d.buffered ELSE <<>>
      /\ bufferedBytes' = IF d.is = "open" THEN d.bytes ELSE 0
      /\ scanned' = d.scanned /\ out' = d.out /\ status' = d.is /\ text' = text
  BY DEF transform
<1>3. /\ Placed(text, arrived, buffered, scanned) /\ \A k \in DOMAIN out : Bytes(out[k].block) <= Cap
      /\ Parted(text, arrived - Len(buffered), out)
  BY <1>2 DEF StreamInv
<1> HIDE DEF d
<1>4. /\ more \in Seq(Char) /\ Len(more) = Len(buffered) + n
      /\ Window(text, arrived - Len(buffered), more) /\ Bytes(more) = Bytes(buffered) + Bytes(chunk)
      /\ Bytes(more) \in Nat
  <2> DEFINE base == arrived - Len(buffered)
  <2>1. Window(text, base, buffered) /\ base \in Nat /\ base + Len(buffered) = arrived
    BY <1>1, <1>3 DEF Placed, Window
  <2>2. (base + Len(buffered)) + n <= Len(text)
    BY <1>2, <2>1
  <2> HIDE DEF base
  <2>3. LET c == SubSeq(text, base + Len(buffered) + 1, base + Len(buffered) + n)
        IN  /\ buffered \o c \in Seq(Char) /\ Len(buffered \o c) = Len(buffered) + n
            /\ Window(text, base, buffered \o c)
            /\ Bytes(buffered \o c) = Bytes(buffered) + Bytes(c)
    <3>1. n \in Nat /\ text \in Seq(Char) /\ Window(text, base, buffered)
      BY <1>1, <2>1
    <3> HIDE DEF chunk, more, start, arr
    <3> QED
      BY <2>2, <3>1, MoreWindow
  <2>4. /\ more \in Seq(Char) /\ Len(more) = Len(buffered) + n
        /\ Window(text, base, more) /\ Bytes(more) = Bytes(buffered) + Bytes(chunk)
    BY <2>1, <2>3
  <2> HIDE DEF more, chunk
  <2>5. Bytes(more) \in Nat
    <3>1. Bytes(more) = Weight(text, base + 1, base + Len(more))
      BY <1>1, <2>4, BytesOfWindow
    <3> DEFINE a == base + 1
               z == base + Len(more)
    <3>2. a \in Nat /\ z \in Int /\ a <= z + 1
      BY <1>1, <2>1, <2>4
    <3> HIDE DEF a, z
    <3>3. Weight(text, a, z) \in Nat
      BY <3>2, WeightType
    <3> QED
      BY <3>1, <3>3 DEF a, z
  <2> QED
    BY <2>4, <2>5 DEF base
<1> HIDE DEF chunk, more
<1>5. Placed(text, arr, more, scanned) /\ Parted(text, arr - Len(more), out)
  <2>1. arr - Len(more) = arrived - Len(buffered) /\ Len(more) <= arr
    <3>1. Len(buffered) <= arrived
      BY <1>3 DEF Placed
    <3> QED
      BY <1>1, <1>4, <3>1
  <2>2. scanned \in 0..Len(more)
    <3>1. scanned \in 0..Len(buffered)
      BY <1>3 DEF Placed
    <3> QED
      BY <1>1, <1>4, <3>1
  <2> HIDE DEF arr
  <2> QED
    BY <1>3, <1>4, <2>1, <2>2 DEF Placed
<1>6. Loop(text, arr, start)
  <2>1. scanned \in Nat
    BY <1>1, <1>3 DEF Placed
  <2>2. /\ start.buffered = more /\ start.bytes = bufferedBytes + Bytes(chunk) /\ start.scanned = scanned
        /\ start.out = out /\ start.is = "draining"
    OBVIOUS
  <2>3. start.bytes = Bytes(more)
    BY <1>1, <1>4
  <2>4. start \in [buffered : Seq(Char), bytes : Nat, scanned : Nat, out : Blocks, is : {"draining", "open", "refused"}]
    BY <1>1, <1>4, <2>1, <2>3
  <2> HIDE DEF start, arr
  <2> QED
    BY <1>3, <1>5, <2>2, <2>3, <2>4 DEF Loop
<1>7. Loop(text, arr, d) /\ d.is \in {"open", "refused"}
  <2>1. arr \in Nat
    BY <1>1
  <2> HIDE DEF arr, start
  <2> QED
    BY <1>1, <1>6, <2>1, DrainKeeps DEF d
<1>8. /\ d \in [buffered : Seq(Char), bytes : Nat, scanned : Nat, out : Blocks, is : {"draining", "open", "refused"}]
      /\ d.bytes = Bytes(d.buffered) /\ Placed(text, arr, d.buffered, d.scanned)
      /\ \A k \in DOMAIN d.out : Bytes(d.out[k].block) <= Cap
      /\ Parted(text, arr - Len(d.buffered), d.out)
      /\ d.is = "open" => d.bytes <= Cap /\ Quiet(d.buffered)
      /\ d.is = "refused" => Near(text)
  BY <1>7 DEF Loop
<1>9. CASE d.is = "open"
  <2>1. /\ buffered' = d.buffered /\ bufferedBytes' = d.bytes /\ status' = "open"
        /\ scanned' = d.scanned /\ out' = d.out /\ text' = text /\ arrived' = arr
    BY <1>2, <1>9
  <2>2. d.scanned \in 0..Len(d.buffered) /\ arr \in 0..Len(text)
    BY <1>1, <1>2, <1>8 DEF Placed
  <2>3. d.buffered \in Seq(Char) /\ d.out \in Seq([block : Seq(Char), end : Seq(Char)])
    BY <1>8 DEF Blocks
  <2> HIDE DEF arr
  <2>4. TypeOK'
    BY <1>1, <1>8, <2>1, <2>2, <2>3 DEF TypeOK
  <2> QED
    BY <1>8, <1>9, <2>1, <2>4 DEF StreamInv
<1>10. CASE d.is = "refused"
  <2>1. /\ buffered' = <<>> /\ bufferedBytes' = 0 /\ status' = "refused"
        /\ scanned' = d.scanned /\ out' = d.out /\ text' = text /\ arrived' = arr
    BY <1>2, <1>10
  <2>2. arr \in 0..Len(text)
    BY <1>1, <1>2
  <2>3. d.out \in Seq([block : Seq(Char), end : Seq(Char)])
    BY <1>8 DEF Blocks
  <2> HIDE DEF arr
  <2>4. TypeOK'
    BY <1>1, <2>1, <2>2, <2>3, BytesOfNothing, EmptySeq DEF TypeOK
  <2> QED
    BY <1>8, <1>10, <2>1, <2>4 DEF StreamInv
<1> QED
  BY <1>7, <1>9, <1>10

\* While the stream is open, and where what is left is passed on as it stands, nothing is lost.
LEMMA OpenKept ==
  ASSUME StreamInv, status = "open", arrived > 0 => text[arrived] # "CR"
  PROVE  LET rest   == [block |-> buffered, end |-> <<>>]
             wanted == Cleaned(Dispatched(SubSeq(text, 1, arrived)))
         IN  Dispatched(Written(out)) = wanted /\ Dispatched(Written(Append(out, rest))) = wanted
<1>1. /\ text \in Seq(Char) /\ arrived \in Nat /\ out \in Blocks
      /\ Placed(text, arrived, buffered, scanned)
      /\ Parted(text, arrived - Len(buffered), out) /\ Quiet(buffered)
  BY TextType DEF StreamInv, TypeOK, Blocks
<1> QED
  BY <1>1, QuietKept

\* The end: what is left is passed on, for an open stream holds nothing over the cap.
LEMMA FlushKeeps ==
  ASSUME StreamInv, flush
  PROVE  StreamInv'
<1> DEFINE blank == \A k \in DOMAIN buffered : buffered[k] \in {"CR", "LF"}
           rest == [block |-> buffered, end |-> <<>>]
<1>1. /\ status = "open" /\ text' = text /\ arrived' = arrived /\ buffered' = buffered
      /\ bufferedBytes' = bufferedBytes /\ scanned' = scanned
      /\ status' = IF ~blank /\ bufferedBytes > Cap THEN "refused" ELSE "flushed"
      /\ out' = IF blank \/ (~blank /\ bufferedBytes > Cap) THEN out ELSE Append(out, rest)
  BY DEF flush
<1>2. /\ TypeOK /\ \A k \in DOMAIN out : Bytes(out[k].block) <= Cap
      /\ bufferedBytes <= Cap
  BY <1>1 DEF StreamInv
<1>3. Placed(text, arrived, buffered, scanned)
  BY <1>1 DEF StreamInv
<1>4. ~(bufferedBytes > Cap) /\ bufferedBytes = Bytes(buffered)
  <2>1. text \in Seq(Char) /\ buffered \in Seq(Char) /\ bufferedBytes = Bytes(buffered) /\ arrived \in Nat
    BY <1>2, TextType DEF TypeOK
  <2> DEFINE base == arrived - Len(buffered)
             a == base + 1
             z == base + Len(buffered)
  <2>2. Window(text, base, buffered) /\ a \in Nat /\ z \in Int /\ a <= z + 1
    BY <1>3 DEF Placed, Window
  <2> HIDE DEF base
  <2>3. Bytes(buffered) = Weight(text, a, z)
    BY <2>1, <2>2, BytesOfWindow
  <2> HIDE DEF a, z
  <2>4. Weight(text, a, z) \in Nat
    BY <2>2, WeightType
  <2> QED
    BY <1>2, <2>1, <2>3, <2>4, EventStreamAssumption
<1>5. status' = "flushed" /\ (out' = out \/ out' = Append(out, rest))
  <2> HIDE DEF blank, rest
  <2> QED
    BY <1>1, <1>4
<1>6. out' \in Seq([block : Seq(Char), end : Seq(Char)]) /\ \A k \in DOMAIN out' : Bytes(out'[k].block) <= Cap
  <2>1. out \in Seq([block : Seq(Char), end : Seq(Char)])
    BY <1>2 DEF TypeOK
  <2>2. CASE out' = out
    BY <1>2, <2>1, <2>2
  <2>3. CASE out' = Append(out, rest)
    <3>1. rest \in [block : Seq(Char), end : Seq(Char)] /\ rest.block = buffered
      BY <1>2, EmptySeq DEF TypeOK
    <3> HIDE DEF rest
    <3>2. /\ out' \in Seq([block : Seq(Char), end : Seq(Char)])
          /\ Len(out) \in Nat /\ Len(out') = Len(out) + 1
          /\ \A k \in 1..Len(out) : out'[k] = out[k]
          /\ out'[Len(out) + 1] = rest
      BY <2>1, <2>3, <3>1, AppendProperties, LenProperties
    <3>3. DOMAIN out' = 1..(Len(out) + 1) /\ DOMAIN out = 1..Len(out)
      BY <2>1, <3>2, LenProperties
    <3>4. ASSUME NEW k \in 1..(Len(out) + 1)
          PROVE  Bytes(out'[k].block) <= Cap
      <4>1. CASE k = Len(out) + 1
        BY <1>2, <1>4, <3>1, <3>2, <4>1
      <4>2. CASE k # Len(out) + 1
        <5>1. k \in DOMAIN out
          BY <3>2, <3>3, <4>2
        <5> QED
          BY <1>2, <3>2, <3>3, <5>1
      <4> QED
        BY <4>1, <4>2
    <3> QED
      BY <3>2, <3>3, <3>4
  <2> QED
    BY <1>5, <2>2, <2>3
<1>7. TypeOK'
  <2>1. scanned \in 0..Len(buffered)
    BY <1>3 DEF Placed
  <2> QED
    BY <1>1, <1>2, <1>5, <1>6, <2>1 DEF TypeOK
<1>8. Passed'
  <2> SUFFICES ASSUME arrived' > 0 => text'[arrived'] # "CR"
               PROVE  Dispatched(Sent)' = Wanted'
    BY DEF Passed
  <2>1. LET wanted == Cleaned(Dispatched(SubSeq(text, 1, arrived)))
        IN  Dispatched(Written(out)) = wanted /\ Dispatched(Written(Append(out, rest))) = wanted
    BY <1>1, OpenKept
  <2> HIDE DEF rest
  <2> QED
    BY <1>1, <1>5, <2>1 DEF Sent, Wanted, Arrived, Cleaned
<1> QED
  BY <1>1, <1>2, <1>5, <1>6, <1>7, <1>8 DEF StreamInv

\* A chunk and the end of the body keep the invariant (proxy.ts:972-1013).
LEMMA StreamNext == StreamInv /\ [Next]_vars => StreamInv'
<1>1. ASSUME StreamInv, UNCHANGED vars
      PROVE  StreamInv'
  BY <1>1 DEF vars, StreamInv, TypeOK, Passed, Sent, Wanted, Arrived
<1> QED
  BY <1>1, TransformKeeps, FlushKeeps DEF Next

\* What the invariant says of the cap.
LEMMA StreamCap == StreamInv => TypeOK /\ CapDecides
<1>1. StreamInv => NothingOverCap
  BY DEF StreamInv, TypeOK, NothingOverCap
<1>2. StreamInv => RefusedNearCap
  BY DEF StreamInv, Near, RefusedNearCap
<1> QED
  BY <1>1, <1>2 DEF StreamInv, CapDecides

\* What it says of the events.
LEMMA StreamKept == StreamInv => EventsKept
<1> SUFFICES ASSUME StreamInv, status # "refused", arrived > 0 => text[arrived] # "CR"
             PROVE  Dispatched(Sent) = Wanted
  BY DEF EventsKept
<1>1. status \in {"open", "flushed"}
  BY DEF StreamInv, TypeOK
<1>2. CASE status = "open"
  <2>1. LET rest   == [block |-> buffered, end |-> <<>>]
            wanted == Cleaned(Dispatched(SubSeq(text, 1, arrived)))
        IN  Dispatched(Written(out)) = wanted /\ Dispatched(Written(Append(out, rest))) = wanted
    BY <1>2, OpenKept
  <2> QED
    BY <2>1 DEF Sent, Wanted, Arrived, Cleaned
<1>3. CASE status = "flushed"
  BY <1>3 DEF StreamInv, Passed
<1> QED
  BY <1>1, <1>2, <1>3

-----------------------------------------------------------------------------
(* The results.                                                            *)

\* However the transport splits the upstream's text, the client dispatches exactly the events the
\* upstream ended so far, each one filtered and in order, unless the last character so far is a CR:
\* for texts of any length and any cap (proxy.ts:911-1013, 1040-1041).
THEOREM EventsAreKept == Spec => []EventsKept
<1>1. Spec => []StreamInv
  BY StreamInit, StreamNext, PTL DEF Spec
<1> QED
  BY <1>1, StreamKept, PTL

\* However it splits it, no event over the cap is held or passed on, and a stream is ended only over
\* an event of the text whose bytes, with three of a terminator, pass the cap (proxy.ts:954-996).
THEOREM CapIsKept == Spec => []CapDecides
<1>1. Spec => []StreamInv
  BY StreamInit, StreamNext, PTL DEF Spec
<1> QED
  BY <1>1, StreamCap, PTL
=============================================================================
