------------------------------ MODULE SeqLemmas ------------------------------
(***************************************************************************)
(* Sequences whose elements have no set of their own: the queues, caches    *)
(* and target lists of the components hold records of several shapes, and   *)
(* the proofs need no more of them than their order.  And induction over    *)
(* the naturals in the form of sets.                                        *)
(***************************************************************************)
EXTENDS Integers, Sequences, WellFoundedInduction, TLAPS

IsSeq(s) == \E S : s \in Seq(S)

\* What Append and Tail do to a sequence of whatever elements.
LEMMA SeqFacts ==
    ASSUME NEW s, IsSeq(s)
    PROVE  /\ Len(s) \in Nat /\ DOMAIN s = 1 .. Len(s)
           /\ \A x : /\ IsSeq(Append(s, x))
                     /\ Len(Append(s, x)) = Len(s) + 1
                     /\ DOMAIN Append(s, x) = 1 .. Len(s) + 1
                     /\ \A i \in DOMAIN s : Append(s, x)[i] = s[i]
                     /\ Append(s, x)[Len(s) + 1] = x
           /\ s # <<>> => /\ IsSeq(Tail(s))
                          /\ Len(s) # 0
                          /\ Len(Tail(s)) = Len(s) - 1
                          /\ DOMAIN Tail(s) = 1 .. Len(s) - 1
                          /\ \A i \in 1 .. Len(s) - 1 : Tail(s)[i] = s[i + 1]
  <1>1. PICK S : s \in Seq(S)
    BY DEF IsSeq
  <1>2. Len(s) \in Nat /\ DOMAIN s = 1 .. Len(s)
    BY <1>1
  <1>3. ASSUME NEW x
        PROVE  /\ Append(s, x) \in Seq(S \cup {x})
               /\ Len(Append(s, x)) = Len(s) + 1
               /\ DOMAIN Append(s, x) = 1 .. Len(s) + 1
               /\ \A i \in DOMAIN s : Append(s, x)[i] = s[i]
               /\ Append(s, x)[Len(s) + 1] = x
    <2>1. s \in Seq(S \cup {x})
      BY <1>1
    <2> QED
      BY <2>1
  <1>4. ASSUME s # <<>>
        PROVE  /\ Tail(s) \in Seq(S)
               /\ Len(s) # 0
               /\ Len(Tail(s)) = Len(s) - 1
               /\ DOMAIN Tail(s) = 1 .. Len(s) - 1
               /\ \A i \in 1 .. Len(s) - 1 : Tail(s)[i] = s[i + 1]
    BY <1>1, <1>4
  <1> QED
    BY <1>2, <1>3, <1>4 DEF IsSeq

\* The same for a sequence whose elements are known.
LEMMA SeqOfFacts ==
    ASSUME NEW S, NEW s \in Seq(S)
    PROVE  /\ IsSeq(s)
           /\ \A x \in S : Append(s, x) \in Seq(S)
           /\ s # <<>> => Head(s) \in S /\ Tail(s) \in Seq(S) /\ Head(s) = s[1]
  BY DEF IsSeq

\* A list of n entries is a sequence.
LEMMA ListFacts ==
    ASSUME NEW n \in Nat, NEW f, f = [i \in 1 .. n |-> f[i]]
    PROVE  IsSeq(f) /\ Len(f) = n /\ DOMAIN f = 1 .. n
  <1> DEFINE S == {f[i] : i \in 1 .. n}
  <1>1. \A i \in 1 .. n : f[i] \in S
    OBVIOUS
  <1>2. f \in [1 .. n -> S]
    BY <1>1 DEF S
  <1> HIDE DEF S
  <1>3. f \in Seq(S)
    BY <1>2
  <1> QED
    BY <1>2, <1>3 DEF IsSeq

-----------------------------------------------------------------------------
(* Induction over the naturals, in the form of sets.                        *)

\* A nonempty set of naturals has a least element.
LEMMA LeastNatural ==
  ASSUME NEW T \in SUBSET Nat, T # {}
  PROVE \E x \in T : \A y \in T : x <= y
  <1> DEFINE R == OpToRel(<, Nat)
  <1>1. IsWellFoundedOn(R, Nat)
    BY NatLessThanWellFounded
  <1> HIDE DEF R
  <1>2. PICK x \in T : \A y \in T : ~ (<<y, x>> \in R)
    BY <1>1, WFMin
  <1>3. \A y \in T : y < x => <<y, x>> \in R
    BY DEF R, OpToRel
  <1>4. \A y \in T : y \in Nat /\ x \in Nat /\ ~(y < x)
    BY <1>2, <1>3
  <1> QED BY <1>4

\* What holds at 0 and is passed on from n to n + 1 holds everywhere.
LEMMA SetInduction ==
  ASSUME NEW S, 0 \in S, \A n \in Nat : n \in S => n + 1 \in S
  PROVE Nat \subseteq S
  <1> DEFINE T == {n \in Nat : n \notin S}
  <1> SUFFICES ASSUME T # {} PROVE FALSE
    OBVIOUS
  <1>1. PICK x \in T : \A y \in T : x <= y
    BY LeastNatural
  <1>2. x # 0 /\ x - 1 \in Nat /\ x - 1 \notin T
    BY <1>1
  <1> QED BY <1>1, <1>2
=============================================================================
