------------------------- MODULE CowrieServerProofs -------------------------
(***************************************************************************)
(* For any number of clients, whatever they send and whenever they go:     *)
(*   - every event that cowrie's output gets reaches the session of its    *)
(*     connection, unless connections of two ports had one number;         *)
(*   - the state keeps its type;                                           *)
(*   - a log is closed once, and none stays open that was not replaced;    *)
(*   - with one thread for the database no end of a session is lost;       *)
(*   - what a client uploads is kept under its checksum, unless another    *)
(*     upload of the same path had the same second.                        *)
(***************************************************************************)
EXTENDS CowrieServer, TLAPS, WellFoundedInduction, SequenceTheorems

-----------------------------------------------------------------------------
(* Lists                                                                   *)

\* Induction, with the set of the numbers something is true of
LEMMA Induct ==
  ASSUME NEW S, 0 \in S, \A n \in Nat : n \in S => n + 1 \in S
  PROVE  Nat \subseteq S
<1> DEFINE T == Nat \ S
           R == {ss \in Nat \X Nat : ss[1] < ss[2]}
<1> SUFFICES ASSUME T # {} PROVE FALSE
  OBVIOUS
<1>1. IsWellFoundedOn(R, Nat)
  BY NatLessThanWellFounded DEF OpToRel
<1>2. PICK x \in T : \A y \in T : <<y, x>> \notin R
  <2> HIDE DEF R
  <2> QED BY <1>1, WFMin
<1>3. x # 0 /\ x - 1 \in Nat
  OBVIOUS
<1>4. x - 1 \in T
  OBVIOUS
<1>5. <<x - 1, x>> \in R
  BY <1>3
<1> QED
  BY <1>2, <1>4, <1>5

\* ... and as far as a number m
LEMMA InductTo ==
  ASSUME NEW m \in Nat, NEW S, 0 \in S, \A n \in 1 .. m : n - 1 \in S => n \in S
  PROVE  0 .. m \subseteq S
<1> DEFINE T == {n \in Nat : n <= m => n \in S}
<1>1. 0 \in T
  OBVIOUS
<1>2. \A n \in Nat : n \in T => n + 1 \in T
  <2> SUFFICES ASSUME NEW n \in Nat, n \in T, n + 1 <= m PROVE n + 1 \in S
    OBVIOUS
  <2>1. n + 1 \in 1 .. m /\ (n + 1) - 1 \in S
    OBVIOUS
  <2> QED
    BY <2>1
<1>3. Nat \subseteq T
  <2> HIDE DEF T
  <2> QED
    BY <1>1, <1>2, Induct
<1> QED
  BY <1>3

\* A finite list
Listed(s) == \E S : s \in Seq(S)

\* The domain of a list
LEMMA ListedShape ==
  ASSUME NEW s, Listed(s)
  PROVE  Len(s) \in Nat /\ DOMAIN s = 1 .. Len(s)
  BY DEF Listed

\* The list with nothing on it
LEMMA ListedEmpty == Listed(<< >>) /\ Len(<< >>) = 0 /\ DOMAIN << >> = {}
<1>1. << >> \in Seq({})
  OBVIOUS
<1> QED
  BY <1>1 DEF Listed

\* A list put after another
LEMMA ListedConcat ==
  ASSUME NEW s, NEW t, Listed(s), Listed(t)
  PROVE  /\ Listed(s \o t)
         /\ Len(s \o t) = Len(s) + Len(t)
         /\ \A i \in 1 .. Len(s) : (s \o t)[i] = s[i]
         /\ \A i \in 1 .. Len(t) : (s \o t)[Len(s) + i] = t[i]
<1>1. PICK S, T : s \in Seq(S) /\ t \in Seq(T)
  BY DEF Listed
<1>2. s \in Seq(S \union T) /\ t \in Seq(S \union T)
  BY <1>1, SeqMonotonic
<1>3. s \o t \in Seq(S \union T) /\ Len(s \o t) = Len(s) + Len(t)
      /\ \A i \in 1 .. Len(s) + Len(t) : (s \o t)[i] = IF i <= Len(s) THEN s[i] ELSE t[i - Len(s)]
  BY <1>2, ConcatProperties
<1>4. Len(s) \in Nat /\ Len(t) \in Nat
  BY ListedShape
<1> QED
  BY <1>3, <1>4 DEF Listed

\* A list with one more
LEMMA ListedAppend ==
  ASSUME NEW s, NEW e, Listed(s)
  PROVE  /\ Listed(Append(s, e))
         /\ Len(Append(s, e)) = Len(s) + 1
         /\ \A i \in 1 .. Len(s) : Append(s, e)[i] = s[i]
         /\ Append(s, e)[Len(s) + 1] = e
<1>1. PICK S : s \in Seq(S)
  BY DEF Listed
<1>2. s \in Seq(S \union {e}) /\ e \in S \union {e}
  BY <1>1, SeqMonotonic
<1> QED
  BY <1>2, AppendProperties DEF Listed

\* A list of one
LEMMA ListedSingle ==
  ASSUME NEW e
  PROVE  Listed(<< e >>) /\ Len(<< e >>) = 1 /\ << e >>[1] = e
<1>1. << e >> \in Seq({e})
  OBVIOUS
<1> QED
  BY <1>1 DEF Listed

\* A list with, perhaps, an entry replaced
LEMMA ListedExcept ==
  ASSUME NEW s, NEW i, NEW e, Listed(s)
  PROVE  /\ Listed([s EXCEPT ![i] = e])
         /\ Len([s EXCEPT ![i] = e]) = Len(s)
<1>1. PICK S : s \in Seq(S)
  BY DEF Listed
<1>2. s \in Seq(S \union {e})
  BY <1>1, SeqMonotonic
<1>3. [s EXCEPT ![i] = e] \in Seq(S \union {e}) /\ Len([s EXCEPT ![i] = e]) = Len(s)
  <2>1. CASE i \in 1 .. Len(s)
    BY <1>2, <2>1, ExceptSeq
  <2>2. CASE i \notin 1 .. Len(s)
    <3>1. DOMAIN s = 1 .. Len(s) /\ s = [j \in DOMAIN s |-> s[j]]
      BY <1>2
    <3>2. [s EXCEPT ![i] = e] = s
      BY <2>2, <3>1
    <3> QED
      BY <1>2, <3>2
  <2> QED
    BY <2>1, <2>2
<1> QED
  BY <1>3 DEF Listed

\* A function of the first n numbers is a list.
LEMMA ListedFunction ==
  ASSUME NEW n \in Nat, NEW f, f = [i \in DOMAIN f |-> f[i]], DOMAIN f = 1 .. n
  PROVE  Listed(f) /\ Len(f) = n
<1> DEFINE S == {f[i] : i \in 1 .. n}
<1>1. \A i \in 1 .. n : f[i] \in S
  OBVIOUS
<1>2. f \in [1 .. n -> S]
  <2> HIDE DEF S
  <2> QED
    BY <1>1, Zenon
<1>3. f \in Seq(S) /\ Len(f) = n
  BY <1>2
<1> QED
  BY <1>3 DEF Listed

\* The only list without entries
LEMMA ListedNone ==
  ASSUME NEW s, Listed(s)
  PROVE  s = << >> <=> Len(s) = 0
<1>1. PICK S : s \in Seq(S)
  BY DEF Listed
<1> QED
  BY <1>1

\* An entry replaced: where it is, and that the others stay
LEMMA ListedReplaced ==
  ASSUME NEW s, Listed(s), NEW i \in 1 .. Len(s), NEW e
  PROVE  /\ Listed([s EXCEPT ![i] = e])
         /\ Len([s EXCEPT ![i] = e]) = Len(s)
         /\ [s EXCEPT ![i] = e][i] = e
         /\ \A j \in 1 .. Len(s) : j # i => [s EXCEPT ![i] = e][j] = s[j]
<1>1. Len(s) \in Nat /\ DOMAIN s = 1 .. Len(s)
  BY ListedShape
<1> QED
  BY <1>1, ListedExcept

\* The definition by recursion in FlattenSeq has a solution.
LEMMA FlattenDefined ==
  ASSUME NEW n \in Nat, NEW seqs
  PROVE  \E g : g = [i \in 1 .. n |-> IF i = 1 THEN seqs[i] ELSE g[i - 1] \o seqs[i]]
<1> DEFINE Step(g, i) == IF i = 1 THEN seqs[i] ELSE g[i - 1] \o seqs[i]
           Solves(g, m) == g = [i \in 1 .. m |-> Step(g, i)]
           S == {m \in 0 .. n : \E g : Solves(g, m)}
<1>1. 0 \in S
  <2>1. Solves([i \in 1 .. 0 |-> {}], 0)
    OBVIOUS
  <2> HIDE DEF Solves
  <2> QED
    BY <2>1
<1>2. ASSUME NEW m \in 1 .. n, m - 1 \in S PROVE m \in S
  <2>1. PICK g : Solves(g, m - 1)
    BY <1>2
  <2> DEFINE h == [i \in 1 .. m |-> IF i = m THEN Step(g, m) ELSE g[i]]
  <2>2. \A i \in 1 .. m : Step(h, i) = Step(g, i)
    OBVIOUS
  <2>3. \A i \in 1 .. m : h[i] = Step(g, i)
    <3> SUFFICES ASSUME NEW i \in 1 .. m, i # m PROVE g[i] = Step(g, i)
      OBVIOUS
    <3>1. i \in 1 .. m - 1
      OBVIOUS
    <3> HIDE DEF Step
    <3> QED
      BY <2>1, <3>1
  <2>4. Solves(h, m)
    <3>1. h = [i \in 1 .. m |-> h[i]]
      OBVIOUS
    <3> HIDE DEF Step, h
    <3> QED
      BY <2>2, <2>3, <3>1
  <2> HIDE DEF h, Solves
  <2> QED
    BY <2>4
<1>3. n \in S
  <2> HIDE DEF S
  <2> QED
    BY <1>1, <1>2, InductTo
<1> QED
  BY <1>3

\* What a list has, another one has.
Within(s, t) == \A j \in 1 .. Len(s) : \E k \in 1 .. Len(t) : t[k] = s[j]

\* FlattenSeq gives a sequence of what its sequences are made of, and leaves
\* nothing out.
LEMMA Flattened ==
  ASSUME NEW Q, NEW seqs, Listed(seqs), \A i \in 1 .. Len(seqs) : seqs[i] \in Seq(Q)
  PROVE  /\ FlattenSeq(seqs) \in Seq(Q)
         /\ \A i \in 1 .. Len(seqs) : Within(seqs[i], FlattenSeq(seqs))
<1>1. Len(seqs) \in Nat
  BY ListedShape
<1>2. CASE Len(seqs) = 0
  <2>1. seqs = << >>
    BY <1>2 DEF Listed
  <2> QED
    BY <1>2, <2>1 DEF FlattenSeq
<1>3. CASE Len(seqs) # 0
  <2> DEFINE Rhs(g) == [i \in 1 .. Len(seqs) |-> IF i = 1 THEN seqs[i] ELSE g[i - 1] \o seqs[i]]
             f == CHOOSE g : g = Rhs(g)
  <2>1. f = Rhs(f)
    <3>1. \E g : g = Rhs(g)
      BY <1>1, FlattenDefined
    <3> HIDE DEF Rhs
    <3> QED
      BY <3>1
  <2>2. FlattenSeq(seqs) = f[Len(seqs)]
    BY <1>3 DEF FlattenSeq
  <2>3. f[1] = seqs[1] /\ \A i \in 2 .. Len(seqs) : f[i] = f[i - 1] \o seqs[i]
    <3> HIDE DEF f
    <3>1. Rhs(f)[1] = seqs[1]
      <4>1. 1 \in 1 .. Len(seqs)
        BY <1>1, <1>3
      <4> QED
        BY <4>1
    <3>2. ASSUME NEW i \in 2 .. Len(seqs) PROVE Rhs(f)[i] = f[i - 1] \o seqs[i]
      <4>1. i \in 1 .. Len(seqs) /\ i # 1
        BY <1>1
      <4> QED
        BY <4>1
    <3> HIDE DEF Rhs
    <3> QED
      BY <2>1, <3>1, <3>2
  <2> HIDE DEF f, Rhs
  <2> DEFINE Has(n, i) == Within(seqs[i], f[n])
             Good(n) == f[n] \in Seq(Q) /\ \A i \in 1 .. n : Has(n, i)
             S == {n \in Nat : n = 0 \/ Good(n)}
  <2>4. 0 \in S
    OBVIOUS
  <2>5. ASSUME NEW n \in 1 .. Len(seqs), n - 1 \in S PROVE n \in S
    <3>1. CASE n = 1
      <4>1. f[1] = seqs[1] /\ f[1] \in Seq(Q)
        BY <2>3, <3>1
      <4>2. Has(1, 1)
        BY <4>1 DEF Within
      <4> HIDE DEF Has
      <4>3. Good(1)
        BY <4>1, <4>2
      <4> QED
        BY <3>1, <4>3
    <3>2. CASE n # 1
      <4>0. Good(n - 1) /\ n \in 2 .. Len(seqs) /\ n - 1 \in Nat
        <5> HIDE DEF Good
        <5> QED
          BY <2>5, <3>2
      <4>1. f[n] = f[n - 1] \o seqs[n] /\ f[n - 1] \in Seq(Q) /\ seqs[n] \in Seq(Q)
        <5> HIDE DEF Has
        <5> QED
          BY <2>3, <4>0
      <4>2. /\ f[n] \in Seq(Q)
            /\ Len(f[n]) = Len(f[n - 1]) + Len(seqs[n])
            /\ Len(f[n - 1]) \in Nat /\ Len(seqs[n]) \in Nat
            /\ \A i \in 1 .. Len(f[n - 1]) : f[n][i] = f[n - 1][i]
            /\ \A i \in 1 .. Len(seqs[n]) : f[n][Len(f[n - 1]) + i] = seqs[n][i]
        <5>1. Listed(f[n - 1]) /\ Listed(seqs[n])
          BY <4>1 DEF Listed
        <5>2. f[n] \in Seq(Q)
          BY <4>1, ConcatProperties
        <5>3. /\ Len(f[n - 1] \o seqs[n]) = Len(f[n - 1]) + Len(seqs[n])
              /\ \A i \in 1 .. Len(f[n - 1]) : (f[n - 1] \o seqs[n])[i] = f[n - 1][i]
              /\ \A i \in 1 .. Len(seqs[n]) : (f[n - 1] \o seqs[n])[Len(f[n - 1]) + i] = seqs[n][i]
          <6> DEFINE p == f[n - 1]
                     q == seqs[n]
          <6>1. Listed(p) /\ Listed(q)
            BY <5>1
          <6> HIDE DEF p, q
          <6>2. /\ Len(p \o q) = Len(p) + Len(q)
                /\ \A i \in 1 .. Len(p) : (p \o q)[i] = p[i]
                /\ \A i \in 1 .. Len(q) : (p \o q)[Len(p) + i] = q[i]
            BY <6>1, ListedConcat
          <6> QED
            BY <6>2 DEF p, q
        <5>4. Len(f[n - 1]) \in Nat /\ Len(seqs[n]) \in Nat
          BY <5>1, ListedShape
        <5> QED
          BY <4>1, <5>2, <5>3, <5>4
      <4> DEFINE a == Len(f[n - 1])
                 b == Len(seqs[n])
                 l == Len(f[n])
      <4>9. l = a + b /\ a \in Nat /\ b \in Nat
        BY <4>2
      <4>7. \A k \in 1 .. a : k \in 1 .. l
        <5> HIDE DEF a, b, l
        <5> QED
          BY <4>9
      <4>8. \A k \in 1 .. b : a + k \in 1 .. l
        <5> HIDE DEF a, b, l
        <5> QED
          BY <4>9
      <4>3. ASSUME NEW i \in 1 .. n - 1 PROVE Has(n, i)
        <5> SUFFICES ASSUME NEW j \in 1 .. Len(seqs[i])
                     PROVE  \E k \in 1 .. Len(f[n]) : f[n][k] = seqs[i][j]
          BY DEF Within
        <5>1. PICK k \in 1 .. Len(f[n - 1]) : f[n - 1][k] = seqs[i][j]
          BY <4>0 DEF Within
        <5>2. k \in 1 .. Len(f[n]) /\ f[n][k] = f[n - 1][k]
          BY <4>2, <4>7
        <5> QED
          BY <5>1, <5>2
      <4>4. Has(n, n)
        <5> SUFFICES ASSUME NEW j \in 1 .. Len(seqs[n])
                     PROVE  \E k \in 1 .. Len(f[n]) : f[n][k] = seqs[n][j]
          BY DEF Within
        <5> DEFINE k == Len(f[n - 1]) + j
        <5>1. k \in 1 .. Len(f[n]) /\ f[n][k] = seqs[n][j]
          BY <4>2, <4>8
        <5> QED
          BY <5>1
      <4>5. \A i \in 1 .. n : i \in 1 .. n - 1 \/ i = n
        OBVIOUS
      <4> HIDE DEF Has
      <4>6. Good(n)
        BY <4>2, <4>3, <4>4, <4>5
      <4> QED
        BY <4>6
    <3> QED
      BY <3>1, <3>2
  <2>6. Len(seqs) \in S
    <3> HIDE DEF S
    <3>1. 0 .. Len(seqs) \subseteq S
      BY <1>1, <2>4, <2>5, InductTo
    <3> QED
      BY <1>1, <3>1
  <2> QED
    BY <1>3, <2>2, <2>6
<1> QED
  BY <1>2, <1>3

-----------------------------------------------------------------------------
(* The folds, step by step: one more channel closed, one more answer tried.*)

\* One more channel of c
ClosedNext(c, acc, k) ==
  IF channels[c][k].there
  THEN {[channels |-> [acc.channels EXCEPT ![k] = r.channel], host |-> r.host,
         events |-> acc.events \o r.events] : r \in ChannelClosed(channels[c][k], acc.host)}
  ELSE {acc}

\* AllClosed goes from one channel to the next.
LEMMA AllClosedSteps ==
  ASSUME NEW c, Listed(channels[c])
  PROVE  \E upto : /\ upto[0] = {[channels |-> channels[c], host |-> host, events |-> << >>]}
                   /\ \A k \in 1 .. Len(channels[c]) :
                        upto[k] = UNION {ClosedNext(c, acc, k) : acc \in upto[k - 1]}
                   /\ AllClosed(c) = upto[Len(channels[c])]
<1> DEFINE n == Len(channels[c])
           first == {[channels |-> channels[c], host |-> host, events |-> << >>]}
           Step(g, k) == IF k = 0 THEN first ELSE UNION {ClosedNext(c, acc, k) : acc \in g[k - 1]}
           Rhs(g) == [k \in 0 .. n |-> Step(g, k)]
           f == CHOOSE g : g = Rhs(g)
<1>1. n \in Nat
  BY ListedShape
<1>2. \E g : g = Rhs(g)
  <2> DEFINE Solves(g, m) == g = [k \in 0 .. m |-> Step(g, k)]
             S == {m \in 0 .. n : \E g : Solves(g, m)}
  <2> HIDE DEF first
  <2>1. 0 \in S
    <3> DEFINE g == [k \in 0 .. 0 |-> first]
    <3>1. \A k \in 0 .. 0 : k = 0 /\ Step(g, k) = first
      OBVIOUS
    <3>2. Solves(g, 0)
      <4> HIDE DEF Step
      <4> QED
        BY <3>1
    <3> HIDE DEF Solves, g
    <3> QED
      BY <1>1, <3>2
  <2>2. ASSUME NEW m \in 1 .. n, m - 1 \in S PROVE m \in S
    <3>1. PICK g : Solves(g, m - 1)
      BY <2>2
    <3> DEFINE h == [k \in 0 .. m |-> IF k = m THEN Step(g, m) ELSE g[k]]
    <3>2. \A k \in 0 .. m : Step(h, k) = Step(g, k)
      <4> TAKE k \in 0 .. m
      <4>1. k # 0 => k - 1 \in 0 .. m /\ k - 1 # m
        OBVIOUS
      <4> QED
        BY <4>1
    <3>3. \A k \in 0 .. m : h[k] = Step(g, k)
      <4> SUFFICES ASSUME NEW k \in 0 .. m, k # m PROVE g[k] = Step(g, k)
        OBVIOUS
      <4>1. k \in 0 .. m - 1
        OBVIOUS
      <4> HIDE DEF Step
      <4> QED
        BY <3>1, <4>1
    <3>4. Solves(h, m)
      <4>1. h = [k \in 0 .. m |-> h[k]]
        OBVIOUS
      <4> HIDE DEF Step, h
      <4> QED
        BY <3>2, <3>3, <4>1
    <3> HIDE DEF h, Solves
    <3> QED
      BY <3>4
  <2>3. n \in S
    <3> HIDE DEF S, n
    <3>1. 0 .. n \subseteq S
      BY <1>1, <2>1, <2>2, InductTo
    <3> QED
      BY <1>1, <3>1
  <2> QED
    BY <2>3
<1>3. f = Rhs(f)
  <2> HIDE DEF Rhs
  <2> QED
    BY <1>2
<1>4. AllClosed(c) = f[n]
  BY DEF AllClosed, ClosedNext
<1> HIDE DEF f
<1>5. f[0] = first /\ \A k \in 1 .. n : f[k] = UNION {ClosedNext(c, acc, k) : acc \in f[k - 1]}
  <2>1. Rhs(f)[0] = first
    BY <1>1
  <2>2. ASSUME NEW k \in 1 .. n PROVE Rhs(f)[k] = UNION {ClosedNext(c, acc, k) : acc \in f[k - 1]}
    <3>1. k \in 0 .. n /\ k # 0
      BY <1>1
    <3> QED
      BY <3>1
  <2> HIDE DEF Rhs
  <2> QED
    BY <1>3, <2>1, <2>2
<1> QED
  BY <1>4, <1>5

\* One more answer
TriedNext(c, acc, answer) ==
  IF acc.result # "failed" THEN {acc}
  ELSE {[result |-> r.result, vars |-> r.vars,
         events |-> acc.events \o (IF r.result = "raised" THEN << >>
                                   ELSE Converted("login." \o r.result, answer))] :
          r \in checkUserPass(mode, acc.vars, plan[c].ip, "root", answer)}

\* What one more answer makes of all that may have come before
TriedAfter(c, before, answer) == UNION {TriedNext(c, acc, answer) : acc \in before}

\* Tried goes from one answer to the next.
LEMMA TriedSteps ==
  ASSUME NEW c, NEW visitors, NEW answers, Listed(answers)
  PROVE  \E upto : /\ upto[0] = {[result |-> "failed", vars |-> visitors, events |-> << >>]}
                   /\ \A k \in 1 .. Len(answers) :
                        upto[k] = TriedAfter(c, upto[k - 1], answers[k])
                   /\ Tried(c, visitors, answers) = upto[Len(answers)]
<1> DEFINE n == Len(answers)
           first == {[result |-> "failed", vars |-> visitors, events |-> << >>]}
           Step(g, k) == IF k = 0 THEN first ELSE TriedAfter(c, g[k - 1], answers[k])
           Rhs(g) == [k \in 0 .. n |-> Step(g, k)]
           f == CHOOSE g : g = Rhs(g)
<1>1. n \in Nat
  BY ListedShape
<1>2. \E g : g = Rhs(g)
  <2> DEFINE Solves(g, m) == g = [k \in 0 .. m |-> Step(g, k)]
             S == {m \in 0 .. n : \E g : Solves(g, m)}
  <2> HIDE DEF first
  <2>1. 0 \in S
    <3> DEFINE g == [k \in 0 .. 0 |-> first]
    <3>1. \A k \in 0 .. 0 : k = 0 /\ Step(g, k) = first
      OBVIOUS
    <3>2. Solves(g, 0)
      <4> HIDE DEF Step
      <4> QED
        BY <3>1
    <3> HIDE DEF Solves, g
    <3> QED
      BY <1>1, <3>2
  <2>2. ASSUME NEW m \in 1 .. n, m - 1 \in S PROVE m \in S
    <3>1. PICK g : Solves(g, m - 1)
      BY <2>2
    <3> DEFINE h == [k \in 0 .. m |-> IF k = m THEN Step(g, m) ELSE g[k]]
    <3>2. \A k \in 0 .. m : Step(h, k) = Step(g, k)
      <4> TAKE k \in 0 .. m
      <4>1. k # 0 => k - 1 \in 0 .. m /\ k - 1 # m
        OBVIOUS
      <4> QED
        BY <4>1
    <3>3. \A k \in 0 .. m : h[k] = Step(g, k)
      <4> SUFFICES ASSUME NEW k \in 0 .. m, k # m PROVE g[k] = Step(g, k)
        OBVIOUS
      <4>1. k \in 0 .. m - 1
        OBVIOUS
      <4> HIDE DEF Step
      <4> QED
        BY <3>1, <4>1
    <3>4. Solves(h, m)
      <4>1. h = [k \in 0 .. m |-> h[k]]
        OBVIOUS
      <4> HIDE DEF Step, h
      <4> QED
        BY <3>2, <3>3, <4>1
    <3> HIDE DEF h, Solves
    <3> QED
      BY <3>4
  <2>3. n \in S
    <3> HIDE DEF S, n
    <3>1. 0 .. n \subseteq S
      BY <1>1, <2>1, <2>2, InductTo
    <3> QED
      BY <1>1, <3>1
  <2> QED
    BY <2>3
<1>3. f = Rhs(f)
  <2> HIDE DEF Rhs
  <2> QED
    BY <1>2
<1>4. Tried(c, visitors, answers) = f[n]
  BY DEF Tried, TriedNext, TriedAfter
<1> HIDE DEF f
<1>5. f[0] = first /\ \A k \in 1 .. n : f[k] = TriedAfter(c, f[k - 1], answers[k])
  <2>1. Rhs(f)[0] = first
    BY <1>1
  <2>2. ASSUME NEW k \in 1 .. n PROVE Rhs(f)[k] = TriedAfter(c, f[k - 1], answers[k])
    <3>1. k \in 0 .. n /\ k # 0
      BY <1>1
    <3> QED
      BY <3>1
  <2> HIDE DEF Rhs
  <2> QED
    BY <1>3, <2>1, <2>2
<1> QED
  BY <1>4, <1>5

\* CloseAll goes from one handle to the next.
LEMMA CloseAllSteps ==
  ASSUME NEW s, NEW h, Listed(s.handles)
  PROVE  \E upto : /\ upto[0] = {[s |-> s, host |-> h, err |-> "", uploads |-> 0]}
                   /\ \A k \in 1 .. Len(s.handles) :
                        upto[k] = {CloseNext(acc, k) : acc \in upto[k - 1]}
                   /\ CloseAll(s, h) = upto[Len(s.handles)]
<1> DEFINE n == Len(s.handles)
           first == {[s |-> s, host |-> h, err |-> "", uploads |-> 0]}
           Step(g, k) == IF k = 0 THEN first ELSE {CloseNext(acc, k) : acc \in g[k - 1]}
           Rhs(g) == [k \in 0 .. n |-> Step(g, k)]
           f == CHOOSE g : g = Rhs(g)
<1>1. n \in Nat
  BY ListedShape
<1>2. \E g : g = Rhs(g)
  <2> DEFINE Solves(g, m) == g = [k \in 0 .. m |-> Step(g, k)]
             S == {m \in 0 .. n : \E g : Solves(g, m)}
  <2> HIDE DEF first
  <2>1. 0 \in S
    <3> DEFINE g == [k \in 0 .. 0 |-> first]
    <3>1. \A k \in 0 .. 0 : k = 0 /\ Step(g, k) = first
      OBVIOUS
    <3>2. Solves(g, 0)
      <4> HIDE DEF Step
      <4> QED
        BY <3>1
    <3> HIDE DEF Solves, g
    <3> QED
      BY <1>1, <3>2
  <2>2. ASSUME NEW m \in 1 .. n, m - 1 \in S PROVE m \in S
    <3>1. PICK g : Solves(g, m - 1)
      BY <2>2
    <3> DEFINE g2 == [k \in 0 .. m |-> IF k = m THEN Step(g, m) ELSE g[k]]
    <3>2. \A k \in 0 .. m : Step(g2, k) = Step(g, k)
      <4> TAKE k \in 0 .. m
      <4>1. k # 0 => k - 1 \in 0 .. m /\ k - 1 # m
        OBVIOUS
      <4> QED
        BY <4>1
    <3>3. \A k \in 0 .. m : g2[k] = Step(g, k)
      <4> SUFFICES ASSUME NEW k \in 0 .. m, k # m PROVE g[k] = Step(g, k)
        OBVIOUS
      <4>1. k \in 0 .. m - 1
        OBVIOUS
      <4> HIDE DEF Step
      <4> QED
        BY <3>1, <4>1
    <3>4. Solves(g2, m)
      <4>1. g2 = [k \in 0 .. m |-> g2[k]]
        OBVIOUS
      <4> HIDE DEF Step, g2
      <4> QED
        BY <3>2, <3>3, <4>1
    <3> HIDE DEF g2, Solves
    <3> QED
      BY <3>4
  <2>3. n \in S
    <3> HIDE DEF S, n
    <3>1. 0 .. n \subseteq S
      BY <1>1, <2>1, <2>2, InductTo
    <3> QED
      BY <1>1, <3>1
  <2> QED
    BY <2>3
<1>3. f = Rhs(f)
  <2> HIDE DEF Rhs
  <2> QED
    BY <1>2
<1>4. CloseAll(s, h) = f[n]
  BY DEF CloseAll
<1> HIDE DEF f
<1>5. f[0] = first /\ \A k \in 1 .. n : f[k] = {CloseNext(acc, k) : acc \in f[k - 1]}
  <2>1. Rhs(f)[0] = first
    <3>1. 0 \in 0 .. n
      BY <1>1
    <3> HIDE DEF n, first
    <3> QED
      BY <3>1
  <2>2. ASSUME NEW k \in 1 .. n PROVE Rhs(f)[k] = {CloseNext(acc, k) : acc \in f[k - 1]}
    <3>1. k \in 0 .. n /\ k # 0
      BY <1>1
    <3> QED
      BY <3>1
  <2> HIDE DEF Rhs
  <2> QED
    BY <1>3, <2>1, <2>2
<1> QED
  BY <1>4, <1>5

-----------------------------------------------------------------------------
(* What a request of SFTP may do.                                          *)

\* The fields of an SFTP server
SftpFields == {"tree", "handles", "leaked"}

\* The fields of a handle
HandleFields == {"path", "name", "fd", "count", "wrote", "state"}

\* The shape of what an SFTP channel keeps
SftpOK(s) ==
  /\ DOMAIN s = SftpFields
  /\ Listed(s.handles)
  /\ \A i \in 1 .. Len(s.handles) : DOMAIN s.handles[i] = HandleFields

\* os.open has opened the file of that name, or made it.
HostOpened(h, name, fd, new) ==
  /\ \E path, sec : name = HostFile(path, sec)
  /\ fd # 0
  /\ \/ /\ name \in DOMAIN h.names /\ fd = h.names[name]
        /\ new = h \/ new = [h EXCEPT !.data[fd] = ""]
     \/ /\ name \notin DOMAIN h.names /\ fd = Len(h.data) + 1
        /\ new = [names |-> [n \in DOMAIN h.names \union {name} |-> IF n = name THEN fd ELSE h.names[n]],
                  data |-> Append(h.data, "")]

\* A handle is new, of the file of that name or of none.
HandleOpened(s, h, t, new, name, fd) ==
  /\ t.leaked = s.leaked
  /\ \E path : t.handles = Append(s.handles, Handle(path, name, fd))
  /\ HostOpened(h, name, fd, new) \/ (fd = 0 /\ new = h)

\* fs.open has opened the file and raised.
HandleLeaked(s, h, t, new, name, fd) ==
  /\ t.handles = s.handles /\ t.leaked = s.leaked \union {name}
  /\ HostOpened(h, name, fd, new)

\* One handle is changed, which keeps its file.
HandleChanged(s, t, i) ==
  /\ t.leaked = s.leaked
  /\ i \in 1 .. Len(s.handles) /\ Len(t.handles) = Len(s.handles)
  /\ \A j \in 1 .. Len(s.handles) : j # i => t.handles[j] = s.handles[j]
  /\ t.handles[i].fd = s.handles[i].fd /\ t.handles[i].name = s.handles[i].name
  /\ s.handles[i].state = "open"

\* Handle i counts a write and notes what it could not write.
HandleCounted(s, h, t, new, i) ==
  /\ HandleChanged(s, t, i)
  /\ t.handles[i].state = "open" /\ t.handles[i].wrote = s.handles[i].wrote
  /\ new = h

\* Handle i writes to its file.
HandleWritten(s, h, t, new, i) ==
  /\ HandleChanged(s, t, i)
  /\ t.handles[i].state = "open"
  /\ s.handles[i].fd # 0
  /\ new = [h EXCEPT !.data[s.handles[i].fd] = t.handles[i].wrote]

\* Handle i is closed, and its file moved where there is one.
HandleClosed(s, h, t, new, i) ==
  /\ HandleChanged(s, t, i)
  /\ t.handles[i].state # "open" /\ t.handles[i].wrote = s.handles[i].wrote
  /\ \/ new = h /\ (s.handles[i].fd = 0 \/ s.handles[i].name \notin DOMAIN h.names)
     \/ new = Moved(h, s.handles[i].name) /\ s.handles[i].fd # 0 /\ s.handles[i].name \in DOMAIN h.names

\* What any request may do to a server and to the host, case by case
SftpStep(s, h, t, new) ==
  \/ t.handles = s.handles /\ t.leaked = s.leaked /\ new = h
  \/ \E name, fd : HandleOpened(s, h, t, new, name, fd) \/ HandleLeaked(s, h, t, new, name, fd)
  \/ \E i : HandleCounted(s, h, t, new, i) \/ HandleWritten(s, h, t, new, i) \/ HandleClosed(s, h, t, new, i)

\* The tree of names is not what the handles are known by.
LEMMA TreeOnly ==
  ASSUME NEW s, NEW tree, SftpOK(s)
  PROVE  /\ SftpOK([s EXCEPT !.tree = tree])
         /\ [s EXCEPT !.tree = tree].handles = s.handles
         /\ [s EXCEPT !.tree = tree].leaked = s.leaked
<1> DEFINE t == [s EXCEPT !.tree = tree]
<1>1. DOMAIN t = SftpFields /\ t.handles = s.handles /\ t.leaked = s.leaked
  BY DEF SftpOK, SftpFields
<1> HIDE DEF t
<1> QED
  BY <1>1 DEF SftpOK, t

\* A handle more
WithHandle(s, tree, path, name, fd) ==
  [s EXCEPT !.tree = tree, !.handles = Append(s.handles, Handle(path, name, fd))]

\* A server with one more handle
LEMMA OneMore ==
  ASSUME NEW s, NEW tree, NEW path, NEW name, NEW fd, SftpOK(s)
  PROVE  /\ SftpOK(WithHandle(s, tree, path, name, fd))
         /\ WithHandle(s, tree, path, name, fd).handles = Append(s.handles, Handle(path, name, fd))
         /\ WithHandle(s, tree, path, name, fd).leaked = s.leaked
<1> DEFINE e == Handle(path, name, fd)
           more == Append(s.handles, e)
           t == [s EXCEPT !.tree = tree, !.handles = more]
<1>1. DOMAIN e = HandleFields
  BY DEF Handle, HandleFields
<1> HIDE DEF e
<1>2. /\ Listed(more) /\ Len(more) = Len(s.handles) + 1
      /\ \A i \in 1 .. Len(s.handles) : more[i] = s.handles[i]
      /\ more[Len(s.handles) + 1] = e
  BY ListedAppend DEF SftpOK
<1>3. Len(s.handles) \in Nat
  BY ListedShape DEF SftpOK
<1> HIDE DEF more
<1>4. DOMAIN t = SftpFields /\ t.handles = more /\ t.leaked = s.leaked
  BY DEF SftpOK, SftpFields
<1>5. \A i \in 1 .. Len(more) : DOMAIN more[i] = HandleFields
  <2> TAKE i \in 1 .. Len(more)
  <2>1. i \in 1 .. Len(s.handles) \/ i = Len(s.handles) + 1
    BY <1>2, <1>3
  <2> QED
    BY <1>1, <1>2, <2>1 DEF SftpOK
<1> HIDE DEF t
<1> QED
  BY <1>2, <1>4, <1>5 DEF SftpOK, t, more, e, WithHandle

\* A handle of another kind
LEMMA OneOther ==
  ASSUME NEW s, NEW i, NEW e, SftpOK(s), i \in 1 .. Len(s.handles), DOMAIN e = HandleFields
  PROVE  /\ SftpOK([s EXCEPT !.handles[i] = e])
         /\ [s EXCEPT !.handles[i] = e].leaked = s.leaked
         /\ [s EXCEPT !.handles[i] = e].handles[i] = e
         /\ Len([s EXCEPT !.handles[i] = e].handles) = Len(s.handles)
         /\ \A j \in 1 .. Len(s.handles) : j # i => [s EXCEPT !.handles[i] = e].handles[j] = s.handles[j]
<1> DEFINE hs == [s.handles EXCEPT ![i] = e]
           t == [s EXCEPT !.handles[i] = e]
<1>1. DOMAIN t = SftpFields /\ t.handles = hs /\ t.leaked = s.leaked
  BY DEF SftpOK, SftpFields
<1>2. /\ Listed(hs) /\ Len(hs) = Len(s.handles) /\ hs[i] = e
      /\ \A j \in 1 .. Len(s.handles) : j # i => hs[j] = s.handles[j]
  BY ListedReplaced DEF SftpOK
<1> HIDE DEF hs
<1>3. \A j \in 1 .. Len(hs) : DOMAIN hs[j] = HandleFields
  <2> TAKE j \in 1 .. Len(hs)
  <2>1. CASE j = i
    BY <1>2, <2>1
  <2>2. CASE j # i
    BY <1>2, <2>2 DEF SftpOK
  <2> QED
    BY <2>1, <2>2
<1> HIDE DEF t
<1> QED
  BY <1>1, <1>2, <1>3 DEF SftpOK, t

\* When os.open gives a descriptor it has opened the file of that name.
LEMMA OsOpens ==
  ASSUME NEW h, NEW path, NEW sec, NEW flags, os_open(h, HostFile(path, sec), flags).fd # 0
  PROVE  HostOpened(h, HostFile(path, sec), os_open(h, HostFile(path, sec), flags).fd,
                    os_open(h, HostFile(path, sec), flags).host)
<1> DEFINE name == HostFile(path, sec)
           o == os_open(h, name, flags)
           there == name \in DOMAIN h.names
           both == {"creat", "excl"} \subseteq flags
<1>1. \E p, x : name = HostFile(p, x)
  OBVIOUS
<1> HIDE DEF name
<1>2. CASE there /\ both
  <2>1. o = [host |-> h, fd |-> 0]
    BY <1>2 DEF os_open
  <2> QED
    BY <2>1 DEF name
<1>3. CASE there /\ ~both
  <2> DEFINE new == IF "trunc" \in flags THEN [h EXCEPT !.data[h.names[name]] = ""] ELSE h
  <2>1. o = [host |-> new, fd |-> h.names[name]]
    BY <1>3 DEF os_open
  <2>2. new = h \/ new = [h EXCEPT !.data[h.names[name]] = ""]
    OBVIOUS
  <2> HIDE DEF new
  <2>3. o.host = new /\ o.fd = h.names[name]
    BY <2>1
  <2> HIDE DEF o
  <2>4. o.fd # 0
    BY DEF o, name
  <2>5. HostOpened(h, name, o.fd, o.host)
    BY <1>1, <1>3, <2>2, <2>3, <2>4 DEF HostOpened
  <2> QED
    BY <2>5 DEF o, name
<1>4. CASE ~there /\ "creat" \in flags
  <2> DEFINE fd == Len(h.data) + 1
             new == [names |-> [n \in DOMAIN h.names \union {name} |-> IF n = name THEN fd ELSE h.names[n]],
                     data |-> Append(h.data, "")]
  <2>1. o = [host |-> new, fd |-> fd]
    BY <1>4 DEF os_open
  <2> HIDE DEF new, fd
  <2>2. o.host = new /\ o.fd = fd
    BY <2>1
  <2> HIDE DEF o
  <2>3. o.fd # 0
    BY DEF o, name
  <2>4. HostOpened(h, name, o.fd, o.host)
    BY <1>1, <1>4, <2>2, <2>3 DEF HostOpened, new, fd
  <2> QED
    BY <2>4 DEF o, name
<1>5. CASE ~there /\ "creat" \notin flags
  <2>1. o = [host |-> h, fd |-> 0]
    BY <1>5 DEF os_open
  <2> QED
    BY <2>1 DEF name
<1> QED
  BY <1>2, <1>3, <1>4, <1>5

\* Nothing happens but to the tree.
LEMMA QuietStep ==
  ASSUME NEW s, NEW h, NEW tree, NEW err, SftpOK(s)
  PROVE  /\ SftpOK(Gives([s EXCEPT !.tree = tree], h, err).s)
         /\ SftpStep(s, h, Gives([s EXCEPT !.tree = tree], h, err).s, Gives([s EXCEPT !.tree = tree], h, err).host)
<1> DEFINE t == [s EXCEPT !.tree = tree]
<1>1. SftpOK(t)
  BY TreeOnly
<1>2. t.handles = s.handles
  BY TreeOnly
<1>3. t.leaked = s.leaked
  BY TreeOnly
<1> HIDE DEF t
<1>4. Gives(t, h, err).s = t /\ Gives(t, h, err).host = h
  BY DEF Gives
<1>5. SftpStep(s, h, t, h)
  BY <1>2, <1>3 DEF SftpStep
<1> QED
  BY <1>1, <1>4, <1>5 DEF t

\* A request that is refused changes nothing.
LEMMA RefusedStep ==
  ASSUME NEW s, NEW h, NEW err, SftpOK(s)
  PROVE  /\ SftpOK(Gives(s, h, err).s)
         /\ SftpStep(s, h, Gives(s, h, err).s, Gives(s, h, err).host)
  BY DEF Gives, SftpStep

\* fs.open
LEMMA OpenStep ==
  ASSUME NEW s, NEW h, NEW path, NEW flags, NEW sec, SftpOK(s)
  PROVE  /\ SftpOK(open(s, h, path, flags, sec).s)
         /\ SftpStep(s, h, open(s, h, path, flags, sec).s, open(s, h, path, flags, sec).host)
<1> DEFINE name == HostFile(path, sec)
           made == mkfile(s.tree, path)
           opened == os_open(h, name, flags)
           linked == update_realfile(made.tree, getfile(made.tree, path, TRUE), name, DOMAIN opened.host.names)
           r == open(s, h, path, flags, sec)
<1>1. opened.fd # 0 => HostOpened(h, name, opened.fd, opened.host)
  BY OsOpens
<1>2. r = IF made.err # "" THEN Gives(s, h, made.err)
          ELSE IF opened.fd = 0 THEN Gives([s EXCEPT !.tree = made.tree], h, "OSError")
          ELSE IF linked.err # ""
          THEN Gives([s EXCEPT !.tree = made.tree, !.leaked = s.leaked \union {name}], opened.host, linked.err)
          ELSE Gives([s EXCEPT !.tree = linked.tree, !.handles = Append(s.handles, Handle(path, name, opened.fd))],
                     opened.host, "")
  BY DEF open
<1> HIDE DEF name, made, opened, linked, r
<1>3. CASE made.err # ""
  <2>1. r = Gives(s, h, made.err)
    BY <1>2, <1>3
  <2> QED
    BY <2>1, RefusedStep DEF r
<1>4. CASE made.err = "" /\ opened.fd = 0
  <2>1. r = Gives([s EXCEPT !.tree = made.tree], h, "OSError")
    BY <1>2, <1>4
  <2> QED
    BY <2>1, QuietStep DEF r
<1>5. CASE made.err = "" /\ opened.fd # 0 /\ linked.err # ""
  <2> DEFINE t == [s EXCEPT !.tree = made.tree, !.leaked = s.leaked \union {name}]
  <2>1. r = Gives(t, opened.host, linked.err)
    BY <1>2, <1>5
  <2>2. DOMAIN t = SftpFields /\ t.handles = s.handles /\ t.leaked = s.leaked \union {name}
    BY DEF SftpOK, SftpFields
  <2> HIDE DEF t
  <2>3. SftpOK(t)
    BY <2>2 DEF SftpOK
  <2>4. HandleLeaked(s, h, t, opened.host, name, opened.fd)
    BY <1>1, <1>5, <2>2 DEF HandleLeaked
  <2>5. SftpStep(s, h, t, opened.host)
    BY <2>4 DEF SftpStep
  <2>6. r.s = t /\ r.host = opened.host
    BY <2>1 DEF Gives
  <2> QED
    BY <2>3, <2>5, <2>6 DEF r
<1>6. CASE made.err = "" /\ opened.fd # 0 /\ linked.err = ""
  <2> DEFINE fd == opened.fd
             t == WithHandle(s, linked.tree, path, name, fd)
  <2>1. r = Gives(t, opened.host, "")
    BY <1>2, <1>6 DEF WithHandle
  <2> HIDE DEF fd
  <2>2. SftpOK(t)
    BY OneMore
  <2>3. t.handles = Append(s.handles, Handle(path, name, fd))
    BY OneMore
  <2>4. t.leaked = s.leaked
    BY OneMore
  <2> HIDE DEF t
  <2>5. HandleOpened(s, h, t, opened.host, name, fd)
    BY <1>1, <1>6, <2>3, <2>4 DEF HandleOpened, fd
  <2>6. SftpStep(s, h, t, opened.host)
    BY <2>5 DEF SftpStep
  <2>7. r.s = t /\ r.host = opened.host
    BY <2>1 DEF Gives
  <2> QED
    BY <2>2, <2>6, <2>7 DEF r
<1> QED
  BY <1>3, <1>4, <1>5, <1>6

\* openFile
LEMMA OpenFileStep ==
  ASSUME NEW s, NEW h, NEW path, NEW flags, NEW sec, SftpOK(s)
  PROVE  /\ SftpOK(openFile(s, h, path, flags, sec).s)
         /\ SftpStep(s, h, openFile(s, h, path, flags, sec).s, openFile(s, h, path, flags, sec).host)
<1> DEFINE r == openFile(s, h, path, flags, sec)
           f == getfile(s.tree, path, TRUE)
<1>1. CASE "write" \in flags
  <2>1. r = open(s, h, path, flags, sec)
    BY <1>1 DEF openFile
  <2> QED
    BY <2>1, OpenStep
<1>2. CASE "write" \notin flags /\ (f = Missing \/ s.tree.node[f].type = "dir")
  <2>1. r = Gives(s, h, "FileNotFound") \/ r = Gives(s, h, "OSError")
    BY <1>2 DEF openFile
  <2> QED
    BY <2>1, RefusedStep
<1>3. CASE "write" \notin flags /\ f # Missing /\ s.tree.node[f].type # "dir"
  <2> DEFINE t == WithHandle(s, s.tree, path, NoFile, 0)
  <2>1. r = Gives([s EXCEPT !.handles = Append(s.handles, Handle(path, NoFile, 0))], h, "")
    BY <1>3 DEF openFile
  <2>2. t = [s EXCEPT !.handles = Append(s.handles, Handle(path, NoFile, 0))]
    BY DEF SftpOK, SftpFields, WithHandle
  <2>3. SftpOK(t)
    BY OneMore
  <2>4. t.handles = Append(s.handles, Handle(path, NoFile, 0))
    BY OneMore
  <2>5. t.leaked = s.leaked
    BY OneMore
  <2> HIDE DEF t, r
  <2>6. HandleOpened(s, h, t, h, NoFile, 0)
    BY <2>4, <2>5 DEF HandleOpened
  <2>7. SftpStep(s, h, t, h)
    BY <2>6 DEF SftpStep
  <2>8. r.s = t /\ r.host = h
    BY <2>1, <2>2 DEF Gives
  <2> QED
    BY <2>3, <2>7, <2>8 DEF r
<1> QED
  BY <1>1, <1>2, <1>3

\* writeChunk
LEMMA WriteStep ==
  ASSUME NEW s, NEW h, NEW i, NEW data, SftpOK(s), i \in 1 .. Len(s.handles), s.handles[i].state = "open"
  PROVE  /\ SftpOK(writeChunk(s, h, i, data).s)
         /\ SftpStep(s, h, writeChunk(s, h, i, data).s, writeChunk(s, h, i, data).host)
<1> DEFINE old == s.handles[i]
           counted == [old EXCEPT !.count = old.count + 1]
           u == [s EXCEPT !.handles[i] = counted]
           written == [counted EXCEPT !.wrote = data]
           w == [u EXCEPT !.handles[i] = written]
           r == writeChunk(s, h, i, data)
<1>1. /\ DOMAIN counted = HandleFields
      /\ counted.fd = old.fd /\ counted.name = old.name /\ counted.state = old.state /\ counted.wrote = old.wrote
  BY DEF SftpOK, HandleFields
<1> HIDE DEF counted
<1>2. SftpOK(u)
  BY <1>1, OneOther
<1>3. u.leaked = s.leaked /\ u.handles[i] = counted /\ Len(u.handles) = Len(s.handles)
  BY <1>1, OneOther
<1>4. \A j \in 1 .. Len(s.handles) : j # i => u.handles[j] = s.handles[j]
  BY <1>1, OneOther
<1>5. /\ DOMAIN written = HandleFields
      /\ written.fd = old.fd /\ written.name = old.name /\ written.state = old.state /\ written.wrote = data
  BY <1>1 DEF HandleFields
<1>6. r = IF UploadLimit # 0 /\ u.handles[i].count > UploadLimit THEN Gives(u, h, "SFTPError")
          ELSE IF old.fd = 0 THEN Gives(u, h, "TypeError")
          ELSE Gives([u EXCEPT !.handles[i].wrote = data], [h EXCEPT !.data[old.fd] = data], "")
  BY DEF writeChunk, counted
<1> HIDE DEF u, written, r
<1>7. CASE r = Gives(u, h, "SFTPError") \/ r = Gives(u, h, "TypeError")
  <2>1. r.s = u /\ r.host = h
    BY <1>7 DEF Gives
  <2>2. HandleChanged(s, u, i)
    BY <1>1, <1>3, <1>4 DEF HandleChanged
  <2>3. HandleCounted(s, h, u, h, i)
    BY <1>1, <1>3, <2>2 DEF HandleCounted
  <2>4. SftpStep(s, h, u, h)
    BY <2>3 DEF SftpStep
  <2> QED
    BY <1>2, <2>1, <2>4 DEF r
<1>8. CASE old.fd # 0 /\ r = Gives([u EXCEPT !.handles[i].wrote = data], [h EXCEPT !.data[old.fd] = data], "")
  <2>1. [u EXCEPT !.handles[i].wrote = data] = w
    BY <1>3 DEF written
  <2>2. i \in 1 .. Len(u.handles)
    BY <1>3
  <2>3. SftpOK(w)
    BY <1>2, <1>5, <2>2, OneOther
  <2>4. w.leaked = u.leaked /\ w.handles[i] = written /\ Len(w.handles) = Len(u.handles)
    BY <1>2, <1>5, <2>2, OneOther
  <2>5. \A j \in 1 .. Len(u.handles) : j # i => w.handles[j] = u.handles[j]
    BY <1>2, <1>5, <2>2, OneOther
  <2> HIDE DEF w
  <2>6. HandleChanged(s, w, i)
    BY <1>3, <1>4, <1>5, <2>4, <2>5 DEF HandleChanged
  <2> DEFINE new == [h EXCEPT !.data[old.fd] = data]
  <2>7. r.s = w /\ r.host = new
    BY <1>8, <2>1 DEF Gives
  <2>8. HandleWritten(s, h, w, new, i)
    BY <1>5, <1>8, <2>4, <2>6 DEF HandleWritten
  <2> HIDE DEF new
  <2>9. SftpStep(s, h, w, new)
    BY <2>8 DEF SftpStep
  <2> QED
    BY <2>3, <2>7, <2>9 DEF r
<1> QED
  BY <1>6, <1>7, <1>8

\* close
LEMMA CloseStep ==
  ASSUME NEW s, NEW h, NEW i, SftpOK(s), i \in 1 .. Len(s.handles), s.handles[i].state = "open"
  PROVE  /\ SftpOK(close(s, h, i).s)
         /\ SftpStep(s, h, close(s, h, i).s, close(s, h, i).host)
         /\ close(s, h, i).uploaded \in BOOLEAN
         /\ Len(close(s, h, i).s.handles) = Len(s.handles)
<1> DEFINE old == s.handles[i]
           ends(state) == [s EXCEPT !.handles[i].state = state]
           moved == Moved(h, old.name)
           linked == update_realfile(s.tree, getfile(s.tree, old.path, TRUE),
                                     Sha(Contents(h, old.name)), DOMAIN moved.names)
           r == close(s, h, i)
<1>1. r = IF old.fd = 0 THEN Gives(ends("closed"), h, "")
          ELSE IF old.name \notin DOMAIN h.names THEN Gives(ends("leaked"), h, "IOError")
          ELSE IF linked.err # "" THEN Gives(ends("leaked"), moved, linked.err)
          ELSE [Gives([ends("closed") EXCEPT !.tree = linked.tree], moved, "") EXCEPT !.uploaded = TRUE]
  BY DEF close
<1>2. ASSUME NEW state, state # "open"
      PROVE  /\ SftpOK(ends(state)) /\ HandleChanged(s, ends(state), i)
             /\ Len(ends(state).handles) = Len(s.handles)
             /\ ends(state).handles[i].state # "open" /\ ends(state).handles[i].wrote = old.wrote
  <2> DEFINE e == [old EXCEPT !.state = state]
             t == [s EXCEPT !.handles[i] = e]
  <2>1. DOMAIN e = HandleFields /\ e.fd = old.fd /\ e.name = old.name /\ e.state = state /\ e.wrote = old.wrote
    BY DEF SftpOK, HandleFields
  <2>2. ends(state) = t
    OBVIOUS
  <2> HIDE DEF e, ends
  <2>3. SftpOK(t)
    BY <2>1, OneOther
  <2>4. t.leaked = s.leaked /\ t.handles[i] = e /\ Len(t.handles) = Len(s.handles)
    BY <2>1, OneOther
  <2>5. \A j \in 1 .. Len(s.handles) : j # i => t.handles[j] = s.handles[j]
    BY <2>1, OneOther
  <2> HIDE DEF t
  <2>6. HandleChanged(s, t, i)
    BY <2>1, <2>4, <2>5 DEF HandleChanged
  <2> QED
    BY <1>2, <2>1, <2>2, <2>3, <2>4, <2>6
<1> HIDE DEF ends, moved, linked, r
<1>3. CASE old.fd = 0
  <2>1. r = Gives(ends("closed"), h, "")
    BY <1>1, <1>3
  <2>2. r.s = ends("closed") /\ r.host = h /\ r.uploaded = FALSE
    BY <2>1 DEF Gives
  <2>3. HandleClosed(s, h, ends("closed"), h, i)
    BY <1>2, <1>3 DEF HandleClosed
  <2>4. SftpStep(s, h, ends("closed"), h)
    BY <2>3 DEF SftpStep
  <2>5. SftpOK(ends("closed")) /\ Len(ends("closed").handles) = Len(s.handles)
    BY <1>2
  <2> QED
    BY <2>2, <2>4, <2>5 DEF r
<1>4. CASE old.fd # 0 /\ old.name \notin DOMAIN h.names
  <2>1. r = Gives(ends("leaked"), h, "IOError")
    BY <1>1, <1>4
  <2>2. r.s = ends("leaked") /\ r.host = h /\ r.uploaded = FALSE
    BY <2>1 DEF Gives
  <2>3. HandleClosed(s, h, ends("leaked"), h, i)
    BY <1>2, <1>4 DEF HandleClosed
  <2>4. SftpStep(s, h, ends("leaked"), h)
    BY <2>3 DEF SftpStep
  <2>5. SftpOK(ends("leaked")) /\ Len(ends("leaked").handles) = Len(s.handles)
    BY <1>2
  <2> QED
    BY <2>2, <2>4, <2>5 DEF r
<1>5. CASE old.fd # 0 /\ old.name \in DOMAIN h.names /\ linked.err # ""
  <2>1. r = Gives(ends("leaked"), moved, linked.err)
    BY <1>1, <1>5
  <2>2. r.s = ends("leaked") /\ r.host = moved /\ r.uploaded = FALSE
    BY <2>1 DEF Gives
  <2>3. HandleClosed(s, h, ends("leaked"), moved, i)
    BY <1>2, <1>5 DEF HandleClosed, moved
  <2>4. SftpStep(s, h, ends("leaked"), moved)
    BY <2>3 DEF SftpStep
  <2>5. SftpOK(ends("leaked")) /\ Len(ends("leaked").handles) = Len(s.handles)
    BY <1>2
  <2> QED
    BY <2>2, <2>4, <2>5 DEF r
<1>6. CASE old.fd # 0 /\ old.name \in DOMAIN h.names /\ linked.err = ""
  <2> DEFINE c == ends("closed")
             t == [c EXCEPT !.tree = linked.tree]
  <2>1. r = [Gives(t, moved, "") EXCEPT !.uploaded = TRUE]
    BY <1>1, <1>6
  <2>2. SftpOK(c) /\ HandleChanged(s, c, i) /\ Len(c.handles) = Len(s.handles)
        /\ c.handles[i].state # "open" /\ c.handles[i].wrote = old.wrote
    BY <1>2
  <2> HIDE DEF c
  <2>3. SftpOK(t)
    BY <2>2, TreeOnly
  <2>4. t.handles = c.handles
    BY <2>2, TreeOnly
  <2>5. t.leaked = c.leaked
    BY <2>2, TreeOnly
  <2> HIDE DEF t
  <2>6. r.s = t /\ r.host = moved /\ r.uploaded = TRUE
    BY <2>1 DEF Gives
  <2>7. HandleClosed(s, h, t, moved, i)
    BY <1>6, <2>2, <2>4, <2>5 DEF HandleClosed, HandleChanged, moved
  <2>8. SftpStep(s, h, t, moved)
    BY <2>7 DEF SftpStep
  <2> QED
    BY <2>2, <2>3, <2>4, <2>6, <2>8 DEF r
<1> QED
  BY <1>3, <1>4, <1>5, <1>6

\* The requests on names alone
LEMMA NamesStep ==
  ASSUME NEW s, NEW h, NEW m, SftpOK(s)
  PROVE  SftpOK(OnNames(s, h, m).s) /\ SftpStep(s, h, OnNames(s, h, m).s, OnNames(s, h, m).host)
<1> DEFINE x == CASE m.do = "remove" -> remove(s.tree, m.path)
                  [] m.do = "rename" -> rename(s.tree, m.path, m.to)
                  [] m.do = "mkdir"  -> mkdir2(s.tree, m.path)
                  [] m.do = "rmdir"  -> rmdir(s.tree, m.path)
<1>1. OnNames(s, h, m) = Gives([s EXCEPT !.tree = x.tree], h, x.err)
  BY DEF OnNames
<1> HIDE DEF x
<1> QED
  BY <1>1, QuietStep

\* A request does one of the things an SFTP server may do.
LEMMA RequestStep ==
  ASSUME NEW s, NEW h, NEW m, NEW sec, SftpOK(s)
  PROVE  SftpOK(Request(s, h, m, sec).s) /\ SftpStep(s, h, Request(s, h, m, sec).s, Request(s, h, m, sec).host)
<1> DEFINE r == Request(s, h, m, sec)
<1>1. DOMAIN s.handles = 1 .. Len(s.handles)
  BY ListedShape DEF SftpOK
<1>2. CASE m.do = "open"
  <2>1. r = openFile(s, h, m.path, m.flags, sec)
    BY <1>2 DEF Request
  <2> QED
    BY <2>1, OpenFileStep
<1>3. CASE m.do \in {"write", "close"} /\ (m.h \notin DOMAIN s.handles \/ s.handles[m.h].state # "open")
  <2>1. r = Gives(s, h, "KeyError")
    BY <1>3 DEF Request
  <2> QED
    BY <2>1, RefusedStep
<1>4. CASE m.do = "write" /\ m.h \in DOMAIN s.handles /\ s.handles[m.h].state = "open"
  <2>1. r = writeChunk(s, h, m.h, m.data)
    BY <1>4 DEF Request
  <2> QED
    BY <1>1, <1>4, <2>1, WriteStep
<1>5. CASE m.do = "close" /\ m.h \in DOMAIN s.handles /\ s.handles[m.h].state = "open"
  <2>1. r = close(s, h, m.h)
    BY <1>5 DEF Request
  <2> QED
    BY <1>1, <1>5, <2>1, CloseStep
<1>6. CASE m.do \notin {"open", "write", "close"}
  <2>1. r = OnNames(s, h, m)
    BY <1>6 DEF Request
  <2> QED
    BY <2>1, NamesStep
<1> QED
  BY <1>2, <1>3, <1>4, <1>5, <1>6

\* So does connectionLost for each of the handles.
LEMMA CloseNextStep ==
  ASSUME NEW acc, NEW i, SftpOK(acc.s), i \in 1 .. Len(acc.s.handles), acc.uploads \in Nat
  PROVE  /\ SftpOK(CloseNext(acc, i).s)
         /\ SftpStep(acc.s, acc.host, CloseNext(acc, i).s, CloseNext(acc, i).host)
         /\ CloseNext(acc, i).uploads \in Nat
         /\ Len(CloseNext(acc, i).s.handles) = Len(acc.s.handles)
<1>1. CASE acc.err # "" \/ acc.s.handles[i].state # "open"
  <2>1. CloseNext(acc, i) = acc
    BY <1>1 DEF CloseNext
  <2> QED
    BY <2>1 DEF SftpStep
<1>2. CASE acc.err = "" /\ acc.s.handles[i].state = "open"
  <2> DEFINE r == close(acc.s, acc.host, i)
             up1 == acc.uploads + (IF r.uploaded THEN 1 ELSE 0)
  <2>1. CloseNext(acc, i) = [s |-> r.s, host |-> r.host, err |-> r.err, uploads |-> up1]
    BY <1>2 DEF CloseNext
  <2>2. SftpOK(r.s)
    BY <1>2, CloseStep
  <2>3. SftpStep(acc.s, acc.host, r.s, r.host)
    BY <1>2, CloseStep
  <2>4. Len(r.s.handles) = Len(acc.s.handles)
    BY <1>2, CloseStep
  <2> HIDE DEF r
  <2>5. up1 \in Nat
    OBVIOUS
  <2> HIDE DEF up1
  <2> QED
    BY <2>1, <2>2, <2>3, <2>4, <2>5
<1> QED
  BY <1>1, <1>2

\* Closing whatever is open leaves a server as it should be.
LEMMA CloseAllOK ==
  ASSUME NEW s, NEW h, NEW r \in CloseAll(s, h), SftpOK(s)
  PROVE  SftpOK(r.s) /\ r.uploads \in Nat
<1> DEFINE n == Len(s.handles)
<1>1. n \in Nat
  BY ListedShape DEF SftpOK
<1>2. PICK upto : /\ upto[0] = {[s |-> s, host |-> h, err |-> "", uploads |-> 0]}
                  /\ \A k \in 1 .. n : upto[k] = {CloseNext(acc, k) : acc \in upto[k - 1]}
                  /\ CloseAll(s, h) = upto[n]
  BY CloseAllSteps DEF SftpOK
<1> DEFINE Good(acc) == SftpOK(acc.s) /\ acc.uploads \in Nat /\ Len(acc.s.handles) = n
           S == {k \in 0 .. n : \A acc \in upto[k] : Good(acc)}
<1>3. 0 \in S
  <2> DEFINE first == [s |-> s, host |-> h, err |-> "", uploads |-> 0]
  <2>1. Good(first)
    OBVIOUS
  <2> HIDE DEF first, Good
  <2>2. upto[0] = {first}
    BY <1>2 DEF first
  <2> QED
    BY <1>1, <2>1, <2>2
<1>4. ASSUME NEW k \in 1 .. n, k - 1 \in S PROVE k \in S
  <2>1. ASSUME NEW more \in upto[k] PROVE Good(more)
    <3>1. PICK acc \in upto[k - 1] : more = CloseNext(acc, k)
      BY <1>2, <2>1
    <3>2. Good(acc)
      BY <1>4, <3>1
    <3> QED
      BY <3>1, <3>2, CloseNextStep
  <2> QED
    BY <1>1, <2>1
<1>5. n \in S
  <2> HIDE DEF S, n
  <2>1. 0 .. n \subseteq S
    BY <1>1, <1>3, <1>4, InductTo
  <2> QED
    BY <1>1, <2>1
<1> QED
  BY <1>2, <1>5

-----------------------------------------------------------------------------
(* Channels and their logs.                                                *)

\* The fields of a channel
ChannelFields == {"kind", "there", "sent", "runs", "logs", "client", "sftp"}

\* The fields of a log
LogFields == {"open", "closes", "timer", "stdin", "replaced", "fetch"}

\* A log of a channel which is there or not; last: no protocol came after its own
LogOK(ttylog, l, there, last) ==
  /\ DOMAIN l = LogFields
  /\ l.replaced = ~last
  /\ l.closes = IF last /\ ttylog /\ ~there THEN 1 ELSE 0
  /\ last => l.open = (ttylog /\ there)

\* Nothing was opened.
SftpIdle(s) == s.handles = << >> /\ s.leaked = {}

\* A channel: only a terminal has logs, and only SFTP has handles.
ChannelOK(ttylog, ch) ==
  /\ DOMAIN ch = ChannelFields
  /\ ch.there \in BOOLEAN
  /\ ch.runs \in {"nothing", "terminal", "sftp"}
  /\ Listed(ch.logs)
  /\ ch.client \in 0 .. Len(ch.logs)
  /\ ch.runs = "terminal" <=> ch.logs # << >>
  /\ \A i \in 1 .. Len(ch.logs) : LogOK(ttylog, ch.logs[i], ch.there, i = Len(ch.logs))
  /\ SftpOK(ch.sftp)
  /\ ch.runs # "sftp" => SftpIdle(ch.sftp)

\* A log of a channel is changed in what the invariant leaves open.
LEMMA LogChanged ==
  ASSUME NEW ttylog, NEW ch, NEW i \in 1 .. Len(ch.logs), NEW l, ChannelOK(ttylog, ch),
         LogOK(ttylog, l, ch.there, i = Len(ch.logs))
  PROVE  /\ ChannelOK(ttylog, [ch EXCEPT !.logs[i] = l])
         /\ [ch EXCEPT !.logs[i] = l].there = ch.there
<1> DEFINE new == [ch EXCEPT !.logs[i] = l]
           logs == [ch.logs EXCEPT ![i] = l]
<1>1. /\ DOMAIN new = ChannelFields
      /\ new.there = ch.there /\ new.runs = ch.runs /\ new.logs = logs /\ new.client = ch.client
  BY DEF ChannelOK, ChannelFields
<1>2. Listed(ch.logs) /\ Len(ch.logs) \in Nat
  BY ListedShape DEF ChannelOK
<1>3. /\ Listed(logs) /\ Len(logs) = Len(ch.logs) /\ logs[i] = l
      /\ \A j \in 1 .. Len(ch.logs) : j # i => logs[j] = ch.logs[j]
  <2> DEFINE s == ch.logs
  <2>1. Listed(s) /\ i \in 1 .. Len(s)
    BY <1>2
  <2> HIDE DEF s
  <2>2. /\ Listed([s EXCEPT ![i] = l]) /\ Len([s EXCEPT ![i] = l]) = Len(s) /\ [s EXCEPT ![i] = l][i] = l
        /\ \A j \in 1 .. Len(s) : j # i => [s EXCEPT ![i] = l][j] = s[j]
    BY <2>1, ListedReplaced
  <2> QED
    BY <2>2 DEF s
<1>4. logs # << >>
  BY <1>2, <1>3, ListedNone
<1>5. ch.logs # << >>
  BY <1>2, ListedNone
<1>6. \A j \in 1 .. Len(logs) : LogOK(ttylog, logs[j], ch.there, j = Len(logs))
  <2> TAKE j \in 1 .. Len(logs)
  <2>1. CASE j = i
    BY <1>3, <2>1
  <2>2. CASE j # i
    BY <1>3, <2>2 DEF ChannelOK
  <2> QED
    BY <2>1, <2>2
<1> HIDE DEF new, logs
<1> QED
  BY <1>1, <1>3, <1>4, <1>5, <1>6 DEF ChannelOK, new

\* loseConnection of a channel
LEMMA ChannelLost ==
  ASSUME NEW ttylog, NEW ch, ChannelOK(ttylog, ch)
  PROVE  ChannelOK(ttylog, LoseChannel(ch)) /\ LoseChannel(ch).there = ch.there
         /\ LoseChannel(ch).logs = ch.logs /\ LoseChannel(ch).runs = ch.runs
         /\ LoseChannel(ch).sftp = ch.sftp
<1> DEFINE new == LoseChannel(ch)
<1>1. /\ DOMAIN new = ChannelFields
      /\ new.there = ch.there /\ new.runs = ch.runs /\ new.logs = ch.logs /\ new.sftp = ch.sftp
      /\ new.client = ch.client
  BY DEF ChannelOK, ChannelFields, LoseChannel
<1> HIDE DEF new
<1> QED
  BY <1>1 DEF ChannelOK, new

\* Before anything is opened
LEMMA SftpFresh ==
  /\ SftpOK(NoSftp) /\ SftpIdle(NoSftp)
  /\ SftpOK([NoSftp EXCEPT !.tree = Tree]) /\ SftpIdle([NoSftp EXCEPT !.tree = Tree])
<1>1. Listed(<< >>) /\ Len(<< >>) = 0
  BY ListedEmpty
<1> DEFINE s == [NoSftp EXCEPT !.tree = Tree]
<1>2. /\ DOMAIN NoSftp = SftpFields /\ NoSftp.handles = << >> /\ NoSftp.leaked = {}
  BY DEF NoSftp, SftpFields
<1>3. /\ DOMAIN s = SftpFields /\ s.handles = << >> /\ s.leaked = {}
  BY DEF NoSftp, SftpFields
<1> HIDE DEF s
<1> QED
  BY <1>1, <1>2, <1>3 DEF SftpOK, SftpIdle, s

\* A channel that is open runs nothing yet.
LEMMA ChannelFresh ==
  ASSUME NEW ttylog, NEW kind
  PROVE  ChannelOK(ttylog, Channel(kind)) /\ Channel(kind).there = TRUE
<1>1. Listed(<< >>) /\ Len(<< >>) = 0
  BY ListedEmpty
<1>2. SftpOK(NoSftp) /\ SftpIdle(NoSftp)
  BY SftpFresh
<1> DEFINE ch == Channel(kind)
<1>3. /\ DOMAIN ch = ChannelFields /\ ch.there = TRUE /\ ch.runs = "nothing" /\ ch.logs = << >>
      /\ ch.sftp = NoSftp /\ ch.client = 0
  BY DEF Channel, ChannelFields
<1> HIDE DEF ch
<1>4. (\A i \in 1 .. Len(ch.logs) : FALSE) /\ ch.client \in 0 .. Len(ch.logs)
  <2>1. Len(ch.logs) = 0
    BY <1>1, <1>3
  <2> QED
    BY <1>3, <2>1
<1> QED
  BY <1>1, <1>2, <1>3, <1>4 DEF ChannelOK, ch

\* A protocol takes the place of the last one, if there is one.
Startable(ttylog, ch) ==
  /\ DOMAIN ch = ChannelFields /\ ch.there = TRUE
  /\ Listed(ch.logs)
  /\ ch.client \in 0 .. Len(ch.logs)
  /\ \A i \in 1 .. Len(ch.logs) : LogOK(ttylog, ch.logs[i], TRUE, i = Len(ch.logs))
  /\ SftpOK(ch.sftp) /\ SftpIdle(ch.sftp)

\* A protocol started on a channel
LEMMA ChannelStarted ==
  ASSUME NEW ch, NEW log, NEW raised, LogOK(mode.ttylog, log, TRUE, TRUE), Startable(mode.ttylog, ch)
  PROVE  ChannelOK(mode.ttylog, Started(ch, log, raised))
<1> DEFINE old == [i \in DOMAIN ch.logs |-> [ch.logs[i] EXCEPT !.replaced = TRUE]]
           logs == Append(old, log)
           to == IF raised THEN ch.client ELSE Len(ch.logs) + 1
           new == [ch EXCEPT !.runs = "terminal", !.logs = logs, !.client = to]
<1>1. /\ DOMAIN ch = ChannelFields /\ ch.there = TRUE
      /\ Listed(ch.logs)
      /\ \A i \in 1 .. Len(ch.logs) : LogOK(mode.ttylog, ch.logs[i], TRUE, i = Len(ch.logs))
  BY DEF Startable
<1>2. Len(ch.logs) \in Nat /\ DOMAIN ch.logs = 1 .. Len(ch.logs)
  BY <1>1, ListedShape
<1>3. Listed(old) /\ Len(old) = Len(ch.logs)
  BY <1>2, ListedFunction
<1>4. \A i \in 1 .. Len(ch.logs) : LogOK(mode.ttylog, old[i], TRUE, FALSE)
  <2> SUFFICES ASSUME NEW i \in 1 .. Len(ch.logs) PROVE LogOK(mode.ttylog, old[i], TRUE, FALSE)
    OBVIOUS
  <2>1. old[i] = [ch.logs[i] EXCEPT !.replaced = TRUE]
    BY <1>2
  <2>2. LogOK(mode.ttylog, ch.logs[i], TRUE, i = Len(ch.logs))
    BY <1>1
  <2> QED
    <3> DEFINE l == ch.logs[i]
    <3>1. DOMAIN l = LogFields /\ l.closes = 0
      BY <2>2 DEF LogOK
    <3>2. DOMAIN old[i] = LogFields /\ old[i].replaced = TRUE /\ old[i].closes = l.closes
      BY <2>1, <3>1 DEF LogFields
    <3> QED
      BY <3>1, <3>2 DEF LogOK
<1>5. to \in 0 .. Len(ch.logs) + 1
  BY <1>2 DEF Startable
<1>6. /\ Listed(logs) /\ Len(logs) = Len(old) + 1 /\ logs[Len(old) + 1] = log
      /\ \A i \in 1 .. Len(old) : logs[i] = old[i]
  <2> HIDE DEF old
  <2> QED
    BY <1>3, ListedAppend
<1>7. /\ DOMAIN new = ChannelFields /\ new.there = TRUE /\ new.runs = "terminal" /\ new.logs = logs
      /\ new.sftp = ch.sftp /\ new.client = to
  <2> HIDE DEF logs, to
  <2> QED
    BY <1>1 DEF ChannelFields
<1> HIDE DEF old, logs, to
<1>8. logs # << >>
  BY <1>2, <1>3, <1>6, ListedNone
<1>9. \A i \in 1 .. Len(logs) : LogOK(mode.ttylog, logs[i], TRUE, i = Len(logs))
  <2> SUFFICES ASSUME NEW i \in 1 .. Len(logs) PROVE LogOK(mode.ttylog, logs[i], TRUE, i = Len(logs))
    OBVIOUS
  <2>1. CASE i = Len(old) + 1
    BY <1>6, <2>1
  <2>2. CASE i # Len(old) + 1
    <3>1. i \in 1 .. Len(old) /\ i # Len(logs)
      BY <1>2, <1>3, <1>6, <2>2
    <3> QED
      BY <1>3, <1>4, <1>6, <3>1
  <2> QED
    BY <2>1, <2>2
<1>10. ChannelOK(mode.ttylog, new) /\ new.there = TRUE
  <2> HIDE DEF new
  <2> QED
    BY <1>3, <1>5, <1>6, <1>7, <1>8, <1>9 DEF ChannelOK, Startable
<1>11. Started(ch, log, raised) = new
  BY DEF Started, old, logs, to, new
<1> HIDE DEF new
<1> QED
  BY <1>10, <1>11

\* A log that a shell or a command starts with
LEMMA TerminalLogOK ==
  ASSUME NEW exec, NEW fetches, NEW running, mode.ttylog \in BOOLEAN
  PROVE  /\ LogOK(mode.ttylog, TerminalLog(exec, fetches), TRUE, TRUE)
         /\ LogOK(mode.ttylog, [TerminalLog(exec, fetches) EXCEPT !.timer = running], TRUE, TRUE)
  BY DEF LogOK, LogFields, TerminalLog

\* openShell
LEMMA ShellStartedOK ==
  ASSUME NEW ch, mode.ttylog \in BOOLEAN, Startable(mode.ttylog, ch)
  PROVE  ChannelOK(mode.ttylog, ShellStarted(ch))
  BY TerminalLogOK, ChannelStarted DEF ShellStarted

\* execCommand
LEMMA ExecStartedOK ==
  ASSUME NEW ch, NEW line, NEW new \in ExecStarted(ch, line),
         mode.ttylog \in BOOLEAN, Startable(mode.ttylog, ch)
  PROVE  ChannelOK(mode.ttylog, new)
<1> DEFINE log == [TerminalLog(TRUE, line \in Fetching \ Garbled) EXCEPT !.timer = line \notin Garbled]
           started == Started(ch, log, line \in Garbled \/ ~mode.ttylog)
<1>1. LogOK(mode.ttylog, log, TRUE, TRUE)
  BY TerminalLogOK
<1> HIDE DEF log
<1>2. ChannelOK(mode.ttylog, started)
  BY <1>1, ChannelStarted
<1>3. new \in {started, LoseChannel(started)}
  BY DEF ExecStarted, log
<1> HIDE DEF started
<1> QED
  BY <1>2, <1>3, ChannelLost

\* A channel that is closed has no log open, and closed the last one once.
LEMMA ClosedOK ==
  ASSUME NEW ch, NEW h, NEW r \in ChannelClosed(ch, h),
         mode.ttylog \in BOOLEAN, ChannelOK(mode.ttylog, ch), ch.there = TRUE
  PROVE  ChannelOK(mode.ttylog, r.channel) /\ r.channel.there = FALSE
<1> DEFINE log == LogClosed(Last(ch.logs))
           gone == [ch EXCEPT !.there = FALSE]
<1>1. /\ DOMAIN gone = ChannelFields /\ gone.there = FALSE /\ gone.runs = ch.runs /\ gone.logs = ch.logs
      /\ gone.sftp = ch.sftp /\ gone.client = ch.client
  BY DEF ChannelOK, ChannelFields
<1>2. Listed(ch.logs) /\ Len(ch.logs) \in Nat /\ (ch.logs = << >> <=> Len(ch.logs) = 0)
  BY ListedShape, ListedNone DEF ChannelOK
<1>3. CASE ch.runs = "terminal"
  <2>0. ch.logs # << >> /\ Len(ch.logs) \in 1 .. Len(ch.logs)
    BY <1>2, <1>3 DEF ChannelOK
  <2>1. r.channel = [gone EXCEPT !.logs[Len(ch.logs)] = log.log]
    BY <1>3 DEF ChannelClosed
  <2> DEFINE n == Len(ch.logs)
             l == ch.logs[n]
             logs == [ch.logs EXCEPT ![n] = log.log]
  <2>2. LogOK(mode.ttylog, l, TRUE, TRUE)
    BY <2>0 DEF ChannelOK
  <2>3. LogOK(mode.ttylog, log.log, FALSE, TRUE)
    <3>1. log.log = LogLost(LogLost(l))
      BY DEF LogClosed, Last
    <3> DEFINE one == LogLost(l)
    <3>2. /\ DOMAIN one = LogFields /\ one.open = FALSE /\ one.replaced = FALSE
          /\ one.closes = IF mode.ttylog THEN 1 ELSE 0
      <4>1. /\ DOMAIN l = LogFields /\ l.replaced = FALSE /\ l.closes = 0 /\ l.open = mode.ttylog
        BY <2>2 DEF LogOK
      <4>2. one.closes = l.closes + (IF l.open THEN 1 ELSE 0)
        BY <4>1 DEF LogLost, LogFields
      <4>3. DOMAIN one = LogFields /\ one.open = FALSE /\ one.replaced = l.replaced
        BY <4>1 DEF LogLost, LogFields
      <4> HIDE DEF one
      <4> QED
        BY <4>1, <4>2, <4>3
    <3> HIDE DEF one
    <3> DEFINE two == LogLost(one)
    <3>3. two.closes = one.closes + (IF one.open THEN 1 ELSE 0)
      BY <3>2 DEF LogLost, LogFields
    <3>4. DOMAIN two = LogFields /\ two.open = FALSE /\ two.replaced = one.replaced
      BY <3>2 DEF LogLost, LogFields
    <3> HIDE DEF two
    <3>5. two.closes = one.closes
      BY <3>2, <3>3
    <3>6. log.log = two
      BY <3>1 DEF one, two
    <3> QED
      BY <3>2, <3>4, <3>5, <3>6 DEF LogOK
  <2> HIDE DEF log, gone
  <2>4. /\ DOMAIN r.channel = ChannelFields /\ r.channel.there = FALSE /\ r.channel.runs = ch.runs
        /\ r.channel.logs = logs /\ r.channel.sftp = ch.sftp /\ r.channel.client = ch.client
    BY <1>1, <2>1 DEF ChannelFields
  <2>5. Listed(logs) /\ Len(logs) = n /\ logs[n] = log.log /\ \A j \in 1 .. n : j # n => logs[j] = ch.logs[j]
    <3> DEFINE s == ch.logs
               e == log.log
    <3>1. Listed(s) /\ n \in 1 .. Len(s)
      BY <1>2, <2>0
    <3> HIDE DEF s, e, n
    <3>2. Listed([s EXCEPT ![n] = e]) /\ Len([s EXCEPT ![n] = e]) = Len(s)
          /\ [s EXCEPT ![n] = e][n] = e
          /\ \A j \in 1 .. Len(s) : j # n => [s EXCEPT ![n] = e][j] = s[j]
      BY <3>1, ListedReplaced
    <3> QED
      BY <3>2 DEF s, e, n
  <2>6. \A j \in 1 .. Len(logs) : LogOK(mode.ttylog, logs[j], FALSE, j = Len(logs))
    <3> SUFFICES ASSUME NEW j \in 1 .. n PROVE LogOK(mode.ttylog, logs[j], FALSE, j = n)
      BY <2>5
    <3>1. CASE j = n
      BY <2>3, <2>5, <3>1
    <3>2. CASE j # n
      <4>1. LogOK(mode.ttylog, ch.logs[j], TRUE, FALSE)
        BY <3>2 DEF ChannelOK
      <4> HIDE DEF logs
      <4> QED
        BY <2>5, <3>2, <4>1 DEF LogOK
    <3> QED
      BY <3>1, <3>2
  <2> HIDE DEF logs
  <2>7. logs # << >>
    BY <1>2, <2>0, <2>5, ListedNone
  <2>8. SftpOK(ch.sftp) /\ SftpIdle(ch.sftp)
    BY <1>3 DEF ChannelOK
  <2> QED
    BY <1>3, <2>4, <2>5, <2>6, <2>7, <2>8 DEF ChannelOK
<1>4. CASE ch.runs # "terminal"
  <2>1. ch.logs = << >>
    BY <1>4 DEF ChannelOK
  <2>2. \/ r.channel = gone
        \/ ch.runs = "sftp" /\ \E s : SftpOK(s) /\ r.channel = [gone EXCEPT !.sftp = s]
    <3>1. CASE ch.runs = "sftp"
      <4>1. ChannelClosed(ch, h) =
              {[channel |-> [gone EXCEPT !.sftp = x.s], host |-> x.host,
                events |-> [n \in 1 .. x.uploads |-> "file_upload"]] : x \in CloseAll(ch.sftp, h)}
        BY <3>1 DEF ChannelClosed
      <4>2. PICK x \in CloseAll(ch.sftp, h) :
              r = [channel |-> [gone EXCEPT !.sftp = x.s], host |-> x.host,
                   events |-> [n \in 1 .. x.uploads |-> "file_upload"]]
        BY <4>1
      <4>3. SftpOK(x.s)
        BY CloseAllOK DEF ChannelOK
      <4> QED
        BY <3>1, <4>2, <4>3
    <3>2. CASE ch.runs # "sftp"
      <4>1. ChannelClosed(ch, h) = {[channel |-> gone, events |-> << >>, host |-> h]}
        BY <1>4, <3>2 DEF ChannelClosed
      <4> HIDE DEF gone
      <4>2. r = [channel |-> gone, events |-> << >>, host |-> h]
        BY <4>1
      <4> QED
        BY <4>2
    <3> QED
      BY <3>1, <3>2
  <2> HIDE DEF gone
  <2>3. /\ DOMAIN r.channel = ChannelFields /\ r.channel.there = FALSE /\ r.channel.runs = ch.runs
        /\ r.channel.logs = ch.logs /\ r.channel.client = ch.client
        /\ SftpOK(r.channel.sftp) /\ (ch.runs # "sftp" => SftpIdle(r.channel.sftp))
    <3>1. SftpOK(ch.sftp) /\ (ch.runs # "sftp" => SftpIdle(ch.sftp))
      BY DEF ChannelOK
    <3> QED
      BY <1>1, <2>2, <3>1 DEF ChannelFields
  <2>4. Listed(<< >>) /\ 1 .. Len(<< >>) = {}
    BY ListedEmpty
  <2> QED
    BY <1>4, <2>1, <2>3, <2>4 DEF ChannelOK
<1> QED
  BY <1>3, <1>4

\* The first k channels of a connection are closed, the others as they were.
ClosedUpto(ttylog, chs, k, new) ==
  /\ Listed(new)
  /\ Len(new) = Len(chs)
  /\ \A j \in 1 .. Len(chs) : /\ ChannelOK(ttylog, new[j])
                              /\ new[j].there = FALSE \/ (j > k /\ new[j] = chs[j])

\* Closing one more channel keeps what is known of those closed before.
LEMMA ClosedNextOK ==
  ASSUME NEW c, NEW k \in 1 .. Len(channels[c]), NEW acc, NEW more \in ClosedNext(c, acc, k),
         mode.ttylog \in BOOLEAN, Listed(channels[c]),
         ChannelOK(mode.ttylog, channels[c][k]),
         ClosedUpto(mode.ttylog, channels[c], k - 1, acc.channels)
  PROVE  ClosedUpto(mode.ttylog, channels[c], k, more.channels)
<1> DEFINE chs == channels[c]
           ch == chs[k]
<1>1. Len(chs) \in Nat
  BY ListedShape
<1>2. CASE ch.there = TRUE
  <2>1. PICK x \in ChannelClosed(ch, acc.host) :
          more = [channels |-> [acc.channels EXCEPT ![k] = x.channel], host |-> x.host,
                  events |-> acc.events \o x.events]
    BY <1>2 DEF ClosedNext
  <2>2. ChannelOK(mode.ttylog, x.channel) /\ x.channel.there = FALSE
    BY <1>2, ClosedOK
  <2>3. Listed(acc.channels) /\ k \in 1 .. Len(acc.channels)
    BY DEF ClosedUpto
  <2>4. more.channels = [acc.channels EXCEPT ![k] = x.channel]
    BY <2>1
  <2>5. /\ Listed(more.channels) /\ Len(more.channels) = Len(acc.channels)
        /\ more.channels[k] = x.channel
        /\ \A j \in 1 .. Len(acc.channels) : j # k => more.channels[j] = acc.channels[j]
    BY <2>3, <2>4, ListedReplaced
  <2>6. \A j \in 1 .. Len(chs) :
          ChannelOK(mode.ttylog, more.channels[j]) /\ (more.channels[j].there = FALSE \/ (j > k /\ more.channels[j] = chs[j]))
    <3> TAKE j \in 1 .. Len(chs)
    <3>1. CASE j = k
      BY <2>2, <2>5, <3>1
    <3>2. CASE j # k
      <4>1. j \in 1 .. Len(acc.channels) /\ ChannelOK(mode.ttylog, acc.channels[j])
            /\ (acc.channels[j].there = FALSE \/ (j > k - 1 /\ acc.channels[j] = chs[j]))
        BY DEF ClosedUpto
      <4>2. more.channels[j] = acc.channels[j]
        BY <2>5, <3>2, <4>1
      <4>3. j > k - 1 => j > k
        BY <1>1, <3>2
      <4> QED
        BY <4>1, <4>2, <4>3
    <3> QED
      BY <3>1, <3>2
  <2> QED
    BY <2>5, <2>6 DEF ClosedUpto
<1>3. CASE ch.there = FALSE
  <2>1. more = acc
    BY <1>3 DEF ClosedNext
  <2>2. \A j \in 1 .. Len(chs) : acc.channels[j].there = FALSE \/ (j > k /\ acc.channels[j] = chs[j])
    <3> TAKE j \in 1 .. Len(chs)
    <3>1. acc.channels[j].there = FALSE \/ (j > k - 1 /\ acc.channels[j] = chs[j])
      BY DEF ClosedUpto
    <3>2. j > k - 1 => j > k \/ j = k
      BY <1>1
    <3> QED
      BY <1>3, <3>1, <3>2
  <2> QED
    BY <2>1, <2>2 DEF ClosedUpto
<1> QED
  BY <1>2, <1>3 DEF ChannelOK

\* serviceStopped closes every channel that is left.
LEMMA AllClosedOK ==
  ASSUME NEW c, NEW r \in AllClosed(c), mode.ttylog \in BOOLEAN, Listed(channels[c]),
         \A k \in 1 .. Len(channels[c]) : ChannelOK(mode.ttylog, channels[c][k])
  PROVE  /\ Listed(r.channels)
         /\ Len(r.channels) = Len(channels[c])
         /\ \A k \in 1 .. Len(channels[c]) : ChannelOK(mode.ttylog, r.channels[k]) /\ r.channels[k].there = FALSE
<1> DEFINE chs == channels[c]
           n == Len(chs)
<1>1. PICK upto : /\ upto[0] = {[channels |-> channels[c], host |-> host, events |-> << >>]}
                  /\ \A k \in 1 .. n : upto[k] = UNION {ClosedNext(c, acc, k) : acc \in upto[k - 1]}
                  /\ AllClosed(c) = upto[n]
  BY AllClosedSteps
<1> DEFINE S == {k \in 0 .. n : \A acc \in upto[k] : ClosedUpto(mode.ttylog, chs, k, acc.channels)}
<1>2. n \in Nat
  BY ListedShape
<1>3. 0 \in S
  <2>1. ClosedUpto(mode.ttylog, chs, 0, chs)
    BY <1>2 DEF ClosedUpto
  <2> QED
    BY <1>1, <1>2, <2>1
<1>4. ASSUME NEW k \in 1 .. n, k - 1 \in S PROVE k \in S
  <2>1. ASSUME NEW more \in upto[k] PROVE ClosedUpto(mode.ttylog, chs, k, more.channels)
    <3>1. PICK acc \in upto[k - 1] : more \in ClosedNext(c, acc, k)
      BY <1>1, <2>1
    <3>2. ClosedUpto(mode.ttylog, chs, k - 1, acc.channels)
      BY <1>4, <3>1
    <3> QED
      BY <3>1, <3>2, ClosedNextOK
  <2> QED
    BY <1>2, <2>1
<1>5. n \in S
  <2> HIDE DEF S, n
  <2>1. 0 .. n \subseteq S
    BY <1>2, <1>3, <1>4, InductTo
  <2> QED
    BY <1>2, <2>1
<1>6. ClosedUpto(mode.ttylog, chs, n, r.channels)
  BY <1>1, <1>5
<1>7. \A j \in 1 .. n : ~ (j > n)
  BY <1>2
<1> QED
  BY <1>6, <1>7 DEF ClosedUpto

-----------------------------------------------------------------------------
(* The session of an event.                                                *)

\* connectionMade has run, connectionLost has not.
Live(c) == up[c] \in {"up", "closing", "broken"}

\* The ports in use
Ports == {plan[c].port : c \in Conns}

\* The part of the type invariant that is needed
Shape ==
  /\ up \in [Conns -> {"none", "up", "closing", "broken", "lost"}]
  /\ sno \in [Conns -> Nat]
  /\ nextno \in [Ports -> Nat]
  /\ out = [sessions |-> out.sessions, db |-> out.db]
  /\ past = [wrong |-> past.wrong, missed |-> past.missed, late |-> past.late,
             early |-> past.early, clash |-> past.clash]
  /\ past.clash \subseteq Conns

\* A port has given its numbers in turn.
Numbered == \A c \in Conns : up[c] # "none" => sno[c] < nextno[plan[c].port]

\* Two connections of one number at a time are known to have clashed.
Distinct ==
  \A c, d \in Conns : Live(c) /\ Live(d) /\ c # d /\ Key(c) = Key(d) => c \in past.clash

\* Every other connection has the session of its number.
Attributed ==
  \A c \in Conns : Live(c) /\ c \notin past.clash =>
    Key(c) \in DOMAIN out.sessions /\ out.sessions[Key(c)] = c

\* What is inductive of all this
IInv == Shape /\ Numbered /\ Distinct /\ Attributed /\ EventsAttributed

-----------------------------------------------------------------------------
(* What a step may do to connections.                                      *)

\* What is used of arithmetic
LEMMA Numbers ==
  \A i, j \in Nat : ~ (i < i) /\ i + 1 \in Nat /\ i < i + 1 /\ (i < j => i < j + 1)
<1> TAKE i, j \in Nat
<1>1. ~ (i < i) /\ i < i + 1
  OBVIOUS
<1>2. i + 1 \in Nat
  OBVIOUS
<1>3. i < j => i < j + 1
  OBVIOUS
<1> QED
  BY <1>1, <1>2, <1>3

\* Nobody gets a number, and nobody comes to life.
NoneBorn ==
  /\ UNCHANGED << plan, sno, nextno >>
  /\ up' \in [Conns -> {"none", "up", "closing", "broken", "lost"}]
  /\ \A d \in Conns : (Live(d)' => Live(d)) /\ (up'[d] = "none" <=> up[d] = "none")

\* A step without events, as of a timer, keeps the invariant.
LEMMA SilentStep ==
  ASSUME IInv, NoneBorn, UNCHANGED << out, past >>
  PROVE  IInv'
<1>1. \A d \in Conns : Key(d)' = Key(d)
  BY DEF NoneBorn, Key, sessionno
<1>2. Shape'
  BY DEF IInv, Shape, NoneBorn, Ports
<1>3. Numbered'
  BY DEF IInv, Numbered, NoneBorn
<1>4. Distinct' /\ Attributed'
  BY <1>1 DEF IInv, Distinct, Attributed, NoneBorn
<1>5. EventsAttributed'
  BY DEF IInv, EventsAttributed, NoneBorn
<1> QED
  BY <1>2, <1>3, <1>4, <1>5 DEF IInv

\* What emit notes about the events of a living connection is on the list of
\* clashes already.
LEMMA EmitNotes ==
  ASSUME IInv, NEW c \in Conns, Live(c), NEW events, NEW sessions, EmitFor(c, events, sessions)
  PROVE  /\ past' = [wrong |-> past'.wrong, missed |-> past'.missed, late |-> past'.late,
                     early |-> past'.early, clash |-> past'.clash]
         /\ past'.clash = past.clash
         /\ past'.wrong \union past'.missed \subseteq past.clash
<1>1. /\ past'.clash = past.clash
      /\ past' = [wrong |-> past'.wrong, missed |-> past'.missed, late |-> past'.late,
                  early |-> past'.early, clash |-> past'.clash]
  BY DEF EmitFor, IInv, Shape
<1>2. c \notin past.clash => past'.wrong = past.wrong /\ past'.missed = past.missed
  BY DEF EmitFor, IInv, Shape, Attributed
<1>3. past'.wrong \subseteq past.wrong \union {c} /\ past'.missed \subseteq past.missed \union {c}
  BY DEF EmitFor, IInv, Shape
<1> QED
  BY <1>1, <1>2, <1>3 DEF IInv, EventsAttributed

\* The events of a living connection keep the invariant.
LEMMA EmitKeeps ==
  ASSUME IInv, NEW c \in Conns, Live(c), NoneBorn, NEW events, Emit(c, events)
  PROVE  IInv'
<1>1. /\ past' = [wrong |-> past'.wrong, missed |-> past'.missed, late |-> past'.late,
                  early |-> past'.early, clash |-> past'.clash]
      /\ past'.clash = past.clash
      /\ past'.wrong \union past'.missed \subseteq past.clash
  BY EmitNotes DEF Emit
<1>2. out' = [sessions |-> out'.sessions, db |-> out'.db] /\ out'.sessions = out.sessions
  BY DEF Emit, EmitFor, IInv, Shape
<1>3. \A d \in Conns : Key(d)' = Key(d)
  BY DEF NoneBorn, Key, sessionno
<1>4. Shape'
  BY <1>1, <1>2 DEF IInv, Shape, NoneBorn, Ports
<1>5. Numbered'
  BY DEF IInv, Numbered, NoneBorn
<1>6. Distinct' /\ Attributed'
  BY <1>1, <1>2, <1>3 DEF IInv, Distinct, Attributed, NoneBorn
<1>7. EventsAttributed'
  BY <1>1 DEF IInv, EventsAttributed, NoneBorn
<1> QED
  BY <1>4, <1>5, <1>6, <1>7 DEF IInv

\* So does the end of one: the number it frees is that of no other connection
\* that has not clashed.
LEMMA EmitClosedKeeps ==
  ASSUME IInv, NEW c \in Conns, Live(c), NoneBorn, up'[c] = "lost", NEW events, EmitClosed(c, events)
  PROVE  IInv'
<1>1. /\ past' = [wrong |-> past'.wrong, missed |-> past'.missed, late |-> past'.late,
                  early |-> past'.early, clash |-> past'.clash]
      /\ past'.clash = past.clash
      /\ past'.wrong \union past'.missed \subseteq past.clash
  BY EmitNotes DEF EmitClosed
<1>2. /\ out' = [sessions |-> out'.sessions, db |-> out'.db]
      /\ \A k \in DOMAIN out.sessions \ {Key(c)} :
           k \in DOMAIN out'.sessions /\ out'.sessions[k] = out.sessions[k]
  BY DEF EmitClosed, EmitFor, IInv, Shape
<1>3. \A d \in Conns : Key(d)' = Key(d)
  BY DEF NoneBorn, Key, sessionno
<1>4. Shape'
  BY <1>1, <1>2 DEF IInv, Shape, NoneBorn, Ports
<1>5. Numbered'
  BY DEF IInv, Numbered, NoneBorn
<1>6. Distinct'
  BY <1>1, <1>3 DEF IInv, Distinct, NoneBorn
<1>7. Attributed'
  <2> SUFFICES ASSUME NEW d \in Conns, Live(d)', d \notin past'.clash
               PROVE  Key(d)' \in DOMAIN out'.sessions /\ out'.sessions[Key(d)'] = d
    BY DEF Attributed
  <2>1. Live(d) /\ d # c
    BY DEF NoneBorn, Live
  <2>2. Key(d) # Key(c)
    BY <1>1, <2>1 DEF IInv, Distinct
  <2> QED
    BY <1>1, <1>2, <1>3, <2>1, <2>2 DEF IInv, Attributed
<1>8. EventsAttributed'
  BY <1>1 DEF IInv, EventsAttributed, NoneBorn
<1> QED
  BY <1>4, <1>5, <1>6, <1>7, <1>8 DEF IInv

\* A new connection takes the session of its number from nobody but those it is
\* noted to clash with, and these are on other ports of its protocol.
LEMMA ConnectionKeeps ==
  ASSUME IInv, NEW c \in Conns, ConnectionMade(c)
  PROVE  IInv'
<1> DEFINE port == plan[c].port
           key == sessionno(plan[c].proto, nextno[port])
           twins == {d \in Conns \ {c} : /\ up[d] \in {"up", "closing", "broken"}
                                          /\ plan[d].proto = plan[c].proto
                                          /\ sno[d] = nextno[port]}
<1>1. /\ up[c] = "none"
      /\ up' = [up EXCEPT ![c] = "up"]
      /\ sno' = [sno EXCEPT ![c] = nextno[port]]
      /\ nextno' = [nextno EXCEPT ![port] = @ + 1]
      /\ plan' = plan
  BY DEF ConnectionMade, client
<1>2. /\ out' = [sessions |-> out'.sessions, db |-> out'.db]
      /\ out'.sessions = [k \in {key} \union DOMAIN out.sessions |-> IF k = key THEN c ELSE out.sessions[k]]
  BY DEF ConnectionMade, EmitConnect
<1>3. /\ past' = [wrong |-> past'.wrong, missed |-> past'.missed, late |-> past'.late,
                  early |-> past'.early, clash |-> past'.clash]
      /\ past'.wrong = past.wrong /\ past'.missed = past.missed
      /\ past'.clash = IF twins = {} THEN past.clash ELSE past.clash \union twins \union {c}
  <2>1. past' = [past EXCEPT !.clash = IF twins = {} THEN @ ELSE @ \union twins \union {c}]
    BY DEF ConnectionMade
  <2>2. past = [wrong |-> past.wrong, missed |-> past.missed, late |-> past.late,
                early |-> past.early, clash |-> past.clash]
    BY DEF IInv, Shape
  <2> HIDE DEF twins
  <2> QED
    BY <2>1, <2>2
<1>4. /\ up \in [Conns -> {"none", "up", "closing", "broken", "lost"}]
      /\ sno \in [Conns -> Nat]
      /\ nextno \in [Ports -> Nat]
      /\ port \in Ports
  BY DEF IInv, Shape, Ports
<1>5. \A d \in twins : /\ d \in Conns \ {c} /\ up[d] # "none"
                        /\ plan[d].proto = plan[c].proto /\ sno[d] = nextno[port]
  OBVIOUS
<1>6. \A d \in Conns \ {c} : Live(d) /\ Key(d) = key => d \in twins
  BY DEF Live, Key, sessionno
<1>7. \A d \in Conns \ {c} : up'[d] = up[d] /\ sno'[d] = sno[d] /\ Key(d)' = Key(d)
  BY <1>1, <1>4 DEF Key, sessionno
<1>8. up'[c] = "up" /\ sno'[c] = nextno[port] /\ Key(c)' = key
  BY <1>1, <1>4 DEF Key, sessionno
<1> HIDE DEF port, key, twins
<1>9. Shape'
  <2>1. up' \in [Conns -> {"none", "up", "closing", "broken", "lost"}] /\ sno' \in [Conns -> Nat]
    BY <1>1, <1>4
  <2>2. Ports' = Ports
    BY <1>1 DEF Ports
  <2>3. nextno' \in [Ports -> Nat]
    <3>1. nextno[port] + 1 \in Nat
      BY <1>4, Numbers
    <3> QED
      BY <1>1, <1>4, <3>1
  <2>4. past'.clash \subseteq Conns
    BY <1>3, <1>5 DEF IInv, Shape
  <2> QED
    BY <1>2, <1>3, <2>1, <2>2, <2>3, <2>4 DEF Shape
<1>10. Numbered'
  <2> SUFFICES ASSUME NEW d \in Conns, up'[d] # "none"
               PROVE  sno'[d] < nextno'[plan[d].port]
    BY <1>1 DEF Numbered
  <2>1. plan[d].port \in Ports
    BY DEF Ports
  <2>2. nextno[port] \in Nat /\ nextno'[port] = nextno[port] + 1
    BY <1>1, <1>4
  <2>3. CASE d = c
    <3>1. sno'[d] = nextno[port] /\ plan[d].port = port
      BY <1>8, <2>3 DEF port
    <3> QED
      BY <2>2, <3>1, Numbers
  <2>4. CASE d # c
    <3>1. sno[d] < nextno[plan[d].port] /\ sno[d] \in Nat
      BY <1>4, <1>7, <2>4 DEF IInv, Numbered
    <3>2. sno'[d] = sno[d] /\ nextno[plan[d].port] \in Nat
      BY <1>4, <1>7, <2>1, <2>4
    <3>3. CASE plan[d].port = port
      <4>1. sno[d] < nextno[port] + 1
        BY <2>2, <3>1, <3>3, Numbers
      <4> QED
        BY <2>2, <3>2, <3>3, <4>1
    <3>4. CASE plan[d].port # port
      <4>1. nextno'[plan[d].port] = nextno[plan[d].port]
        BY <1>1, <1>4, <2>1, <3>4
      <4> QED
        BY <3>1, <3>2, <4>1
    <3> QED
      BY <3>3, <3>4
  <2> QED
    BY <2>3, <2>4
<1>11. Distinct'
  <2> SUFFICES ASSUME NEW d \in Conns, NEW e \in Conns, Live(d)', Live(e)', d # e, Key(d)' = Key(e)'
               PROVE  d \in past'.clash
    BY DEF Distinct
  <2>1. CASE d = c
    <3>1. e \in twins
      BY <1>6, <1>7, <1>8, <2>1 DEF Live
    <3> QED
      BY <1>3, <2>1, <3>1
  <2>2. CASE e = c
    <3>1. d \in twins
      BY <1>6, <1>7, <1>8, <2>2 DEF Live
    <3> QED
      BY <1>3, <3>1
  <2>3. CASE d # c /\ e # c
    BY <1>3, <1>7, <2>3 DEF IInv, Distinct, Live
  <2> QED
    BY <2>1, <2>2, <2>3
<1>12. Attributed'
  <2> SUFFICES ASSUME NEW d \in Conns, Live(d)', d \notin past'.clash
               PROVE  Key(d)' \in DOMAIN out'.sessions /\ out'.sessions[Key(d)'] = d
    BY DEF Attributed
  <2>1. CASE d = c
    BY <1>2, <1>8, <2>1
  <2>2. CASE d # c
    <3>1. Live(d) /\ Key(d)' = Key(d) /\ d \notin past.clash /\ d \notin twins
      BY <1>3, <1>7, <2>2 DEF Live
    <3>2. Key(d) # key
      BY <1>6, <2>2, <3>1
    <3>3. Key(d) \in DOMAIN out.sessions /\ out.sessions[Key(d)] = d
      BY <3>1 DEF IInv, Attributed
    <3> QED
      BY <1>2, <3>1, <3>2, <3>3
  <2> QED
    BY <2>1, <2>2
<1>13. EventsAttributed'
  <2>1. \A d \in twins : plan[d].port # port
    <3> SUFFICES ASSUME NEW d \in twins, plan[d].port = port
                 PROVE  FALSE
      OBVIOUS
    <3>1. sno[d] < nextno[port] /\ d \in Conns
      BY <1>5 DEF IInv, Numbered
    <3>2. sno[d] = nextno[port] /\ sno[d] \in Nat
      BY <1>4, <1>5
    <3>3. ~ (sno[d] < sno[d])
      BY <3>2, Numbers
    <3> QED
      BY <3>1, <3>2, <3>3
  <2>2. \A d \in twins : \E e \in Conns : plan[e].proto = plan[d].proto /\ plan[e].port # plan[d].port
    BY <1>5, <2>1 DEF port
  <2>3. twins # {} => \E e \in Conns : plan[e].proto = plan[c].proto /\ plan[e].port # plan[c].port
    BY <1>5, <2>1 DEF port
  <2>4. past'.wrong \union past'.missed \subseteq past'.clash
    BY <1>3 DEF IInv, EventsAttributed
  <2>5. \A d \in past'.clash : \E e \in Conns : plan[e].proto = plan[d].proto /\ plan[e].port # plan[d].port
    <3>1. \A d \in past.clash : \E e \in Conns : plan[e].proto = plan[d].proto /\ plan[e].port # plan[d].port
      BY DEF IInv, EventsAttributed
    <3>2. CASE twins = {}
      BY <1>3, <3>1, <3>2
    <3>3. CASE twins # {}
      <4>1. past'.clash = past.clash \union twins \union {c}
        BY <1>3, <3>3
      <4> QED
        BY <2>2, <2>3, <3>1, <3>3, <4>1
    <3> QED
      BY <3>2, <3>3
  <2> QED
    BY <1>1, <2>4, <2>5 DEF EventsAttributed
<1> QED
  BY <1>9, <1>10, <1>11, <1>12, <1>13 DEF IInv

-----------------------------------------------------------------------------
(* The steps of the specification.                                         *)

\* While a client is heard its connection may be closed or dropped, no more.
LEMMA HeardBearsNone ==
  ASSUME IInv, NEW c \in Conns, Live(c), UNCHANGED << plan, sno, nextno >>,
         NEW v \in {"up", "closing", "broken", "lost"}, up' = [up EXCEPT ![c] = v]
  PROVE  NoneBorn
  BY DEF IInv, Shape, Live, NoneBorn

\* Without a new connection nobody is born.
LEMMA NothingBearsNone ==
  ASSUME IInv, UNCHANGED << plan, up, sno, nextno >>
  PROVE  NoneBorn
  BY DEF IInv, Shape, Live, NoneBorn

\* Whatever an SSH client sends keeps the invariant.
LEMMA SshMessageKeeps ==
  ASSUME IInv, NEW c \in Conns, SshMessage(c)
  PROVE  IInv'
<1> USE DEF Reads, client, link, files
<1>1. up[c] = "up" /\ Live(c) /\ UNCHANGED << plan, sno, nextno >>
  BY DEF SshMessage, Version, KexInit, AuthNone, AuthPublicKey, AuthPassword, AuthKeyboard,
         AuthInfo, Unimplemented, ChannelOpen, NoSuchChannel, ChannelRequest, ChannelData,
         ChannelEof, ChannelClose, Sftp, OnChannel, Live
<1>2. CASE Version(c)
  <2>1. NoneBorn
    BY <1>1, <1>2, NothingBearsNone, HeardBearsNone DEF Version
  <2> QED
    BY <1>1, <1>2, <2>1, EmitKeeps DEF Version
<1>3. CASE KexInit(c)
  BY <1>1, <1>3, NothingBearsNone, EmitKeeps DEF KexInit
<1>4. CASE AuthNone(c)
  BY <1>1, <1>4, NothingBearsNone, SilentStep DEF AuthNone
<1>5. CASE AuthPublicKey(c)
  BY <1>1, <1>5, NothingBearsNone, EmitKeeps DEF AuthPublicKey
<1>6. CASE AuthPassword(c)
  <2>1. PICK r \in Tried(c, uservar, << Msg(c).word >>) : Emit(c, r.events)
    BY <1>6 DEF AuthPassword, Checked
  <2> QED
    BY <1>1, <1>6, <2>1, NothingBearsNone, EmitKeeps DEF AuthPassword
<1>7. CASE AuthKeyboard(c)
  <2>1. NoneBorn
    BY <1>1, <1>7, NothingBearsNone, HeardBearsNone DEF AuthKeyboard
  <2> QED
    BY <1>7, <2>1, SilentStep DEF AuthKeyboard
<1>8. CASE AuthInfo(c)
  <2>1. CASE pending[c] = << >>
    <3>1. NoneBorn
      BY <1>1, <1>8, <2>1, HeardBearsNone DEF AuthInfo
    <3> QED
      BY <1>8, <2>1, <3>1, SilentStep DEF AuthInfo
  <2>2. CASE pending[c] # << >>
    <3>1. PICK r \in Tried(c, uservar, Msg(c).words) : Emit(c, r.events)
      BY <1>8, <2>2 DEF AuthInfo, Checked
    <3>2. NoneBorn
      BY <1>1, <1>8, <2>2, NothingBearsNone DEF AuthInfo
    <3> QED
      BY <1>1, <3>1, <3>2, EmitKeeps
  <2> QED
    BY <2>1, <2>2
<1>9. CASE Unimplemented(c)
  BY <1>1, <1>9, NothingBearsNone, SilentStep DEF Unimplemented
<1>10. CASE ChannelOpen(c)
  <2>1. PICK events : Emit(c, events)
    BY <1>10 DEF ChannelOpen
  <2> QED
    BY <1>1, <1>10, <2>1, NothingBearsNone, EmitKeeps DEF ChannelOpen
<1>11. CASE NoSuchChannel(c)
  <2>1. NoneBorn
    BY <1>1, <1>11, HeardBearsNone DEF NoSuchChannel
  <2> QED
    BY <1>11, <2>1, SilentStep DEF NoSuchChannel
<1>12. CASE ChannelRequest(c)
  <2>1. NoneBorn
    BY <1>1, <1>12, NothingBearsNone DEF ChannelRequest
  <2>2. (\E events : Emit(c, events)) \/ UNCHANGED << out, past >>
    BY <1>12 DEF ChannelRequest
  <2> QED
    BY <1>1, <2>1, <2>2, SilentStep, EmitKeeps
<1>13. CASE ChannelData(c)
  <2>1. NoneBorn
    BY <1>1, <1>13, NothingBearsNone DEF ChannelData
  <2>2. Emit(c, << "direct-tcpip.data" >>) \/ Emit(c, << "input" >>) \/ UNCHANGED << out, past >>
    BY <1>13 DEF ChannelData, ProtocolData
  <2> QED
    BY <1>1, <2>1, <2>2, SilentStep, EmitKeeps
<1>14. CASE ChannelEof(c)
  BY <1>1, <1>14, NothingBearsNone, SilentStep DEF ChannelEof
<1>15. CASE ChannelClose(c)
  <2>1. PICK r \in ChannelClosed(LoseChannel(Mine(c)), host) : Emit(c, r.events)
    BY <1>15 DEF ChannelClose
  <2> QED
    BY <1>1, <1>15, <2>1, NothingBearsNone, EmitKeeps DEF ChannelClose
<1>16. CASE Sftp(c)
  <2>1. Emit(c, << "file_upload" >>) \/ Emit(c, << >>)
    BY <1>16 DEF Sftp
  <2> QED
    BY <1>1, <1>16, <2>1, NothingBearsNone, EmitKeeps DEF Sftp
<1> QED
  BY <1>2, <1>3, <1>4, <1>5, <1>6, <1>7, <1>8, <1>9, <1>10, <1>11, <1>12, <1>13, <1>14, <1>15, <1>16
  DEF SshMessage

\* A login over telnet reports itself to the connection it is made on.
LEMMA LoginKeeps ==
  ASSUME IInv, NEW c \in Conns, Live(c), UNCHANGED plan, Login(c)
  PROVE  IInv'
<1>1. PICK l \in TelnetLogins(c) : Emit(c, l.events)
  BY DEF Login
<1> QED
  BY <1>1, NothingBearsNone, EmitKeeps DEF Login

\* Whatever a telnet client sends keeps it, too.
LEMMA TelnetMessageKeeps ==
  ASSUME IInv, NEW c \in Conns, TelnetMessage(c)
  PROVE  IInv'
<1> USE DEF Reads, client, link, files
<1>1. up[c] = "up" /\ Live(c) /\ UNCHANGED plan
  BY DEF TelnetMessage, TelnetUser, TelnetPassword, TelnetDiscard, TelnetAck, TelnetLine, Live
<1>2. CASE TelnetUser(c)
  BY <1>1, <1>2, NothingBearsNone, SilentStep DEF TelnetUser
<1>3. CASE TelnetPassword(c)
  <2>1. CASE plan[c].echo
    BY <1>1, <1>3, <2>1, NothingBearsNone, SilentStep DEF TelnetPassword
  <2>2. CASE ~ plan[c].echo
    BY <1>1, <1>3, <2>2, LoginKeeps DEF TelnetPassword
  <2> QED
    BY <2>1, <2>2
<1>4. CASE TelnetDiscard(c)
  BY <1>1, <1>4, NothingBearsNone, SilentStep DEF TelnetDiscard
<1>5. CASE TelnetAck(c)
  <2>1. CASE pending[c] = << >>
    BY <1>1, <1>5, <2>1, NothingBearsNone, SilentStep DEF TelnetAck
  <2>2. CASE pending[c] # << >>
    BY <1>1, <1>5, <2>2, LoginKeeps DEF TelnetAck
  <2> QED
    BY <2>1, <2>2
<1>6. CASE TelnetLine(c)
  <2>1. NoneBorn
    <3>1. up' = up \/ \E v \in {"up", "closing"} : up' = [up EXCEPT ![c] = v]
      BY <1>1, <1>6 DEF TelnetLine
    <3> QED
      BY <1>1, <1>6, <3>1, HeardBearsNone, NothingBearsNone DEF TelnetLine
  <2>2. Emit(c, << "input" >>) \/ UNCHANGED << out, past >>
    BY <1>6 DEF TelnetLine
  <2> QED
    BY <1>1, <2>1, <2>2, EmitKeeps, SilentStep
<1> QED
  BY <1>2, <1>3, <1>4, <1>5, <1>6 DEF TelnetMessage

\* A timer may close a connection; it has no event of it.
LEMMA TimeoutKeeps ==
  ASSUME IInv, NEW c \in Conns, TransportTimeout(c) \/ ShellTimeout(c)
  PROVE  IInv'
<1> USE DEF client
<1>1. UNCHANGED << plan, sno, nextno, out, past >>
  BY DEF TransportTimeout, ShellTimeout
<1>2. (up' = [up EXCEPT ![c] = "closing"] /\ up[c] = "up") \/ up' = up
  <2>1. up \in [Conns -> {"none", "up", "closing", "broken", "lost"}]
    BY DEF IInv, Shape
  <2>2. CASE TransportTimeout(c)
    <3>1. up' = [up EXCEPT ![c] = IF up[c] = "up" THEN "closing" ELSE up[c]]
      BY <2>2 DEF TransportTimeout
    <3> QED
      BY <2>1, <3>1
  <2>3. CASE ShellTimeout(c)
    <3>1. up' = [up EXCEPT ![c] = IF plan[c].proto = "telnet" /\ up[c] = "up" THEN "closing" ELSE up[c]]
      BY <2>3 DEF ShellTimeout
    <3> QED
      BY <2>1, <3>1
  <2> QED
    BY <2>2, <2>3
<1>3. NoneBorn
  BY <1>1, <1>2, HeardBearsNone, NothingBearsNone DEF Live
<1> QED
  BY <1>1, <1>3, SilentStep

\* A line that cannot be decoded ends the reading, without an event.
LEMMA UndecodableKeeps ==
  ASSUME IInv, NEW c \in Conns, Undecodable(c)
  PROVE  IInv'
<1> USE DEF Reads, OnChannel
<1>1. up[c] = "up" /\ Live(c) /\ UNCHANGED << plan, sno, nextno, out, past >>
  BY DEF Undecodable, Live
<1>2. NoneBorn
  BY <1>1, HeardBearsNone DEF Undecodable
<1> QED
  BY <1>1, <1>2, SilentStep

\* A download reports its end to a living connection, or to nobody.
LEMMA DownloadedKeeps ==
  ASSUME IInv, NEW c \in Conns, Downloaded(c)
  PROVE  IInv'
<1> USE DEF client
<1>1. UNCHANGED << plan, sno, nextno >>
  BY DEF Downloaded
<1>2. up \in [Conns -> {"none", "up", "closing", "broken", "lost"}]
  BY DEF IInv, Shape
<1>3. (up' = [up EXCEPT ![c] = "closing"] /\ up[c] = "up") \/ up' = up
  <2>1. up' = up \/ \E ends \in BOOLEAN :
          up' = [up EXCEPT ![c] = IF ends /\ plan[c].proto = "telnet" /\ up[c] = "up" THEN "closing"
                                  ELSE up[c]]
    BY DEF Downloaded
  <2> QED
    BY <1>2, <2>1
<1>4. NoneBorn
  BY <1>1, <1>3, HeardBearsNone, NothingBearsNone DEF Live
<1>5. (Emit(c, << "file_download" >>) /\ Live(c)) \/ UNCHANGED << out, past >>
  BY DEF Downloaded, Live
<1> QED
  BY <1>4, <1>5, EmitKeeps, SilentStep

\* The end of a connection, whoever makes it
LEMMA EndKeeps ==
  ASSUME IInv, NEW c \in Conns, Live(c), LosesConnection(c) \/ LosesWaiting(c)
  PROVE  IInv'
<1> USE DEF client, files
<1>1. UNCHANGED << plan, sno, nextno >> /\ up' = [up EXCEPT ![c] = "lost"]
  BY DEF LosesConnection, LosesWaiting
<1>2. NoneBorn /\ up'[c] = "lost"
  BY <1>1, HeardBearsNone DEF IInv, Shape
<1>3. CASE LosesConnection(c)
  <2>1. PICK r \in AllClosed(c) : EmitClosed(c, r.events)
    BY <1>3 DEF LosesConnection
  <2> QED
    BY <1>2, <2>1, EmitClosedKeeps
<1>4. CASE LosesWaiting(c)
  <2>1. PICK l \in TelnetLogins(c), r \in ChannelClosed(TelnetSession, host) :
          EmitClosed(c, l.events \o (IF l.in THEN r.events ELSE << >>))
    BY <1>4 DEF LosesWaiting
  <2> QED
    BY <1>2, <2>1, EmitClosedKeeps
<1> QED
  BY <1>3, <1>4

\* What the database does has nothing to do with the sessions.
LEMMA DatabaseKeeps ==
  ASSUME IInv, QueryRuns \/ AnswerArrives
  PROVE  IInv'
<1> USE DEF client, link
<1>1. UNCHANGED << plan, up, sno, nextno, past >>
  BY DEF QueryRuns, AnswerArrives
<1>2. out' = [out EXCEPT !.db = out'.db]
  BY DEF QueryRuns, AnswerArrives, IInv, Shape
<1>3. out' = [sessions |-> out'.sessions, db |-> out'.db] /\ out'.sessions = out.sessions
  BY <1>2 DEF IInv, Shape
<1>4. \A d \in Conns : Key(d)' = Key(d)
  BY <1>1 DEF Key, sessionno
<1>5. Shape'
  BY <1>1, <1>3 DEF IInv, Shape, Ports
<1>6. Numbered' /\ EventsAttributed'
  BY <1>1 DEF IInv, Numbered, EventsAttributed
<1>7. Distinct' /\ Attributed'
  BY <1>1, <1>3, <1>4 DEF IInv, Distinct, Attributed, Live
<1> QED
  BY <1>5, <1>6, <1>7 DEF IInv

-----------------------------------------------------------------------------
(* The theorem on events.                                                  *)

\* The invariant holds at the start ...
LEMMA InitIInv == Init => IInv
<1> SUFFICES ASSUME Init PROVE IInv
  OBVIOUS
<1> USE DEF Init, NoPast
<1>1. Shape
  BY DEF Shape, Ports
<1>2. Numbered /\ Distinct /\ Attributed
  BY DEF Numbered, Distinct, Attributed, Live
<1>3. EventsAttributed
  BY DEF EventsAttributed
<1> QED
  BY <1>1, <1>2, <1>3 DEF IInv

\* ... and every step keeps it.
LEMMA NextIInv == IInv /\ [Next]_vars => IInv'
<1> SUFFICES ASSUME IInv, [Next]_vars PROVE IInv'
  OBVIOUS
<1>1. CASE UNCHANGED vars
  BY <1>1, NothingBearsNone, SilentStep DEF vars, client, link
<1>2. ASSUME NEW c \in Conns, ConnectionMade(c) PROVE IInv'
  BY <1>2, ConnectionKeeps
<1>3. ASSUME NEW c \in Conns, SshMessage(c) PROVE IInv'
  BY <1>3, SshMessageKeeps
<1>4. ASSUME NEW c \in Conns, TelnetMessage(c) PROVE IInv'
  BY <1>4, TelnetMessageKeeps
<1>5. ASSUME NEW c \in Conns, TransportTimeout(c) \/ ShellTimeout(c) PROVE IInv'
  BY <1>5, TimeoutKeeps
<1>6. ASSUME NEW c \in Conns, HangUp(c) \/ Lost(c) PROVE IInv'
  BY <1>6, EndKeeps DEF HangUp, Lost, Live
<1>7. CASE QueryRuns \/ AnswerArrives
  BY <1>7, DatabaseKeeps
<1>8. ASSUME NEW c \in Conns, Undecodable(c) \/ Downloaded(c) PROVE IInv'
  BY <1>8, UndecodableKeeps, DownloadedKeeps
<1> QED
  BY <1>1, <1>2, <1>3, <1>4, <1>5, <1>6, <1>7, <1>8 DEF Next

\* The invariant behind EventsReachSessions holds for ever.
THEOREM Inductive == Spec => []IInv
  BY InitIInv, NextIInv, PTL DEF Spec

\* Every event of a connection that emit gets to look up finds a session, and its own,
\* but for connections of one number, and these have ports of one protocol: what
\* output.py relies on when it ties a line of the log to a session.  (What convert
\* raises on and what logDispatch has no terminal for are not looked up.)
THEOREM EventsReachSessions == Spec => []EventsAttributed
<1>1. IInv => EventsAttributed
  BY DEF IInv
<1> QED
  BY <1>1, Inductive, PTL

-----------------------------------------------------------------------------
(* Types, and what is known of each connection.                            *)

\* The stages of an ssh client
SshStages == {"version", "kex", "auth", "service"}

\* The stages of a telnet client
TelnetStages == {"User", "Password", "Discard", "Command"}

\* All stages
Stages == {"none"} \union SshStages \union TelnetStages

\* What is known of one connection: no channel is there once it is lost, and there are none before it has come in.
Connection(ttylog, proto, u, st, pend, chs) ==
  /\ Listed(chs) /\ Listed(pend)
  /\ \A k \in 1 .. Len(chs) : ChannelOK(ttylog, chs[k]) /\ (u = "lost" => chs[k].there = FALSE)
  /\ chs # << >> => st \in {"service", "Command"}
  /\ u = "none" <=> st = "none"
  /\ st \in {"none"} \union (IF proto = "ssh" THEN SshStages ELSE TelnetStages)
  /\ proto # "ssh" /\ pend # << >> => st = "Discard"

\* The same of connection c
ConnOK(c) == Connection(mode.ttylog, plan[c].proto, up[c], stage[c], pending[c], channels[c])

\* The types, and what the types of the channels rest on
Typed ==
  /\ mode.ttylog \in BOOLEAN
  /\ stage \in [Conns -> Stages]
  /\ timer \in [Conns -> {"none", "auth", "interactive"}]
  /\ pending = [c \in Conns |-> pending[c]]
  /\ channels = [c \in Conns |-> channels[c]]
  /\ second \in 0 .. MaxSecond
  /\ Range(out.sessions) \subseteq Conns
  /\ past.late = {}
  /\ \A c \in Conns : ConnOK(c)

\* A step of connection c leaves the others alone.
Alone(c) ==
  /\ UNCHANGED << mode, plan >>
  /\ stage' \in [Conns -> Stages]
  /\ timer' \in [Conns -> {"none", "auth", "interactive"}]
  /\ pending' = [d \in Conns |-> pending'[d]]
  /\ channels' = [d \in Conns |-> channels'[d]]
  /\ second' \in 0 .. MaxSecond
  /\ \A d \in Conns \ {c} : /\ up'[d] = up[d] /\ stage'[d] = stage[d]
                            /\ pending'[d] = pending[d] /\ channels'[d] = channels[d]

\* A step of one connection has to be followed for that one alone.
LEMMA TypedStep ==
  ASSUME NEW c \in Conns, Typed, Alone(c), ConnOK(c)', Range(out'.sessions) \subseteq Conns, past'.late = {}
  PROVE  Typed'
<1>1. ASSUME NEW d \in Conns PROVE ConnOK(d)'
  <2>1. CASE d = c
    BY <2>1
  <2>2. CASE d # c
    <3>1. ConnOK(d)
      BY DEF Typed
    <3>2. /\ up'[d] = up[d] /\ stage'[d] = stage[d] /\ pending'[d] = pending[d] /\ channels'[d] = channels[d]
          /\ mode' = mode /\ plan' = plan
      BY <2>2 DEF Alone
    <3> QED
      BY <3>1, <3>2 DEF ConnOK
  <2> QED
    BY <2>1, <2>2
<1> QED
  BY <1>1 DEF Typed, Alone

\* What a connection tells the output
LEMMA EmitTyped ==
  ASSUME NEW c \in Conns, NEW events, NEW sessions, Typed, IInv, up[c] # "lost",
         EmitFor(c, events, sessions), Range(sessions) \subseteq Conns
  PROVE  Range(out'.sessions) \subseteq Conns /\ past'.late = {}
<1>1. past'.late = {}
  BY DEF EmitFor, IInv, Shape, Typed
<1>2. out' = out \/ out'.sessions = sessions
  BY DEF EmitFor
<1> QED
  BY <1>1, <1>2 DEF Typed

\* Events of a connection that is not lost reach connections.
LEMMA EmitOK ==
  ASSUME NEW c \in Conns, NEW events, Typed, IInv, up[c] # "lost", Emit(c, events)
  PROVE  Range(out'.sessions) \subseteq Conns /\ past'.late = {}
  BY EmitTyped DEF Emit, Typed

\* The same of the last event
LEMMA EmitClosedOK ==
  ASSUME NEW c \in Conns, NEW events, Typed, IInv, up[c] # "lost", EmitClosed(c, events)
  PROVE  Range(out'.sessions) \subseteq Conns /\ past'.late = {}
<1> DEFINE rest == [k \in DOMAIN out.sessions \ {Key(c)} |-> out.sessions[k]]
<1>1. Range(rest) \subseteq Conns
  BY DEF Range, Typed
<1> QED
  BY <1>1, EmitTyped DEF EmitClosed

\* A channel of a connection is replaced by one that is as good.
LEMMA ChannelReplaced ==
  ASSUME NEW c \in Conns, NEW k, NEW ch, Typed, up[c] # "lost", k \in DOMAIN channels[c],
         ChannelOK(mode.ttylog, ch)
  PROVE  Connection(mode.ttylog, plan[c].proto, up[c], stage[c], pending[c], [channels[c] EXCEPT ![k] = ch])
<1> DEFINE chs == channels[c]
           new == [chs EXCEPT ![k] = ch]
<1>1. ConnOK(c)
  BY DEF Typed
<1>2. Listed(chs)
  BY <1>1 DEF ConnOK, Connection
<1>3. Len(chs) \in Nat /\ k \in 1 .. Len(chs)
  BY <1>2, ListedShape
<1>4. /\ Listed(new) /\ Len(new) = Len(chs) /\ new[k] = ch
      /\ \A j \in 1 .. Len(chs) : j # k => new[j] = chs[j]
  BY <1>2, <1>3, ListedReplaced
<1>5. \A j \in 1 .. Len(new) : ChannelOK(mode.ttylog, new[j])
  <2> TAKE j \in 1 .. Len(new)
  <2>1. CASE j = k
    BY <1>4, <2>1
  <2>2. CASE j # k
    BY <1>1, <1>4, <2>2 DEF ConnOK, Connection
  <2> QED
    BY <2>1, <2>2
<1>6. chs # << >>
  BY <1>2, <1>3, ListedNone
<1>7. /\ Listed(pending[c])
      /\ stage[c] \in {"service", "Command"}
      /\ up[c] = "none" <=> stage[c] = "none"
      /\ stage[c] \in {"none"} \union (IF plan[c].proto = "ssh" THEN SshStages ELSE TelnetStages)
      /\ plan[c].proto # "ssh" /\ pending[c] # << >> => stage[c] = "Discard"
  BY <1>1, <1>6 DEF ConnOK, Connection
<1> HIDE DEF new
<1> QED
  BY <1>4, <1>5, <1>7 DEF Connection, new

\* A channel replaced by one that is well formed
LEMMA BecomesOK ==
  ASSUME NEW c \in Conns, NEW k, NEW ch, Typed, IInv, up[c] # "lost", k \in DOMAIN channels[c],
         ChannelOK(mode.ttylog, ch), channels' = [channels EXCEPT ![c][k] = ch],
         UNCHANGED << mode, plan, up, stage, timer, pending >>, second' \in 0 .. MaxSecond
  PROVE  Alone(c) /\ ConnOK(c)'
<1>1. channels' = [d \in Conns |-> channels'[d]] /\ channels'[c] = [channels[c] EXCEPT ![k] = ch]
      /\ \A d \in Conns \ {c} : channels'[d] = channels[d]
  BY DEF Typed
<1>2. Connection(mode.ttylog, plan[c].proto, up[c], stage[c], pending[c], [channels[c] EXCEPT ![k] = ch])
  BY ChannelReplaced
<1>3. ConnOK(c)'
  BY <1>1, <1>2 DEF ConnOK
<1>4. Alone(c)
  BY <1>1 DEF Alone, Typed
<1> QED
  BY <1>3, <1>4

\* A message for a channel finds one as it should be.
LEMMA MineOK ==
  ASSUME NEW c \in Conns, NEW ops, Typed, OnChannel(c, ops)
  PROVE  /\ Msg(c).ch \in DOMAIN channels[c]
         /\ ChannelOK(mode.ttylog, Mine(c)) /\ Mine(c).there = TRUE
         /\ up[c] = "up" /\ stage[c] = "service"
<1>1. ConnOK(c)
  BY DEF Typed
<1>2. /\ Msg(c).ch \in DOMAIN channels[c] /\ Mine(c).there
      /\ up[c] = "up" /\ stage[c] = "service"
  BY DEF OnChannel, Reads, Mine
<1>3. ChannelOK(mode.ttylog, Mine(c))
  BY <1>1, <1>2, ListedShape DEF ConnOK, Connection, Mine
<1> QED
  BY <1>2, <1>3 DEF ChannelOK

\* Nothing is heard of the channels of c, and c is not lost.
LEMMA StaysOK ==
  ASSUME NEW c \in Conns, Typed, UNCHANGED << mode, plan, channels, second >>,
         up'[c] # "lost", \A d \in Conns \ {c} : up'[d] = up[d],
         stage' \in [Conns -> Stages], timer' \in [Conns -> {"none", "auth", "interactive"}],
         pending' = [d \in Conns |-> pending'[d]],
         \A d \in Conns \ {c} : stage'[d] = stage[d] /\ pending'[d] = pending[d],
         Listed(pending'[c]),
         channels[c] # << >> => stage'[c] \in {"service", "Command"},
         up'[c] # "none" /\ stage'[c] # "none",
         stage'[c] \in (IF plan[c].proto = "ssh" THEN SshStages ELSE TelnetStages),
         plan[c].proto # "ssh" /\ pending'[c] # << >> => stage'[c] = "Discard"
  PROVE  Alone(c) /\ ConnOK(c)'
<1>1. ConnOK(c)
  BY DEF Typed
<1>2. Listed(channels[c]) /\ \A k \in 1 .. Len(channels[c]) : ChannelOK(mode.ttylog, channels[c][k])
  BY <1>1 DEF ConnOK, Connection
<1>3. Connection(mode.ttylog, plan[c].proto, up'[c], stage'[c], pending'[c], channels[c])
  BY <1>2 DEF Connection
<1>4. ConnOK(c)'
  BY <1>3 DEF ConnOK
<1>5. Alone(c)
  BY DEF Alone, Typed
<1> QED
  BY <1>4, <1>5

\* A login as the service of an SSH connection sees it
LEMMA CheckedOK ==
  ASSUME NEW c \in Conns, NEW answers, Typed, IInv, up[c] = "up", Checked(c, answers)
  PROVE  /\ Range(out'.sessions) \subseteq Conns /\ past'.late = {}
         /\ stage' \in {stage, [stage EXCEPT ![c] = "service"]}
         /\ timer' \in {timer, [timer EXCEPT ![c] = "interactive"]}
<1>1. PICK r \in Tried(c, uservar, answers) :
        Emit(c, r.events) /\ (ServiceSet(c) \/ UNCHANGED << stage, timer >>)
  BY DEF Checked
<1> QED
  BY <1>1, EmitOK DEF ServiceSet

\* The messages of an SSH client that are not about a channel
LEMMA SshTyped ==
  ASSUME NEW c \in Conns, Typed, IInv,
         \/ Version(c) \/ KexInit(c) \/ AuthNone(c) \/ AuthPublicKey(c) \/ AuthPassword(c)
         \/ AuthKeyboard(c) \/ AuthInfo(c) \/ Unimplemented(c) \/ NoSuchChannel(c)
  PROVE  Typed'
<1> USE DEF Reads, client, link, files
<1>1. up \in [Conns -> {"none", "up", "closing", "broken", "lost"}]
  BY DEF IInv, Shape
<1>2. up[c] = "up" /\ UNCHANGED << mode, plan, channels, second >>
  BY DEF Version, KexInit, AuthNone, AuthPublicKey, AuthPassword, AuthKeyboard,
         AuthInfo, Unimplemented, NoSuchChannel
<1>3. /\ stage \in [Conns -> Stages] /\ timer \in [Conns -> {"none", "auth", "interactive"}]
      /\ pending = [d \in Conns |-> pending[d]]
      /\ Range(out.sessions) \subseteq Conns /\ past.late = {}
  BY DEF Typed
<1>4. /\ Listed(pending[c])
      /\ channels[c] # << >> => stage[c] \in {"service", "Command"}
      /\ stage[c] # "none"
      /\ stage[c] \in {"none"} \union (IF plan[c].proto = "ssh" THEN SshStages ELSE TelnetStages)
      /\ plan[c].proto # "ssh" /\ pending[c] # << >> => stage[c] = "Discard"
  BY <1>2 DEF Typed, ConnOK, Connection
<1>5. Listed(<< >>) /\ Listed(<< "pam" >>)
  BY ListedEmpty, ListedSingle
<1> DEFINE Up == /\ up'[c] # "lost" /\ up'[c] # "none"
                 /\ \A d \in Conns \ {c} : up'[d] = up[d]
           Stage == /\ stage' \in [Conns -> Stages]
                    /\ \A d \in Conns \ {c} : stage'[d] = stage[d]
                    /\ channels[c] # << >> => stage'[c] \in {"service", "Command"}
                    /\ stage'[c] \in (IF plan[c].proto = "ssh" THEN SshStages ELSE TelnetStages)
                    /\ stage'[c] # "none"
           Pending == /\ pending' = [d \in Conns |-> pending'[d]]
                      /\ \A d \in Conns \ {c} : pending'[d] = pending[d]
                      /\ Listed(pending'[c])
           Timer == timer' \in [Conns -> {"none", "auth", "interactive"}]
           Output == Range(out'.sessions) \subseteq Conns /\ past'.late = {}
<1>6. stage' = stage => Stage
  BY <1>3, <1>4 DEF SshStages, TelnetStages
<1>7. pending' = pending => Pending
  BY <1>3, <1>4
<1>8. timer' = timer => Timer
  BY <1>3
<1>9. up' = up => Up
  BY <1>1, <1>2
<1>10. UNCHANGED << out, past >> => Output
  BY <1>3
<1>11. \A v \in {"closing", "broken"} : up' = [up EXCEPT ![c] = v] => Up
  BY <1>1
<1>12. \A v \in SshStages : stage[c] \in {"version", "kex", "auth"} /\ stage' = [stage EXCEPT ![c] = v] => Stage
  BY <1>3, <1>4 DEF SshStages, TelnetStages, Stages
<1>13. \A events : Emit(c, events) => Output
  BY <1>2, EmitOK
<1>14. \A v : Listed(v) /\ stage[c] \in {"version", "kex", "auth"} /\ pending' = [pending EXCEPT ![c] = v] => Pending
  BY <1>3, <1>4 DEF SshStages, TelnetStages
<1>15. timer' = [timer EXCEPT ![c] = "interactive"] => Timer
  BY <1>3
<1>16. \A answers : stage[c] = "auth" /\ Checked(c, answers) => Stage /\ Timer /\ Output
  <2> SUFFICES ASSUME NEW answers, stage[c] = "auth", Checked(c, answers) PROVE Stage /\ Timer /\ Output
    OBVIOUS
  <2>1. /\ Output
        /\ stage' = stage \/ stage' = [stage EXCEPT ![c] = "service"]
        /\ timer' = timer \/ timer' = [timer EXCEPT ![c] = "interactive"]
    BY <1>2, CheckedOK
  <2>2. "service" \in SshStages
    BY DEF SshStages
  <2> HIDE DEF Stage, Timer, Output
  <2> QED
    BY <1>6, <1>8, <1>12, <1>15, <2>1, <2>2
<1>17. Up /\ Stage /\ Pending /\ Timer /\ Output
  <2> HIDE DEF Up, Stage, Pending, Timer, Output
  <2>0. SshStages = {"version", "kex", "auth", "service"}
    BY DEF SshStages
  <2>1. CASE Version(c)
    BY <1>6, <1>7, <1>8, <1>9, <1>11, <1>12, <1>13, <2>0, <2>1 DEF Version
  <2>2. CASE KexInit(c)
    BY <1>5, <1>8, <1>9, <1>12, <1>13, <1>14, <2>0, <2>2 DEF KexInit
  <2>3. CASE AuthNone(c)
    BY <1>6, <1>7, <1>8, <1>9, <1>10, <1>12, <1>15, <2>0, <2>3 DEF AuthNone, ServiceSet
  <2>4. CASE AuthPublicKey(c)
    BY <1>6, <1>7, <1>8, <1>9, <1>13, <2>4 DEF AuthPublicKey
  <2>5. CASE AuthPassword(c)
    BY <1>7, <1>9, <1>16, <2>5 DEF AuthPassword
  <2>6. CASE AuthKeyboard(c)
    BY <1>5, <1>6, <1>7, <1>8, <1>9, <1>10, <1>11, <1>14, <2>6 DEF AuthKeyboard
  <2>7. CASE AuthInfo(c)
    <3>1. Pending
      BY <1>5, <1>14, <2>7 DEF AuthInfo
    <3>2. CASE pending[c] = << >>
      BY <1>6, <1>8, <1>10, <1>11, <2>7, <3>1, <3>2 DEF AuthInfo
    <3>3. CASE pending[c] # << >>
      BY <1>9, <1>16, <2>7, <3>1, <3>3 DEF AuthInfo
    <3> QED
      BY <3>2, <3>3
  <2>8. CASE Unimplemented(c)
    BY <1>6, <1>7, <1>8, <1>9, <1>10, <2>8 DEF Unimplemented
  <2>9. CASE NoSuchChannel(c)
    BY <1>6, <1>7, <1>8, <1>10, <1>11, <2>9 DEF NoSuchChannel
  <2> QED
    BY <2>1, <2>2, <2>3, <2>4, <2>5, <2>6, <2>7, <2>8, <2>9
<1>18. Alone(c) /\ ConnOK(c)'
  <2>0. stage[c] \in {"version", "kex", "auth", "service"}
    BY DEF Version, KexInit, AuthNone, AuthPublicKey, AuthPassword, AuthKeyboard,
           AuthInfo, Unimplemented, NoSuchChannel
  <2>1. plan[c].proto = "ssh"
    BY <1>4, <2>0 DEF TelnetStages
  <2> QED
    BY <1>2, <1>17, <2>1, StaysOK
<1> QED
  BY <1>17, <1>18, TypedStep

\* CHANNEL_OPEN puts one more at the end.
LEMMA ChannelOpenTyped ==
  ASSUME NEW c \in Conns, Typed, IInv, ChannelOpen(c)
  PROVE  Typed'
<1> DEFINE new == Append(channels[c], Channel(Msg(c).kind))
<1>1. /\ up[c] = "up" /\ stage[c] = "service"
      /\ channels' = [channels EXCEPT ![c] = new]
      /\ UNCHANGED << mode, plan, up, stage, timer, pending, second >>
  BY DEF ChannelOpen, Reads, link, files
<1>2. ConnOK(c)
  BY DEF Typed
<1>3. Listed(channels[c]) /\ Len(channels[c]) \in Nat
      /\ \A k \in 1 .. Len(channels[c]) : ChannelOK(mode.ttylog, channels[c][k])
  BY <1>2, ListedShape DEF ConnOK, Connection
<1>4. ChannelOK(mode.ttylog, Channel(Msg(c).kind))
  BY ChannelFresh
<1>5. /\ Listed(new) /\ Len(new) = Len(channels[c]) + 1
      /\ new[Len(channels[c]) + 1] = Channel(Msg(c).kind)
      /\ \A k \in 1 .. Len(channels[c]) : new[k] = channels[c][k]
  BY <1>3, ListedAppend
<1>6. \A k \in 1 .. Len(new) : ChannelOK(mode.ttylog, new[k])
  <2> TAKE k \in 1 .. Len(new)
  <2>1. k \in 1 .. Len(channels[c]) \/ k = Len(channels[c]) + 1
    BY <1>3, <1>5
  <2> QED
    BY <1>3, <1>4, <1>5, <2>1
<1> HIDE DEF new
<1>7. Connection(mode.ttylog, plan[c].proto, up[c], stage[c], pending[c], new)
  BY <1>1, <1>2, <1>5, <1>6 DEF ConnOK, Connection
<1>8. channels'[c] = new /\ channels' = [d \in Conns |-> channels'[d]]
      /\ \A d \in Conns \ {c} : channels'[d] = channels[d]
  BY <1>1 DEF Typed
<1>9. ConnOK(c)' /\ Alone(c)
  BY <1>1, <1>7, <1>8 DEF ConnOK, Alone, Typed
<1>10. PICK events : Emit(c, events)
  BY DEF ChannelOpen
<1> QED
  BY <1>1, <1>9, <1>10, EmitOK, TypedStep

\* What may become of a channel that takes data or an end of file
LEMMA EofReceivedOK ==
  ASSUME NEW ch, NEW new \in EofReceived(ch), NEW ttylog, ChannelOK(ttylog, ch)
  PROVE  ChannelOK(ttylog, new)
<1>1. new = LoseChannel(ch) \/ new = ch
  <2>1. ch.runs \in {"terminal", "nothing", "sftp"}
    BY DEF ChannelOK
  <2> QED
    BY <2>1 DEF EofReceived, ProtocolEof
<1> QED
  BY <1>1, ChannelLost

\* A log changes in a field that the invariant leaves open.
LEMMA LogFieldOK ==
  ASSUME NEW ttylog, NEW ch, NEW i, NEW l, ChannelOK(ttylog, ch), i \in DOMAIN ch.logs,
         /\ DOMAIN l = DOMAIN ch.logs[i] /\ l.replaced = ch.logs[i].replaced
         /\ l.closes = ch.logs[i].closes /\ l.open = ch.logs[i].open
  PROVE  /\ ChannelOK(ttylog, [ch EXCEPT !.logs[i] = l])
         /\ [ch EXCEPT !.logs[i] = l].there = ch.there
<1>1. Listed(ch.logs)
  BY DEF ChannelOK
<1>2. i \in 1 .. Len(ch.logs)
  BY <1>1, ListedShape
<1>3. LogOK(ttylog, ch.logs[i], ch.there, i = Len(ch.logs))
  BY <1>2 DEF ChannelOK
<1>4. LogOK(ttylog, l, ch.there, i = Len(ch.logs))
  BY <1>3 DEF LogOK
<1>5. ChannelOK(ttylog, [ch EXCEPT !.logs[i] = l])
  <2>1. CASE i = Len(ch.logs)
    <3>1. LogOK(ttylog, l, ch.there, TRUE) /\ (i = Len(ch.logs)) = TRUE
      BY <1>4, <2>1
    <3> QED
      BY <1>2, <3>1, LogChanged
  <2>2. CASE i # Len(ch.logs)
    <3>1. LogOK(ttylog, l, ch.there, FALSE) /\ (i = Len(ch.logs)) = FALSE
      BY <1>4, <2>2
    <3> QED
      BY <1>2, <3>1, LogChanged
  <2> QED
    BY <2>1, <2>2
<1>6. [ch EXCEPT !.logs[i] = l].there = ch.there
  BY DEF ChannelOK, ChannelFields
<1> QED
  BY <1>5, <1>6

\* A log has its fields.
LEMMA LogHasFields ==
  ASSUME NEW ttylog, NEW ch, NEW i, ChannelOK(ttylog, ch), i \in DOMAIN ch.logs
  PROVE  DOMAIN ch.logs[i] = LogFields
  BY ListedShape DEF ChannelOK, LogOK

\* A log that has had input
LEMMA StdinOK ==
  ASSUME NEW ttylog, NEW ch, NEW i, ChannelOK(ttylog, ch), i \in DOMAIN ch.logs
  PROVE  ChannelOK(ttylog, [ch EXCEPT !.logs[i].stdin = "written"])
<1> DEFINE l == [ch.logs[i] EXCEPT !.stdin = "written"]
<1>1. /\ DOMAIN l = DOMAIN ch.logs[i] /\ l.replaced = ch.logs[i].replaced
      /\ l.closes = ch.logs[i].closes /\ l.open = ch.logs[i].open
  BY LogHasFields DEF LogFields
<1>2. [ch EXCEPT !.logs[i].stdin = "written"] = [ch EXCEPT !.logs[i] = l]
  BY DEF ChannelOK, ChannelFields
<1> HIDE DEF l
<1> QED
  BY <1>1, <1>2, LogFieldOK

\* A log without its timer
LEMMA TimerOK ==
  ASSUME NEW ttylog, NEW ch, NEW i, ChannelOK(ttylog, ch), i \in DOMAIN ch.logs
  PROVE  /\ ChannelOK(ttylog, [ch EXCEPT !.logs[i].timer = FALSE])
         /\ [ch EXCEPT !.logs[i].timer = FALSE].there = ch.there
<1> DEFINE l == [ch.logs[i] EXCEPT !.timer = FALSE]
<1>1. /\ DOMAIN l = DOMAIN ch.logs[i] /\ l.replaced = ch.logs[i].replaced
      /\ l.closes = ch.logs[i].closes /\ l.open = ch.logs[i].open
  BY LogHasFields DEF LogFields
<1>2. [ch EXCEPT !.logs[i].timer = FALSE] = [ch EXCEPT !.logs[i] = l]
  BY DEF ChannelOK, ChannelFields
<1> HIDE DEF l
<1> QED
  BY <1>1, <1>2, LogFieldOK

\* A log whose command waits for a download, or no longer
LEMMA FetchOK ==
  ASSUME NEW ttylog, NEW ch, NEW i, NEW v, ChannelOK(ttylog, ch)
  PROVE  /\ ChannelOK(ttylog, [ch EXCEPT !.logs[i].fetch = v])
         /\ [ch EXCEPT !.logs[i].fetch = v].there = ch.there
<1> DEFINE l == [ch.logs[i] EXCEPT !.fetch = v]
<1>1. [ch EXCEPT !.logs[i].fetch = v] = [ch EXCEPT !.logs[i] = l]
  BY DEF ChannelOK, ChannelFields
<1>2. CASE i \in DOMAIN ch.logs
  <2>1. /\ DOMAIN l = DOMAIN ch.logs[i] /\ l.replaced = ch.logs[i].replaced
        /\ l.closes = ch.logs[i].closes /\ l.open = ch.logs[i].open
    BY <1>2, LogHasFields DEF LogFields
  <2> HIDE DEF l
  <2> QED
    BY <1>1, <1>2, <2>1, LogFieldOK
<1>3. CASE i \notin DOMAIN ch.logs
  <2> HIDE DEF l
  <2>1. [ch.logs EXCEPT ![i] = l] = ch.logs
    <3>1. ch.logs = [j \in DOMAIN ch.logs |-> ch.logs[j]]
      BY DEF ChannelOK, Listed
    <3> QED
      BY <1>3, <3>1
  <2> DEFINE new == [ch EXCEPT !.logs = [ch.logs EXCEPT ![i] = l]]
  <2>2. [ch EXCEPT !.logs[i] = l] = new
    OBVIOUS
  <2>3. /\ DOMAIN new = DOMAIN ch /\ new.logs = ch.logs /\ new.there = ch.there /\ new.runs = ch.runs
        /\ new.client = ch.client /\ new.sftp = ch.sftp
    BY <2>1 DEF ChannelOK, ChannelFields
  <2> HIDE DEF new
  <2> QED
    BY <1>1, <2>2, <2>3 DEF ChannelOK
<1> QED
  BY <1>2, <1>3

\* What the messages for a channel leave of it
LEMMA BecomesTyped ==
  ASSUME NEW c \in Conns, NEW ops, NEW ch, Typed, IInv, OnChannel(c, ops), Becomes(c, ch),
         ChannelOK(mode.ttylog, ch), UNCHANGED link, second' \in 0 .. MaxSecond,
         Range(out'.sessions) \subseteq Conns, past'.late = {}
  PROVE  Typed'
<1>1. up[c] # "lost" /\ Msg(c).ch \in DOMAIN channels[c]
  BY MineOK
<1>2. channels' = [channels EXCEPT ![c][Msg(c).ch] = ch]
  BY DEF Becomes
<1>3. UNCHANGED << mode, plan, up, stage, timer, pending >>
  BY DEF OnChannel, Reads, link
<1>4. Alone(c) /\ ConnOK(c)'
  BY <1>1, <1>2, <1>3, BecomesOK
<1> QED
  BY <1>4, TypedStep

\* A message for a channel that does not change it
LEMMA ChannelStays ==
  ASSUME NEW c \in Conns, NEW ops, Typed, OnChannel(c, ops), UNCHANGED << link, channels, files >>,
         Range(out'.sessions) \subseteq Conns, past'.late = {}
  PROVE  Typed'
<1>1. UNCHANGED << mode, plan, up, stage, timer, pending, channels, second >>
  BY DEF OnChannel, Reads, link, files
<1>2. ConnOK(c)' /\ Alone(c)
  BY <1>1 DEF Typed, ConnOK, Alone
<1> QED
  BY <1>2, TypedStep

\* CHANNEL_REQUEST
LEMMA ChannelRequestTyped ==
  ASSUME NEW c \in Conns, Typed, IInv, ChannelRequest(c)
  PROVE  Typed'
<1>1. OnChannel(c, {"request"}) /\ UNCHANGED << link, files >> /\ second' = second
  BY DEF ChannelRequest, files
<1>2. ChannelOK(mode.ttylog, Mine(c)) /\ Mine(c).there = TRUE /\ up[c] = "up"
  BY <1>1, MineOK
<1>3. Range(out.sessions) \subseteq Conns /\ past.late = {} /\ second \in 0 .. MaxSecond
      /\ mode.ttylog \in BOOLEAN
  BY DEF Typed
<1> DEFINE sftp == [Mine(c) EXCEPT !.runs = "sftp", !.sftp = [NoSftp EXCEPT !.tree = Tree]]
<1> DEFINE Starts1 == /\ Mine(c).runs # "sftp"
                      /\ \E new \in {ShellStarted(Mine(c))} \union ExecStarted(Mine(c), Msg(c).word) : Becomes(c, new)
                      /\ \E events : Emit(c, events)
           Tells == (\E events : Emit(c, events)) /\ UNCHANGED channels
<1>4. \/ Starts1
      \/ Tells
      \/ Mine(c).runs = "nothing" /\ Becomes(c, sftp) /\ UNCHANGED << out, past >>
      \/ UNCHANGED << channels, out, past >>
  BY DEF ChannelRequest
<1>5. CASE Starts1
  <2>1. PICK new \in {ShellStarted(Mine(c))} \union ExecStarted(Mine(c), Msg(c).word) :
          Becomes(c, new) /\ \E events : Emit(c, events)
    BY <1>5
  <2>2. ChannelOK(mode.ttylog, new)
    <3>1. Startable(mode.ttylog, Mine(c))
      BY <1>2, <1>5 DEF ChannelOK, Startable
    <3> QED
      BY <1>3, <2>1, <3>1, ShellStartedOK, ExecStartedOK
  <2>3. Range(out'.sessions) \subseteq Conns /\ past'.late = {}
    BY <1>2, <2>1, EmitOK
  <2> QED
    BY <1>1, <1>3, <2>1, <2>2, <2>3, BecomesTyped
<1>6. CASE Tells
  <2>1. Range(out'.sessions) \subseteq Conns /\ past'.late = {}
    BY <1>2, <1>6, EmitOK
  <2> QED
    BY <1>1, <1>6, <2>1, ChannelStays
<1>7. CASE Mine(c).runs = "nothing" /\ Becomes(c, sftp) /\ UNCHANGED << out, past >>
  <2>1. DOMAIN Mine(c) = ChannelFields
    BY <1>2 DEF ChannelOK
  <2>2. /\ DOMAIN sftp = ChannelFields /\ sftp.runs = "sftp" /\ sftp.there = Mine(c).there
        /\ sftp.logs = Mine(c).logs /\ sftp.client = Mine(c).client
        /\ sftp.sftp = [NoSftp EXCEPT !.tree = Tree]
    BY <2>1 DEF ChannelFields
  <2>5. SftpOK(sftp.sftp)
    BY <2>2, SftpFresh
  <2> HIDE DEF sftp
  <2>3. ChannelOK(mode.ttylog, sftp)
    BY <1>2, <1>7, <2>2, <2>5 DEF ChannelOK
  <2>4. Range(out'.sessions) \subseteq Conns /\ past'.late = {}
    BY <1>3, <1>7
  <2> QED
    BY <1>1, <1>3, <1>7, <2>3, <2>4, BecomesTyped
<1>8. CASE UNCHANGED << channels, out, past >>
  BY <1>1, <1>3, <1>8, ChannelStays
<1> QED
  BY <1>4, <1>5, <1>6, <1>7, <1>8

\* CHANNEL_DATA
LEMMA ChannelDataTyped ==
  ASSUME NEW c \in Conns, Typed, IInv, ChannelData(c)
  PROVE  Typed'
<1> DEFINE ch == Mine(c)
           written == [ch EXCEPT !.logs[ch.client].stdin = "written"]
           waits == [ch EXCEPT !.logs[ch.client].fetch = TRUE]
<1>1. OnChannel(c, {"data"}) /\ UNCHANGED << link, files >> /\ second' = second
  BY DEF ChannelData, files
<1>2. ChannelOK(mode.ttylog, ch) /\ ch.there = TRUE /\ up[c] = "up"
  BY <1>1, MineOK
<1>3. Range(out.sessions) \subseteq Conns /\ past.late = {} /\ second \in 0 .. MaxSecond
  BY DEF Typed
<1>4. \/ \E new : /\ Becomes(c, new)
                  /\ new \in {ch, LoseChannel(ch)} \/ (ch.client # 0 /\ new \in {written, waits})
                  /\ (\E events : Emit(c, events)) \/ UNCHANGED << out, past >>
      \/ UNCHANGED << channels, out, past >>
  <2>1. CASE ch.kind = "direct-tcpip"
    <3>1. Becomes(c, LoseChannel(ch)) /\ Emit(c, << "direct-tcpip.data" >>)
      BY <2>1 DEF ChannelData
    <3> HIDE DEF ch, written, waits
    <3> QED
      BY <3>1
  <2>2. CASE ch.kind # "direct-tcpip" /\ ch.client # 0
    <3>1. ProtocolData(c, ch, ch.client)
      BY <2>2 DEF ChannelData
    <3>2. \/ (\E next \in {ch, LoseChannel(ch)} : Becomes(c, next)) /\ UNCHANGED << out, past >>
          \/ Becomes(c, written) /\ UNCHANGED << out, past >>
          \/ UNCHANGED << channels, out, past >>
          \/ (\E next \in {ch, LoseChannel(ch), waits} : Becomes(c, next)) /\ Emit(c, << "input" >>)
      <4> HIDE DEF ch
      <4> QED
        BY <3>1 DEF ProtocolData, ProtocolEof
    <3> HIDE DEF ch, written, waits
    <3> QED
      BY <2>2, <3>2
  <2>3. CASE ch.kind # "direct-tcpip" /\ ~ (ch.client # 0)
    BY <2>3 DEF ChannelData
  <2> QED
    BY <2>1, <2>2, <2>3
<1>5. ASSUME NEW new, Becomes(c, new), (\E events : Emit(c, events)) \/ UNCHANGED << out, past >>,
             new \in {ch, LoseChannel(ch)} \/ (ch.client # 0 /\ new \in {written, waits})
      PROVE  Typed'
  <2>1. ChannelOK(mode.ttylog, new)
    <3>1. CASE new \in {ch, LoseChannel(ch)}
      <4> HIDE DEF ch
      <4> QED
        BY <1>2, <3>1, ChannelLost
    <3>2. CASE ch.client # 0 /\ new = written
      <4> HIDE DEF ch
      <4>1. ch.client \in DOMAIN ch.logs
        BY <1>2, <3>2, ListedShape DEF ChannelOK
      <4> QED
        BY <1>2, <3>2, <4>1, StdinOK
    <3>3. CASE new = waits
      <4> HIDE DEF ch
      <4> QED
        BY <1>2, <3>3, FetchOK
    <3> QED
      BY <1>5, <3>1, <3>2, <3>3
  <2>2. Range(out'.sessions) \subseteq Conns /\ past'.late = {}
    BY <1>2, <1>3, <1>5, EmitOK
  <2> QED
    BY <1>1, <1>3, <1>5, <2>1, <2>2, BecomesTyped
<1>6. CASE UNCHANGED << channels, out, past >>
  BY <1>1, <1>3, <1>6, ChannelStays
<1> HIDE DEF ch, written, waits
<1> QED
  BY <1>4, <1>5, <1>6

\* CHANNEL_EOF
LEMMA ChannelEofTyped ==
  ASSUME NEW c \in Conns, Typed, IInv, ChannelEof(c)
  PROVE  Typed'
<1>1. OnChannel(c, {"eof"}) /\ UNCHANGED << link, files, out, past >> /\ second' = second
  BY DEF ChannelEof, files
<1>2. ChannelOK(mode.ttylog, Mine(c))
  BY <1>1, MineOK
<1>3. Range(out.sessions) \subseteq Conns /\ past.late = {} /\ second \in 0 .. MaxSecond
  BY DEF Typed
<1>4. PICK new : Becomes(c, new) /\ new \in {Mine(c)} \union EofReceived(Mine(c))
  BY DEF ChannelEof
<1>5. ChannelOK(mode.ttylog, new)
  BY <1>2, <1>4, EofReceivedOK
<1> QED
  BY <1>1, <1>3, <1>4, <1>5, BecomesTyped

\* CHANNEL_CLOSE
LEMMA ChannelCloseTyped ==
  ASSUME NEW c \in Conns, Typed, IInv, ChannelClose(c)
  PROVE  Typed'
<1>1. OnChannel(c, {"close"}) /\ UNCHANGED link /\ second' = second
  BY DEF ChannelClose
<1>2. ChannelOK(mode.ttylog, Mine(c)) /\ Mine(c).there = TRUE /\ up[c] = "up"
  BY <1>1, MineOK
<1>3. mode.ttylog \in BOOLEAN /\ second \in 0 .. MaxSecond
  BY DEF Typed
<1>4. PICK r \in ChannelClosed(LoseChannel(Mine(c)), host) : Becomes(c, r.channel) /\ Emit(c, r.events)
  BY DEF ChannelClose
<1>5. ChannelOK(mode.ttylog, LoseChannel(Mine(c)))
  BY <1>2, ChannelLost
<1>6. LoseChannel(Mine(c)).there = TRUE
  BY <1>2, ChannelLost
<1>7. ChannelOK(mode.ttylog, r.channel)
  BY <1>3, <1>4, <1>5, <1>6, ClosedOK
<1>8. Range(out'.sessions) \subseteq Conns /\ past'.late = {}
  BY <1>2, <1>4, EmitOK
<1> QED
  BY <1>1, <1>3, <1>4, <1>7, <1>8, BecomesTyped

\* A request of SFTP
LEMMA SftpTyped ==
  ASSUME NEW c \in Conns, Typed, IInv, Sftp(c)
  PROVE  Typed'
<1>1. OnChannel(c, {"sftp"}) /\ UNCHANGED link
  BY DEF Sftp
<1>2. ChannelOK(mode.ttylog, Mine(c)) /\ up[c] = "up"
  BY <1>1, MineOK
<1>3. second' \in 0 .. MaxSecond
  BY DEF Sftp, Typed
<1>4. PICK r \in {Request(Mine(c).sftp, host, Msg(c), second')} :
               /\ Becomes(c, [Mine(c) EXCEPT !.sftp = r.s])
               /\ Emit(c, IF r.uploaded THEN << "file_upload" >> ELSE << >>)
  BY DEF Sftp
<1> DEFINE new == [Mine(c) EXCEPT !.sftp = r.s]
<1>7. Mine(c).runs = "sftp"
  BY DEF Sftp
<1>5. ChannelOK(mode.ttylog, new)
  <2>1. DOMAIN Mine(c) = ChannelFields
    BY <1>2 DEF ChannelOK
  <2>2. /\ DOMAIN new = ChannelFields /\ new.runs = Mine(c).runs /\ new.there = Mine(c).there
        /\ new.logs = Mine(c).logs /\ new.sftp = r.s /\ new.client = Mine(c).client
    BY <2>1 DEF ChannelFields
  <2>3. SftpOK(r.s)
    BY <1>2, RequestStep DEF ChannelOK
  <2> HIDE DEF new
  <2> QED
    BY <1>2, <1>7, <2>2, <2>3 DEF ChannelOK
<1>6. Range(out'.sessions) \subseteq Conns /\ past'.late = {}
  BY <1>2, <1>4, EmitOK
<1> QED
  BY <1>1, <1>3, <1>4, <1>5, <1>6, BecomesTyped

\* The session of a telnet client
LEMMA TelnetSessionOK ==
  ASSUME mode.ttylog \in BOOLEAN
  PROVE  ChannelOK(mode.ttylog, TelnetSession) /\ TelnetSession.there = TRUE
<1> DEFINE ch == Channel("telnet")
<1>1. /\ DOMAIN ch = ChannelFields /\ ch.there = TRUE /\ ch.logs = << >> /\ ch.sftp = NoSftp
      /\ ch.client = 0
  BY DEF Channel, ChannelFields
<1>2. Listed(<< >>) /\ Len(<< >>) = 0
  BY ListedEmpty
<1>3. TelnetSession = ShellStarted(ch)
  BY DEF TelnetSession
<1> HIDE DEF ch
<1>4. Startable(mode.ttylog, ch)
  BY <1>1, <1>2, SftpFresh DEF Startable
<1>5. ChannelOK(mode.ttylog, TelnetSession)
  BY <1>3, <1>4, ShellStartedOK
<1>6. ShellStarted(ch).there = TRUE
  BY <1>1 DEF ShellStarted, Started, ChannelFields
<1> QED
  BY <1>3, <1>5, <1>6

\* A login over telnet
LEMMA LoginTyped ==
  ASSUME NEW c \in Conns, Typed, IInv, up[c] = "up", stage[c] \in {"Password", "Discard"},
         UNCHANGED << mode, plan >>, pending'[c] = << >>, pending' = [d \in Conns |-> pending'[d]],
         \A d \in Conns \ {c} : pending'[d] = pending[d], Login(c)
  PROVE  Typed'
<1>1. PICK l \in TelnetLogins(c) :
        /\ Emit(c, l.events)
        /\ stage' = [stage EXCEPT ![c] = IF l.in THEN "Command" ELSE "User"]
        /\ timer' = [timer EXCEPT ![c] = IF l.in THEN "interactive" ELSE timer[c]]
        /\ channels' = [channels EXCEPT ![c] = IF l.in THEN << TelnetSession >> ELSE channels[c]]
  BY DEF Login
<1>2. UNCHANGED << up, second >>
  BY DEF Login, files
<1>3. ConnOK(c) /\ mode.ttylog \in BOOLEAN
  BY DEF Typed
<1>4. channels[c] = << >> /\ plan[c].proto # "ssh"
  BY <1>3 DEF ConnOK, Connection, SshStages
<1> DEFINE chs == IF l.in THEN << TelnetSession >> ELSE << >>
           st == IF l.in THEN "Command" ELSE "User"
<1>5. Listed(chs) /\ \A k \in 1 .. Len(chs) : ChannelOK(mode.ttylog, chs[k])
  <2>1. Listed(<< >>) /\ 1 .. Len(<< >>) = {}
    BY ListedEmpty
  <2>2. Listed(<< TelnetSession >>) /\ Len(<< TelnetSession >>) = 1 /\ << TelnetSession >>[1] = TelnetSession
    BY ListedSingle
  <2>3. \A k \in 1 .. Len(<< TelnetSession >>) : ChannelOK(mode.ttylog, << TelnetSession >>[k])
    <3>1. ChannelOK(mode.ttylog, TelnetSession)
      BY <1>3, TelnetSessionOK
    <3>2. \A k \in 1 .. Len(<< TelnetSession >>) : k = 1
      BY <2>2
    <3> QED
      BY <2>2, <3>1, <3>2
  <2>4. CASE l.in
    BY <2>2, <2>3, <2>4
  <2>5. CASE ~ l.in
    BY <2>1, <2>5
  <2> QED
    BY <2>4, <2>5
<1>6. channels'[c] = chs /\ channels' = [d \in Conns |-> channels'[d]]
      /\ \A d \in Conns \ {c} : channels'[d] = channels[d]
  <2>1. channels = [d \in Conns |-> channels[d]]
    BY DEF Typed
  <2>2. channels' = [channels EXCEPT ![c] = chs]
    BY <1>1, <1>4
  <2> HIDE DEF chs
  <2> QED
    BY <2>1, <2>2
<1>7. /\ stage'[c] = st /\ stage' \in [Conns -> Stages]
      /\ \A d \in Conns \ {c} : stage'[d] = stage[d]
  BY <1>1 DEF Typed, Stages, TelnetStages
<1>8. timer' \in [Conns -> {"none", "auth", "interactive"}]
  BY <1>1 DEF Typed
<1>9. Alone(c)
  BY <1>2, <1>6, <1>7, <1>8 DEF Alone, Typed
<1>10. ConnOK(c)'
  <2>1. chs # << >> => st = "Command"
    OBVIOUS
  <2>2. st \in TelnetStages /\ st # "none"
    BY DEF TelnetStages
  <2>3. Listed(<< >>)
    BY ListedEmpty
  <2> HIDE DEF chs, st
  <2>4. Connection(mode.ttylog, plan[c].proto, up[c], st, << >>, chs)
    BY <1>4, <1>5, <2>1, <2>2, <2>3 DEF Connection
  <2> QED
    BY <1>2, <1>6, <1>7, <2>4 DEF ConnOK
<1>11. Range(out'.sessions) \subseteq Conns /\ past'.late = {}
  BY <1>1, EmitOK
<1> QED
  BY <1>9, <1>10, <1>11, TypedStep

\* A channel changes, there or not, and with it the connection may be closed.
LEMMA ChannelStepTyped ==
  ASSUME NEW c \in Conns, NEW k \in DOMAIN channels[c], NEW new, Typed, IInv,
         ChannelOK(mode.ttylog, new), new.there = channels[c][k].there,
         channels' = [channels EXCEPT ![c][k] = new],
         up' = up \/ (up[c] = "up" /\ up' = [up EXCEPT ![c] = "closing"]),
         UNCHANGED << mode, plan, stage, timer, pending, second >>,
         Range(out'.sessions) \subseteq Conns, past'.late = {}
  PROVE  Typed'
<1> DEFINE old == channels[c][k]
           chs == [channels[c] EXCEPT ![k] = new]
<1>5. /\ \A d \in Conns \ {c} : up'[d] = up[d]
      /\ up'[c] = up[c] \/ (up[c] = "up" /\ up'[c] = "closing")
  BY DEF IInv, Shape
<1>6. ConnOK(c)
  BY DEF Typed
<1>7. /\ Listed(channels[c]) /\ k \in 1 .. Len(channels[c]) /\ ChannelOK(mode.ttylog, old)
      /\ up[c] = "lost" => old.there = FALSE
  BY <1>6, ListedShape DEF ConnOK, Connection
<1>9. channels' = [channels EXCEPT ![c] = chs]
  OBVIOUS
<1> HIDE DEF old
<1>10. /\ Listed(chs) /\ Len(chs) = Len(channels[c]) /\ chs[k] = new
       /\ \A j \in 1 .. Len(channels[c]) : j # k => chs[j] = channels[c][j]
  BY <1>7, ListedReplaced
<1> HIDE DEF chs
<1>11. channels' = [d \in Conns |-> channels'[d]] /\ channels'[c] = chs
       /\ \A d \in Conns \ {c} : channels'[d] = channels[d]
  BY <1>9 DEF Typed
<1>12. \A j \in 1 .. Len(chs) : ChannelOK(mode.ttylog, chs[j]) /\ (up[c] = "lost" => chs[j].there = FALSE)
  <2> TAKE j \in 1 .. Len(chs)
  <2>1. CASE j = k
    BY <1>7, <1>10, <2>1 DEF old
  <2>2. CASE j # k
    BY <1>6, <1>10, <2>2 DEF ConnOK, Connection
  <2> QED
    BY <2>1, <2>2
<1>13. channels[c] # << >>
  BY <1>7, ListedNone, ListedShape
<1>14. /\ Listed(pending[c])
       /\ stage[c] \in {"service", "Command"}
       /\ up[c] = "none" <=> stage[c] = "none"
       /\ stage[c] \in {"none"} \union (IF plan[c].proto = "ssh" THEN SshStages ELSE TelnetStages)
       /\ plan[c].proto # "ssh" /\ pending[c] # << >> => stage[c] = "Discard"
  BY <1>6, <1>13 DEF ConnOK, Connection
<1>15. Connection(mode.ttylog, plan[c].proto, up'[c], stage[c], pending[c], chs)
  <2>1. \A j \in 1 .. Len(chs) : ChannelOK(mode.ttylog, chs[j]) /\ (up'[c] = "lost" => chs[j].there = FALSE)
    BY <1>5, <1>12
  <2> QED
    BY <1>5, <1>10, <1>14, <2>1 DEF Connection
<1>16. ConnOK(c)'
  BY <1>11, <1>15 DEF ConnOK
<1>17. Alone(c)
  BY <1>5, <1>11 DEF Alone, Typed
<1> QED
  BY <1>16, <1>17, TypedStep

\* A line for the shell of a telnet client
LEMMA TelnetLineTyped ==
  ASSUME NEW c \in Conns, Typed, IInv, TelnetLine(c)
  PROVE  Typed'
<1> USE DEF Reads, files
<1>1. up[c] = "up" /\ UNCHANGED << mode, plan, stage, timer, pending, second >>
  BY DEF TelnetLine
<1>2. up' = up \/ (up[c] = "up" /\ up' = [up EXCEPT ![c] = "closing"])
  BY <1>1 DEF TelnetLine, IInv, Shape
<1>3. Range(out'.sessions) \subseteq Conns /\ past'.late = {}
  <2>1. Emit(c, << "input" >>) \/ UNCHANGED << out, past >>
    BY DEF TelnetLine
  <2> QED
    BY <1>1, <2>1, EmitOK DEF Typed
<1>4. CASE channels' = channels
  <2>1. /\ \A d \in Conns \ {c} : up'[d] = up[d]
        /\ up'[c] = up[c] \/ (up[c] = "up" /\ up'[c] = "closing")
    BY <1>2 DEF IInv, Shape
  <2>2. ConnOK(c)
    BY DEF Typed
  <2>3. ConnOK(c)'
    BY <1>1, <1>4, <2>1, <2>2 DEF ConnOK, Connection
  <2>4. Alone(c)
    BY <1>1, <1>4, <2>1 DEF Alone, Typed
  <2> QED
    BY <1>3, <2>3, <2>4, TypedStep
<1>5. CASE channels' # channels
  <2> DEFINE new == [channels[c][1] EXCEPT !.logs[1].fetch = TRUE]
  <2>1. channels' = [channels EXCEPT ![c][1].logs[1].fetch = TRUE]
    BY <1>5 DEF TelnetLine
  <2>2. channels' = [channels EXCEPT ![c][1] = new]
    BY <2>1
  <2>3. 1 \in DOMAIN channels[c]
    <3>1. SUFFICES ASSUME 1 \notin DOMAIN channels[c] PROVE channels' = channels
      BY <1>5
    <3>2. channels[c] = [j \in DOMAIN channels[c] |-> channels[c][j]]
      BY DEF Typed, ConnOK, Connection, Listed
    <3> HIDE DEF new
    <3>3. [channels[c] EXCEPT ![1] = new] = channels[c]
      BY <3>1, <3>2
    <3> QED
      BY <2>2, <3>3 DEF Typed
  <2>4. ChannelOK(mode.ttylog, channels[c][1])
    <3>1. ConnOK(c)
      BY DEF Typed
    <3>2. 1 \in 1 .. Len(channels[c])
      BY <2>3, <3>1, ListedShape DEF ConnOK, Connection
    <3> QED
      BY <3>1, <3>2 DEF ConnOK, Connection
  <2>5. ChannelOK(mode.ttylog, new) /\ new.there = channels[c][1].there
    <3> DEFINE ch == channels[c][1]
    <3> SUFFICES /\ ChannelOK(mode.ttylog, [ch EXCEPT !.logs[1].fetch = TRUE])
                 /\ [ch EXCEPT !.logs[1].fetch = TRUE].there = ch.there
      OBVIOUS
    <3>1. ChannelOK(mode.ttylog, ch)
      BY <2>4
    <3> HIDE DEF ch
    <3> QED
      BY <3>1, FetchOK
  <2> HIDE DEF new
  <2> QED
    BY <1>1, <1>2, <1>3, <2>2, <2>3, <2>5, ChannelStepTyped
<1> QED
  BY <1>4, <1>5

\* Whatever a telnet client sends
LEMMA TelnetTyped ==
  ASSUME NEW c \in Conns, Typed, IInv, TelnetMessage(c)
  PROVE  Typed'
<1> USE DEF Reads, client, link, files
<1>1. up[c] = "up" /\ UNCHANGED << mode, plan >>
  BY DEF TelnetMessage, TelnetUser, TelnetPassword, TelnetDiscard, TelnetAck, TelnetLine
<1>2. /\ up \in [Conns -> {"none", "up", "closing", "broken", "lost"}]
      /\ stage \in [Conns -> Stages] /\ timer \in [Conns -> {"none", "auth", "interactive"}]
      /\ pending = [d \in Conns |-> pending[d]]
      /\ Range(out.sessions) \subseteq Conns /\ past.late = {}
  BY DEF Typed, IInv, Shape
<1>3. /\ Listed(pending[c])
      /\ channels[c] # << >> => stage[c] \in {"service", "Command"}
      /\ stage[c] # "none"
      /\ stage[c] \in (IF plan[c].proto = "ssh" THEN SshStages ELSE TelnetStages)
      /\ plan[c].proto # "ssh" /\ pending[c] # << >> => stage[c] = "Discard"
  BY <1>1 DEF Typed, ConnOK, Connection
<1>4. SshStages = {"version", "kex", "auth", "service"} /\ TelnetStages = {"User", "Password", "Discard", "Command"}
  BY DEF SshStages, TelnetStages
<1>5. {"Password", "Discard"} \subseteq Stages
  BY DEF Stages, TelnetStages
<1>6. CASE TelnetUser(c)
  <2>1. /\ stage' = [stage EXCEPT ![c] = "Password"] /\ stage[c] = "User"
        /\ UNCHANGED << up, timer, pending, channels, out, second, past >>
    BY <1>6 DEF TelnetUser
  <2>2. Alone(c) /\ ConnOK(c)'
    BY <1>1, <1>2, <1>3, <1>4, <1>5, <2>1, StaysOK
  <2> QED
    BY <1>2, <2>1, <2>2, TypedStep
<1>7. CASE TelnetPassword(c)
  <2>1. CASE plan[c].echo
    <3>1. /\ pending' = [pending EXCEPT ![c] = << Msg(c).word >>]
          /\ stage' = [stage EXCEPT ![c] = "Discard"] /\ stage[c] = "Password"
          /\ UNCHANGED << up, timer, channels, out, second, past >>
      BY <1>7, <2>1 DEF TelnetPassword
    <3>2. Listed(<< Msg(c).word >>)
      BY ListedSingle
    <3>3. /\ stage' \in [Conns -> Stages] /\ stage'[c] = "Discard"
          /\ pending' = [d \in Conns |-> pending'[d]] /\ pending'[c] = << Msg(c).word >>
          /\ \A d \in Conns \ {c} : stage'[d] = stage[d] /\ pending'[d] = pending[d]
      BY <1>2, <1>5, <3>1
    <3>4. Alone(c) /\ ConnOK(c)'
      BY <1>1, <1>2, <1>3, <1>4, <3>1, <3>2, <3>3, StaysOK
    <3> QED
      BY <1>2, <3>1, <3>4, TypedStep
  <2>2. CASE ~ plan[c].echo
    <3>1. stage[c] = "Password" /\ pending' = pending /\ Login(c)
      BY <1>7, <2>2 DEF TelnetPassword
    <3>2. pending[c] = << >>
      BY <1>3, <1>4, <3>1
    <3> QED
      BY <1>1, <1>2, <3>1, <3>2, LoginTyped
  <2> QED
    BY <2>1, <2>2
<1>8. CASE TelnetDiscard(c)
  <2>1. /\ stage[c] = "Discard"
        /\ UNCHANGED << up, stage, timer, pending, channels, out, second, past >>
    BY <1>8 DEF TelnetDiscard
  <2>2. Alone(c) /\ ConnOK(c)'
    BY <1>1, <1>2, <1>3, <1>4, <2>1, StaysOK
  <2> QED
    BY <1>2, <2>1, <2>2, TypedStep
<1>9. CASE TelnetAck(c)
  <2>1. CASE pending[c] = << >>
    <3>1. UNCHANGED << up, stage, timer, pending, channels, out, second, past >>
      BY <1>9, <2>1 DEF TelnetAck
    <3>2. Alone(c) /\ ConnOK(c)'
      BY <1>1, <1>2, <1>3, <1>4, <2>1, <3>1, StaysOK
    <3> QED
      BY <1>2, <3>1, <3>2, TypedStep
  <2>2. CASE pending[c] # << >>
    <3>1. plan[c].proto = "telnet" /\ pending' = [pending EXCEPT ![c] = << >>] /\ Login(c)
      BY <1>9, <2>2 DEF TelnetAck
    <3>2. stage[c] = "Discard"
      BY <1>3, <2>2, <3>1
    <3>3. /\ pending' = [d \in Conns |-> pending'[d]] /\ pending'[c] = << >>
          /\ \A d \in Conns \ {c} : pending'[d] = pending[d]
      BY <1>2, <3>1
    <3> QED
      BY <1>1, <3>1, <3>2, <3>3, LoginTyped
  <2> QED
    BY <2>1, <2>2
<1>10. CASE TelnetLine(c)
  BY <1>10, TelnetLineTyped
<1> QED
  BY <1>6, <1>7, <1>8, <1>9, <1>10 DEF TelnetMessage

\* The timer of the transport
LEMMA TransportTimeoutTyped ==
  ASSUME NEW c \in Conns, Typed, IInv, TransportTimeout(c)
  PROVE  Typed'
<1>1. /\ timer' = [timer EXCEPT ![c] = "none"]
      /\ UNCHANGED << mode, plan, stage, pending, channels, out, second, past >>
      /\ up' = [up EXCEPT ![c] = IF up[c] = "up" THEN "closing" ELSE up[c]]
  BY DEF TransportTimeout, client, files
<1>2. up \in [Conns -> {"none", "up", "closing", "broken", "lost"}]
  BY DEF IInv, Shape
<1>3. /\ \A d \in Conns \ {c} : up'[d] = up[d]
      /\ up'[c] = up[c] \/ (up[c] = "up" /\ up'[c] = "closing")
  BY <1>1, <1>2
<1>4. ConnOK(c)
  BY DEF Typed
<1>5. ConnOK(c)'
  BY <1>1, <1>3, <1>4 DEF ConnOK, Connection
<1>6. Alone(c)
  BY <1>1, <1>3 DEF Alone, Typed
<1> QED
  BY <1>1, <1>5, <1>6, TypedStep DEF Typed

\* The timer of a shell
LEMMA ShellTimeoutTyped ==
  ASSUME NEW c \in Conns, Typed, IInv, ShellTimeout(c)
  PROVE  Typed'
<1>1. PICK k \in DOMAIN channels[c] : \E i \in DOMAIN channels[c][k].logs :
        LET ch == [channels[c][k] EXCEPT !.logs[i].timer = FALSE]
        IN channels' = [channels EXCEPT ![c][k] = IF ch.there THEN LoseChannel(ch) ELSE ch]
  BY DEF ShellTimeout
<1>2. PICK i \in DOMAIN channels[c][k].logs :
        LET ch == [channels[c][k] EXCEPT !.logs[i].timer = FALSE]
        IN channels' = [channels EXCEPT ![c][k] = IF ch.there THEN LoseChannel(ch) ELSE ch]
  BY <1>1
<1> DEFINE old == channels[c][k]
           ch == [old EXCEPT !.logs[i].timer = FALSE]
           new == IF ch.there THEN LoseChannel(ch) ELSE ch
<1>3. /\ UNCHANGED << mode, plan, stage, timer, pending, out, second, past >>
      /\ up' = [up EXCEPT ![c] = IF plan[c].proto = "telnet" /\ up[c] = "up" THEN "closing" ELSE up[c]]
  BY DEF ShellTimeout, client, files
<1>4. up' = up \/ (up[c] = "up" /\ up' = [up EXCEPT ![c] = "closing"])
  BY <1>3 DEF IInv, Shape
<1>7. ChannelOK(mode.ttylog, old)
  BY ListedShape DEF Typed, ConnOK, Connection
<1>8. ChannelOK(mode.ttylog, new) /\ new.there = old.there
  <2> HIDE DEF old
  <2>1. ChannelOK(mode.ttylog, ch) /\ ch.there = old.there
    BY <1>2, <1>7, TimerOK DEF old
  <2> HIDE DEF ch
  <2>3. ChannelOK(mode.ttylog, LoseChannel(ch)) /\ LoseChannel(ch).there = ch.there
    BY <2>1, ChannelLost
  <2> QED
    BY <2>1, <2>3
<1>9. channels' = [channels EXCEPT ![c][k] = new]
  BY <1>2
<1>10. Range(out'.sessions) \subseteq Conns /\ past'.late = {}
  BY <1>3 DEF Typed
<1> HIDE DEF new
<1> QED
  BY <1>3, <1>4, <1>8, <1>9, <1>10, ChannelStepTyped

\* The end of a download
LEMMA DownloadedTyped ==
  ASSUME NEW c \in Conns, Typed, IInv, Downloaded(c)
  PROVE  Typed'
<1> DEFINE Next1(k, i) == [channels[c][k] EXCEPT !.logs[i].fetch = FALSE]
           Ends(k, i) ==
             /\ \E new \in {Next1(k, i), LoseChannel(Next1(k, i))} : channels' = [channels EXCEPT ![c][k] = new]
             /\ \/ Emit(c, << "file_download" >>) /\ up[c] # "lost"
                \/ UNCHANGED << out, past >>
<1>0. PICK k \in DOMAIN channels[c] : \E i \in DOMAIN channels[c][k].logs : Ends(k, i)
  BY DEF Downloaded
<1>1. PICK i \in DOMAIN channels[c][k].logs : Ends(k, i)
  BY <1>0
<1> DEFINE old == channels[c][k]
           next == Next1(k, i)
<1>2. PICK new \in {next, LoseChannel(next)} : channels' = [channels EXCEPT ![c][k] = new]
  BY <1>1
<1>3. UNCHANGED << mode, plan, stage, timer, pending, second >>
  BY DEF Downloaded, client, files
<1>4. up' = up \/ (up[c] = "up" /\ up' = [up EXCEPT ![c] = "closing"])
  <2>1. up' = up \/ \E ends \in BOOLEAN :
          up' = [up EXCEPT ![c] = IF ends /\ plan[c].proto = "telnet" /\ up[c] = "up" THEN "closing"
                                  ELSE up[c]]
    BY DEF Downloaded
  <2> QED
    BY <2>1 DEF IInv, Shape
<1>5. ChannelOK(mode.ttylog, old)
  BY ListedShape DEF Typed, ConnOK, Connection
<1>6. ChannelOK(mode.ttylog, new) /\ new.there = old.there
  <2> HIDE DEF old
  <2>1. ChannelOK(mode.ttylog, next) /\ next.there = old.there
    BY <1>5, FetchOK DEF old
  <2> HIDE DEF next
  <2>3. ChannelOK(mode.ttylog, LoseChannel(next)) /\ LoseChannel(next).there = next.there
    BY <2>1, ChannelLost
  <2> QED
    BY <1>2, <2>1, <2>3
<1>7. Range(out'.sessions) \subseteq Conns /\ past'.late = {}
  BY <1>1, EmitOK DEF Typed
<1> HIDE DEF Next1
<1> QED
  BY <1>2, <1>3, <1>4, <1>6, <1>7, ChannelStepTyped

\* A line that cannot be decoded
LEMMA UndecodableTyped ==
  ASSUME NEW c \in Conns, Typed, IInv, Undecodable(c)
  PROVE  Typed'
<1> USE DEF Reads, OnChannel, files
<1>1. /\ up[c] = "up" /\ up' = [up EXCEPT ![c] = "broken"]
      /\ UNCHANGED << mode, plan, stage, timer, pending, channels, second, out, past >>
  BY DEF Undecodable
<1>2. up'[c] = "broken" /\ \A d \in Conns \ {c} : up'[d] = up[d]
  BY <1>1 DEF IInv, Shape
<1>3. ConnOK(c)
  BY DEF Typed
<1>4. ConnOK(c)'
  BY <1>1, <1>2, <1>3 DEF ConnOK, Connection
<1>5. Alone(c)
  BY <1>1, <1>2 DEF Alone, Typed
<1> QED
  BY <1>1, <1>4, <1>5, TypedStep DEF Typed

\* connectionLost closes every channel.
LEMMA LosesConnectionTyped ==
  ASSUME NEW c \in Conns, Typed, IInv, Live(c), LosesConnection(c)
  PROVE  Typed'
<1>1. /\ up' = [up EXCEPT ![c] = "lost"]
      /\ timer' = [timer EXCEPT ![c] = "none"]
      /\ UNCHANGED << mode, plan, stage, pending, second >>
  BY DEF LosesConnection, client
<1>2. PICK r \in AllClosed(c) : channels' = [channels EXCEPT ![c] = r.channels] /\ EmitClosed(c, r.events)
  BY DEF LosesConnection
<1>3. ConnOK(c) /\ mode.ttylog \in BOOLEAN /\ up[c] # "lost" /\ up[c] # "none"
  BY DEF Typed, Live
<1>4. Listed(channels[c]) /\ \A k \in 1 .. Len(channels[c]) : ChannelOK(mode.ttylog, channels[c][k])
  BY <1>3 DEF ConnOK, Connection
<1>5. /\ Listed(r.channels)
      /\ Len(r.channels) = Len(channels[c])
      /\ \A k \in 1 .. Len(channels[c]) : ChannelOK(mode.ttylog, r.channels[k]) /\ r.channels[k].there = FALSE
  BY <1>3, <1>4, AllClosedOK
<1>6. r.channels # << >> => channels[c] # << >>
  BY <1>4, <1>5, ListedNone
<1>7. Connection(mode.ttylog, plan[c].proto, "lost", stage[c], pending[c], r.channels)
  <2>1. /\ Listed(pending[c])
        /\ r.channels # << >> => stage[c] \in {"service", "Command"}
        /\ stage[c] # "none"
        /\ stage[c] \in {"none"} \union (IF plan[c].proto = "ssh" THEN SshStages ELSE TelnetStages)
        /\ plan[c].proto # "ssh" /\ pending[c] # << >> => stage[c] = "Discard"
    BY <1>3, <1>6 DEF ConnOK, Connection
  <2>2. \A k \in 1 .. Len(r.channels) : ChannelOK(mode.ttylog, r.channels[k]) /\ ("lost" = "lost" => r.channels[k].there = FALSE)
    BY <1>5
  <2> QED
    BY <1>5, <2>1, <2>2 DEF Connection
<1>8. channels' = [d \in Conns |-> channels'[d]] /\ channels'[c] = r.channels
      /\ \A d \in Conns \ {c} : channels'[d] = channels[d]
  BY <1>2 DEF Typed
<1>9. up'[c] = "lost" /\ \A d \in Conns \ {c} : up'[d] = up[d]
  BY <1>1 DEF IInv, Shape
<1>10. ConnOK(c)'
  BY <1>1, <1>7, <1>8, <1>9 DEF ConnOK
<1>11. Alone(c)
  BY <1>1, <1>8, <1>9 DEF Alone, Typed
<1>12. Range(out'.sessions) \subseteq Conns /\ past'.late = {}
  BY <1>2, <1>3, EmitClosedOK
<1> QED
  BY <1>10, <1>11, <1>12, TypedStep

\* connectionLost of a client that is not in yet
LEMMA LosesWaitingTyped ==
  ASSUME NEW c \in Conns, Typed, IInv, Live(c), LosesWaiting(c)
  PROVE  Typed'
<1>1. /\ up' = [up EXCEPT ![c] = "lost"]
      /\ pending' = [pending EXCEPT ![c] = << >>]
      /\ UNCHANGED << mode, plan, second >>
      /\ plan[c].proto = "telnet" /\ pending[c] # << >>
  BY DEF LosesWaiting, client, files
<1>2. PICK l \in TelnetLogins(c), r \in ChannelClosed(TelnetSession, host) :
        /\ stage' = [stage EXCEPT ![c] = IF l.in THEN "Command" ELSE "User"]
        /\ timer' = [timer EXCEPT ![c] = IF l.in THEN "interactive" ELSE "none"]
        /\ channels' = [channels EXCEPT ![c] = IF l.in THEN << r.channel >> ELSE channels[c]]
        /\ EmitClosed(c, l.events \o (IF l.in THEN r.events ELSE << >>))
  BY DEF LosesWaiting
<1>3. ConnOK(c) /\ mode.ttylog \in BOOLEAN /\ up[c] # "lost" /\ up[c] # "none"
  BY DEF Typed, Live
<1>4. channels[c] = << >>
  BY <1>1, <1>3 DEF ConnOK, Connection
<1> DEFINE chs == IF l.in THEN << r.channel >> ELSE << >>
           st == IF l.in THEN "Command" ELSE "User"
<1>5. ChannelOK(mode.ttylog, r.channel) /\ r.channel.there = FALSE
  BY <1>2, <1>3, TelnetSessionOK, ClosedOK
<1>6. Listed(chs) /\ \A k \in 1 .. Len(chs) : ChannelOK(mode.ttylog, chs[k]) /\ chs[k].there = FALSE
  <2>1. Listed(<< >>) /\ 1 .. Len(<< >>) = {}
    BY ListedEmpty
  <2> DEFINE ch == r.channel
  <2> HIDE DEF ch
  <2>2. Listed(<< ch >>) /\ Len(<< ch >>) = 1 /\ << ch >>[1] = ch
    BY ListedSingle
  <2>3. \A k \in 1 .. Len(<< ch >>) : ChannelOK(mode.ttylog, << ch >>[k]) /\ << ch >>[k].there = FALSE
    <3>1. \A k \in 1 .. Len(<< ch >>) : k = 1
      BY <2>2
    <3> QED
      BY <1>5, <2>2, <3>1 DEF ch
  <2>4. CASE l.in
    <3>1. chs = << ch >>
      BY <2>4 DEF ch
    <3> HIDE DEF chs
    <3> QED
      BY <2>2, <2>3, <3>1
  <2>5. CASE ~ l.in
    BY <2>1, <2>5
  <2> QED
    BY <2>4, <2>5
<1>7. channels'[c] = chs /\ channels' = [d \in Conns |-> channels'[d]]
      /\ \A d \in Conns \ {c} : channels'[d] = channels[d]
  <2>1. channels = [d \in Conns |-> channels[d]]
    BY DEF Typed
  <2>2. channels' = [channels EXCEPT ![c] = chs]
    BY <1>2, <1>4
  <2> HIDE DEF chs
  <2> QED
    BY <2>1, <2>2
<1>8. /\ stage'[c] = st /\ stage' \in [Conns -> Stages]
      /\ \A d \in Conns \ {c} : stage'[d] = stage[d]
  BY <1>2 DEF Typed, Stages, TelnetStages
<1>9. timer' \in [Conns -> {"none", "auth", "interactive"}]
  BY <1>2 DEF Typed
<1>10. pending' = [d \in Conns |-> pending'[d]] /\ pending'[c] = << >>
       /\ \A d \in Conns \ {c} : pending'[d] = pending[d]
  BY <1>1 DEF Typed
<1>11. up'[c] = "lost" /\ \A d \in Conns \ {c} : up'[d] = up[d]
  BY <1>1 DEF IInv, Shape
<1>12. Alone(c)
  BY <1>1, <1>7, <1>8, <1>9, <1>10, <1>11 DEF Alone, Typed
<1>13. ConnOK(c)'
  <2>1. chs # << >> => st = "Command"
    OBVIOUS
  <2>2. st \in TelnetStages /\ st # "none"
    BY DEF TelnetStages
  <2>3. Listed(<< >>)
    BY ListedEmpty
  <2> HIDE DEF chs, st
  <2>4. Connection(mode.ttylog, plan[c].proto, "lost", st, << >>, chs)
    BY <1>1, <1>6, <2>1, <2>2, <2>3 DEF Connection
  <2> QED
    BY <1>1, <1>7, <1>8, <1>10, <1>11, <2>4 DEF ConnOK
<1>14. Range(out'.sessions) \subseteq Conns /\ past'.late = {}
  BY <1>2, <1>3, EmitClosedOK
<1> QED
  BY <1>12, <1>13, <1>14, TypedStep

\* A connection comes.
LEMMA ConnectionMadeTyped ==
  ASSUME NEW c \in Conns, Typed, IInv, ConnectionMade(c)
  PROVE  Typed'
<1> DEFINE st == IF plan[c].proto = "ssh" THEN "version" ELSE "User"
           key == sessionno(plan[c].proto, nextno[plan[c].port])
<1>1. /\ up[c] = "none" /\ up' = [up EXCEPT ![c] = "up"]
      /\ stage' = [stage EXCEPT ![c] = st]
      /\ timer' = [timer EXCEPT ![c] = "auth"]
      /\ UNCHANGED << mode, plan, pending, channels, second >>
  BY DEF ConnectionMade, client, files
<1>2. ConnOK(c)
  BY DEF Typed
<1>3. channels[c] = << >> /\ Listed(pending[c]) /\ (plan[c].proto # "ssh" => pending[c] = << >>)
  BY <1>1, <1>2 DEF ConnOK, Connection
<1>4. up'[c] = "up" /\ \A d \in Conns \ {c} : up'[d] = up[d]
  BY <1>1 DEF IInv, Shape
<1>5. /\ stage'[c] = st /\ stage' \in [Conns -> Stages]
      /\ \A d \in Conns \ {c} : stage'[d] = stage[d]
  BY <1>1 DEF Typed, Stages, SshStages, TelnetStages
<1>6. timer' \in [Conns -> {"none", "auth", "interactive"}] /\ pending' = [d \in Conns |-> pending'[d]]
  BY <1>1 DEF Typed
<1>7. st \in (IF plan[c].proto = "ssh" THEN SshStages ELSE TelnetStages) /\ st # "none"
  BY DEF SshStages, TelnetStages
<1>8. Alone(c) /\ ConnOK(c)'
  <2> HIDE DEF st
  <2> QED
    BY <1>1, <1>3, <1>4, <1>5, <1>6, <1>7, StaysOK
<1>9. Range(out'.sessions) \subseteq Conns
  <2>1. out'.sessions = [k \in {key} \union DOMAIN out.sessions |-> IF k = key THEN c ELSE out.sessions[k]]
    BY DEF ConnectionMade, EmitConnect
  <2>2. \A k \in DOMAIN out.sessions : out.sessions[k] \in Conns
    BY DEF Typed, Range
  <2> HIDE DEF key
  <2> QED
    BY <2>1, <2>2 DEF Range
<1>10. past'.late = {}
  BY DEF ConnectionMade, Typed, IInv, Shape
<1> QED
  BY <1>8, <1>9, <1>10, TypedStep

\* Nothing that shows outside the database, or nothing at all
LEMMA OutsideTyped ==
  ASSUME Typed, UNCHANGED << mode, plan, up, stage, timer, pending, channels, second, past >>,
         out'.sessions = out.sessions
  PROVE  Typed'
  BY DEF Typed, ConnOK

\* For any number of clients: the types, and what is known of each connection, hold for ever.
THEOREM TypedInductive == Spec => [](IInv /\ Typed)
<1>1. Init => Typed
  <2> SUFFICES ASSUME Init PROVE Typed
    OBVIOUS
  <2> USE DEF Init, NoPast
  <2>1. mode.ttylog \in BOOLEAN
    BY SetupsAssumption
  <2>2. 0 \in 0 .. MaxSecond
    BY ServerAssumption
  <2>3. Range(<< >>) = {}
    BY ListedEmpty DEF Range
  <2>4. ASSUME NEW c \in Conns PROVE ConnOK(c)
    <3>1. Listed(<< >>) /\ 1 .. Len(<< >>) = {}
      BY ListedEmpty
    <3> QED
      BY <3>1 DEF ConnOK, Connection
  <2> QED
    BY <2>1, <2>2, <2>3, <2>4 DEF Typed, Stages
<1>2. IInv /\ Typed /\ [Next]_vars => Typed'
  <2> SUFFICES ASSUME IInv, Typed, [Next]_vars PROVE Typed'
    OBVIOUS
  <2>1. CASE UNCHANGED vars
    BY <2>1, OutsideTyped DEF vars, client, link, files
  <2>2. ASSUME NEW c \in Conns, ConnectionMade(c) PROVE Typed'
    BY <2>2, ConnectionMadeTyped
  <2>3. ASSUME NEW c \in Conns, SshMessage(c) PROVE Typed'
    BY <2>3, SshTyped, ChannelOpenTyped, ChannelRequestTyped, ChannelDataTyped, ChannelEofTyped,
       ChannelCloseTyped, SftpTyped DEF SshMessage
  <2>4. ASSUME NEW c \in Conns, TelnetMessage(c) PROVE Typed'
    BY <2>4, TelnetTyped
  <2>5. ASSUME NEW c \in Conns, TransportTimeout(c) \/ ShellTimeout(c) PROVE Typed'
    BY <2>5, TransportTimeoutTyped, ShellTimeoutTyped
  <2>6. ASSUME NEW c \in Conns, HangUp(c) \/ Lost(c) PROVE Typed'
    BY <2>6, LosesConnectionTyped, LosesWaitingTyped DEF HangUp, Lost, Live
  <2>7. CASE QueryRuns \/ AnswerArrives
    BY <2>7, OutsideTyped DEF QueryRuns, AnswerArrives, client, link, files, IInv, Shape
  <2>8. ASSUME NEW c \in Conns, Undecodable(c) \/ Downloaded(c) PROVE Typed'
    BY <2>8, UndecodableTyped, DownloadedTyped
  <2> QED
    BY <2>1, <2>2, <2>3, <2>4, <2>5, <2>6, <2>7, <2>8 DEF Next
<1>3. Init => IInv
  BY InitIInv
<1>4. IInv /\ [Next]_vars => IInv'
  BY NextIInv
<1> QED
  BY <1>1, <1>2, <1>3, <1>4, PTL DEF Spec

\* The state of the servers keeps its type, whatever the clients send and whenever they go.
THEOREM TypeCorrect == Spec => []TypeOK
<1>1. IInv /\ Typed => TypeOK
  <2> SUFFICES ASSUME IInv, Typed PROVE TypeOK
    OBVIOUS
  <2>1. ASSUME NEW c \in Conns
        PROVE  /\ up[c] = "none" <=> stage[c] = "none"
               /\ channels[c] # << >> => stage[c] \in {"service", "Command"}
               /\ \A k \in DOMAIN channels[c] :
                    (channels[c][k].runs = "terminal") <=> (channels[c][k].logs # << >>)
    <3>1. ConnOK(c)
      BY DEF Typed
    <3> QED
      BY <3>1, ListedShape DEF ConnOK, Connection, ChannelOK
  <2> QED
    BY <2>1 DEF TypeOK, Typed, IInv, Shape, Stages, SshStages, TelnetStages
<1> QED
  BY <1>1, TypedInductive, PTL

\* Whatever a client sends and whenever it goes, is thrown out or times out: no terminal
\* log is closed twice, when the connection is over each was closed but those whose
\* protocol was replaced by another, and no event came after the end (insults.py).
THEOREM LogsAreClosed == Spec => []LogsClosed
<1>1. IInv /\ Typed => LogsClosed
  <2> SUFFICES ASSUME IInv, Typed PROVE LogsClosed
    OBVIOUS
  <2>1. ASSUME NEW c \in Conns, NEW k \in DOMAIN channels[c], NEW i \in DOMAIN channels[c][k].logs
        PROVE  LET l == channels[c][k].logs[i]
               IN /\ l.closes <= 1
                  /\ up[c] = "lost" /\ mode.ttylog => (l.closes = 1 <=> ~l.replaced)
    <3> DEFINE ch == channels[c][k]
               l == ch.logs[i]
    <3>1. ConnOK(c)
      BY DEF Typed
    <3>2. ChannelOK(mode.ttylog, ch) /\ (up[c] = "lost" => ch.there = FALSE)
      BY <3>1, ListedShape DEF ConnOK, Connection
    <3> HIDE DEF ch
    <3>3. LogOK(mode.ttylog, l, ch.there, i = Len(ch.logs))
      BY <3>2, ListedShape DEF ChannelOK, ch
    <3> HIDE DEF l
    <3>4. mode.ttylog \in BOOLEAN
      BY DEF Typed
    <3>5. CASE i = Len(ch.logs)
      <4>1. l.replaced = FALSE /\ l.closes = IF mode.ttylog /\ ~ch.there THEN 1 ELSE 0
        BY <3>3, <3>5 DEF LogOK
      <4> QED
        BY <3>2, <3>4, <4>1 DEF l, ch
    <3>6. CASE i # Len(ch.logs)
      <4>1. l.replaced = TRUE /\ l.closes = 0
        BY <3>3, <3>6 DEF LogOK
      <4> QED
        BY <4>1 DEF l, ch
    <3> QED
      BY <3>5, <3>6
  <2> QED
    BY <2>1 DEF LogsClosed, Typed
<1> QED
  BY <1>1, TypedInductive, PTL

-----------------------------------------------------------------------------
(* The database.                                                           *)

\* The fields of the database and its connection pool
DbFields == {"queue", "answers", "sensor", "versions", "last", "rows"}

\* The fields of a row of sessions
RowFields == {"there", "sensor", "client", "ended"}

\* The queries whose answers something waits for
WaitedFor == {"SELECT", "INSERT for", "LAST_INSERT_ID"}

\* The shape of the output's record of the database
DbOK(db) ==
  /\ DOMAIN db = DbFields
  /\ Listed(db.queue) /\ Listed(db.answers)
  /\ db.sensor \in BOOLEAN /\ db.versions \in BOOLEAN
  /\ \A i \in 1 .. Len(db.answers) : db.answers[i].op \in WaitedFor /\ db.answers[i].found \in BOOLEAN
  /\ DOMAIN db.rows = Conns
  /\ \A c \in Conns : DOMAIN db.rows[c] = RowFields /\ db.rows[c].there \in BOOLEAN

\* The query that makes the row of c
Starts(q, c) == q.op = "INSERT sessions" /\ q.id = c

\* The query that ends it
Ends(q, c) == q.op = "UPDATE endtime" /\ q.id = c

\* The row of c says that c is over, or will: the query that writes it follows.
Kept(db, c) ==
  \/ db.rows[c].there = TRUE /\ db.rows[c].ended = TRUE
  \/ db.rows[c].there = TRUE /\ \E j \in 1 .. Len(db.queue) : Ends(db.queue[j], c)
  \/ \E i, j \in 1 .. Len(db.queue) : i < j /\ Starts(db.queue[i], c) /\ Ends(db.queue[j], c)

\* What runQuery changes
LEMMA QueriesFields ==
  ASSUME NEW db, NEW qs, DbOK(db)
  PROVE  /\ DOMAIN runQueries(db, qs) = DbFields
         /\ runQueries(db, qs).queue = db.queue \o qs
         /\ runQueries(db, qs).answers = db.answers
         /\ runQueries(db, qs).sensor = db.sensor
         /\ runQueries(db, qs).versions = db.versions
         /\ runQueries(db, qs).rows = db.rows
  BY DEF runQueries, DbOK, DbFields

\* More queries in the queue
LEMMA QueriesOK ==
  ASSUME NEW db, NEW qs, DbOK(db), Listed(qs)
  PROVE  DbOK(runQueries(db, qs))
<1> DEFINE new == runQueries(db, qs)
<1>1. /\ DOMAIN new = DbFields /\ new.queue = db.queue \o qs /\ new.answers = db.answers
      /\ new.sensor = db.sensor /\ new.versions = db.versions /\ new.rows = db.rows
  BY QueriesFields
<1>2. Listed(new.queue)
  BY <1>1, ListedConcat DEF DbOK
<1> HIDE DEF new
<1> QED
  BY <1>1, <1>2 DEF DbOK, new

\* More queries in the queue take no row away.
LEMMA QueriesKept ==
  ASSUME NEW db, NEW qs, NEW c, DbOK(db), Listed(qs), Kept(db, c)
  PROVE  Kept(runQueries(db, qs), c)
<1> DEFINE new == runQueries(db, qs)
<1>1. new.queue = db.queue \o qs /\ new.rows = db.rows
  BY QueriesFields
<1>2. Listed(db.queue) /\ Len(db.queue) \in Nat /\ Len(qs) \in Nat
  BY ListedShape DEF DbOK
<1>3. /\ Len(new.queue) = Len(db.queue) + Len(qs)
      /\ \A i \in 1 .. Len(db.queue) : new.queue[i] = db.queue[i]
  BY <1>1, <1>2, ListedConcat
<1>4. \A i \in 1 .. Len(db.queue) : i \in 1 .. Len(new.queue)
  BY <1>2, <1>3
<1> HIDE DEF new
<1> QED
  BY <1>1, <1>3, <1>4 DEF Kept, new

\* The end of a session that is asked for is asked after its row.
LEMMA QueriesEnd ==
  ASSUME NEW db, NEW qs, NEW c, NEW j \in 1 .. Len(qs), DbOK(db), Listed(qs), Asked(db, c), Ends(qs[j], c)
  PROVE  Kept(runQueries(db, qs), c)
<1> DEFINE new == runQueries(db, qs)
<1>1. new.queue = db.queue \o qs /\ new.rows = db.rows
  BY QueriesFields
<1>2. Listed(db.queue) /\ Len(db.queue) \in Nat /\ Len(qs) \in Nat /\ DOMAIN db.queue = 1 .. Len(db.queue)
  BY ListedShape DEF DbOK
<1>3. /\ Len(new.queue) = Len(db.queue) + Len(qs)
      /\ \A i \in 1 .. Len(db.queue) : new.queue[i] = db.queue[i]
      /\ new.queue[Len(db.queue) + j] = qs[j]
  BY <1>1, <1>2, ListedConcat
<1>4. Len(db.queue) + j \in 1 .. Len(new.queue)
  BY <1>2, <1>3
<1>5. Ends(new.queue[Len(db.queue) + j], c)
  BY <1>3
<1>6. CASE db.rows[c].there
  <2>1. new.rows[c].there = TRUE
    BY <1>1, <1>6
  <2> HIDE DEF new
  <2> QED
    BY <1>4, <1>5, <2>1 DEF Kept, new
<1>7. CASE ~db.rows[c].there
  <2>1. PICK i \in 1 .. Len(db.queue) : Starts(db.queue[i], c)
    BY <1>2, <1>7 DEF Asked, Starts
  <2>2. i \in 1 .. Len(new.queue) /\ i < Len(db.queue) + j /\ Starts(new.queue[i], c)
    BY <1>2, <1>3, <2>1
  <2> HIDE DEF new
  <2> QED
    BY <1>4, <1>5, <2>2 DEF Kept, new
<1> QED
  BY <1>6, <1>7

\* What is left of a list without its first element
LEMMA ListedRest ==
  ASSUME NEW s, Listed(s), Len(s) > 0
  PROVE  /\ Listed(RemoveAt(s, 1)) /\ Listed(Tail(s))
         /\ Len(RemoveAt(s, 1)) = Len(s) - 1 /\ Len(Tail(s)) = Len(s) - 1
         /\ \A i \in 1 .. Len(s) - 1 : RemoveAt(s, 1)[i] = s[i + 1] /\ Tail(s)[i] = s[i + 1]
<1>1. PICK S : s \in Seq(S)
  BY DEF Listed
<1>2. Len(s) \in Nat
  BY <1>1
<1>3. SubSeq(s, 1, 0) = << >>
  BY SubSeqEmpty
<1>4. /\ SubSeq(s, 2, Len(s)) \in Seq(S) /\ Len(SubSeq(s, 2, Len(s))) = Len(s) - 1
      /\ \A i \in 1 .. Len(s) - 1 : SubSeq(s, 2, Len(s))[i] = s[i + 1]
  <2>1. \A i \in 2 .. Len(s) : s[i] \in S
    BY <1>1, <1>2
  <2>2. /\ SubSeq(s, 2, Len(s)) \in Seq(S)
        /\ Len(SubSeq(s, 2, Len(s))) = IF 2 <= Len(s) THEN Len(s) - 2 + 1 ELSE 0
        /\ \A i \in 1 .. Len(s) - 2 + 1 : SubSeq(s, 2, Len(s))[i] = s[2 + i - 1]
    BY <1>2, <2>1, SubSeqProperties
  <2>3. \A i \in 1 .. Len(s) - 1 : i \in 1 .. Len(s) - 2 + 1 /\ 2 + i - 1 = i + 1
    BY <1>2
  <2>4. (IF 2 <= Len(s) THEN Len(s) - 2 + 1 ELSE 0) = Len(s) - 1
    BY <1>2
  <2> QED
    BY <2>2, <2>3, <2>4
<1>5. RemoveAt(s, 1) = SubSeq(s, 1, 0) \o SubSeq(s, 2, Len(s))
  BY DEF RemoveAt
<1>6. RemoveAt(s, 1) = SubSeq(s, 2, Len(s))
  BY <1>3, <1>4, <1>5, ConcatEmptySeq
<1>7. Tail(s) \in Seq(S) /\ Len(Tail(s)) = Len(s) - 1 /\ \A i \in 1 .. Len(s) - 1 : Tail(s)[i] = s[i + 1]
  BY <1>1, <1>2
<1> QED
  BY <1>4, <1>6, <1>7 DEF Listed

\* The rows after query q
RowsAfter(rows, q) ==
  IF q.op = "INSERT sessions" THEN [rows EXCEPT ![q.id].there = TRUE, ![q.id].sensor = q.for]
  ELSE IF q.op = "UPDATE client" /\ rows[q.id].there THEN [rows EXCEPT ![q.id].client = q.for]
  ELSE IF q.op = "UPDATE endtime" /\ rows[q.id].there THEN [rows EXCEPT ![q.id].ended = TRUE]
  ELSE rows

\* What a thread leaves of the queue, and of what was there before
LEMMA RanFields ==
  ASSUME NEW db, NEW q, DbOK(db), q = db.queue[1]
  PROVE  /\ DOMAIN Ran(db, 1) = DbFields
         /\ Ran(db, 1).queue = RemoveAt(db.queue, 1)
         /\ Ran(db, 1).sensor \in BOOLEAN /\ Ran(db, 1).versions \in BOOLEAN
         /\ Ran(db, 1).answers =
              IF q.op \in WaitedFor
              THEN Append(db.answers, [op |-> q.op, id |-> q.id, for |-> q.for,
                                       found |-> Known(db, q.for), last |-> db.last])
              ELSE db.answers
         /\ Ran(db, 1).rows = RowsAfter(db.rows, q)
<1> DEFINE rest == [db EXCEPT !.queue = RemoveAt(db.queue, 1)]
           answer == [op |-> q.op, id |-> q.id, for |-> q.for, found |-> Known(db, q.for), last |-> db.last]
           sensor == db.sensor \/ q.for = "sensors"
           versions == db.versions \/ q.for = "clients"
           inserted == [rest EXCEPT !.last = q.for, !.sensor = sensor, !.versions = versions]
           started == [db.rows EXCEPT ![q.id].there = TRUE, ![q.id].sensor = q.for]
<1>1. /\ DOMAIN rest = DbFields /\ rest.queue = RemoveAt(db.queue, 1) /\ rest.answers = db.answers
      /\ rest.sensor = db.sensor /\ rest.versions = db.versions /\ rest.rows = db.rows
  BY DEF DbOK, DbFields
<1>2. /\ DOMAIN inserted = DbFields /\ inserted.queue = rest.queue /\ inserted.answers = rest.answers
      /\ inserted.sensor = sensor /\ inserted.versions = versions
      /\ inserted.rows = rest.rows
  <2> HIDE DEF rest, sensor, versions
  <2> QED
    BY <1>1 DEF DbFields
<1>3. db.sensor \in BOOLEAN /\ db.versions \in BOOLEAN
  BY DEF DbOK
<1>4. sensor \in BOOLEAN /\ versions \in BOOLEAN
  BY <1>3
<1>5. CASE q.op \in {"SELECT", "LAST_INSERT_ID"}
  <2>1. Ran(db, 1) = [rest EXCEPT !.answers = Append(rest.answers, answer)]
    BY <1>5 DEF Ran
  <2> HIDE DEF rest, answer
  <2>2. /\ DOMAIN Ran(db, 1) = DbFields /\ Ran(db, 1).queue = rest.queue
        /\ Ran(db, 1).answers = Append(rest.answers, answer)
        /\ Ran(db, 1).sensor = rest.sensor /\ Ran(db, 1).versions = rest.versions /\ Ran(db, 1).rows = rest.rows
    BY <1>1, <2>1 DEF DbFields
  <2> QED
    BY <1>1, <1>3, <1>5, <2>2 DEF WaitedFor, RowsAfter, answer
<1>6. CASE q.op = "INSERT for"
  <2>1. Ran(db, 1) = [inserted EXCEPT !.answers = Append(inserted.answers, answer)]
    BY <1>6 DEF Ran
  <2> HIDE DEF rest, inserted, answer, sensor, versions
  <2>2. /\ DOMAIN Ran(db, 1) = DbFields /\ Ran(db, 1).queue = inserted.queue
        /\ Ran(db, 1).answers = Append(inserted.answers, answer)
        /\ Ran(db, 1).sensor = inserted.sensor /\ Ran(db, 1).versions = inserted.versions
        /\ Ran(db, 1).rows = inserted.rows
    BY <1>2, <2>1 DEF DbFields
  <2> QED
    BY <1>1, <1>2, <1>4, <1>6, <2>2 DEF WaitedFor, RowsAfter, answer
<1>7. CASE q.op = "INSERT"
  <2>1. Ran(db, 1) = [rest EXCEPT !.last = q.for]
    BY <1>7 DEF Ran
  <2> HIDE DEF rest
  <2>2. /\ DOMAIN Ran(db, 1) = DbFields /\ Ran(db, 1).queue = rest.queue /\ Ran(db, 1).answers = rest.answers
        /\ Ran(db, 1).sensor = rest.sensor /\ Ran(db, 1).versions = rest.versions /\ Ran(db, 1).rows = rest.rows
    BY <1>1, <2>1 DEF DbFields
  <2> QED
    BY <1>1, <1>3, <1>7, <2>2 DEF WaitedFor, RowsAfter
<1>8. CASE q.op = "INSERT sessions"
  <2> DEFINE r1 == [rest EXCEPT !.last = "sessions"]
             r2 == [r1 EXCEPT !.rows[q.id].there = TRUE]
             r3 == [r2 EXCEPT !.rows[q.id].sensor = q.for]
  <2>1. Ran(db, 1) = r3
    BY <1>8 DEF Ran
  <2>2. /\ DOMAIN r1 = DbFields /\ r1.queue = rest.queue /\ r1.answers = rest.answers
        /\ r1.sensor = rest.sensor /\ r1.versions = rest.versions /\ r1.rows = rest.rows
    <3> HIDE DEF rest
    <3> QED
      BY <1>1 DEF DbFields
  <2>3. /\ DOMAIN r2 = DbFields /\ r2.queue = rest.queue /\ r2.answers = rest.answers
        /\ r2.sensor = rest.sensor /\ r2.versions = rest.versions
        /\ r2.rows = [rest.rows EXCEPT ![q.id].there = TRUE]
    <3> HIDE DEF r1
    <3> QED
      BY <2>2 DEF DbFields
  <2>4. /\ DOMAIN r3 = DbFields /\ r3.queue = rest.queue /\ r3.answers = rest.answers
        /\ r3.sensor = rest.sensor /\ r3.versions = rest.versions
        /\ r3.rows = [r2.rows EXCEPT ![q.id].sensor = q.for]
    <3> HIDE DEF r2
    <3> QED
      BY <2>3 DEF DbFields
  <2>5. r3.rows = started
    BY <1>1, <2>3, <2>4
  <2> HIDE DEF rest, r3, started
  <2> QED
    BY <1>1, <1>3, <1>8, <2>1, <2>4, <2>5 DEF WaitedFor, RowsAfter, started
<1>9. CASE q.op = "UPDATE client" /\ db.rows[q.id].there
  <2> DEFINE rows == [rest.rows EXCEPT ![q.id].client = q.for]
  <2>1. Ran(db, 1) = [rest EXCEPT !.rows = rows]
    BY <1>1, <1>9 DEF Ran
  <2>2. rows = [db.rows EXCEPT ![q.id].client = q.for]
    BY <1>1
  <2> HIDE DEF rest, rows
  <2>3. /\ DOMAIN Ran(db, 1) = DbFields /\ Ran(db, 1).queue = rest.queue /\ Ran(db, 1).answers = rest.answers
        /\ Ran(db, 1).sensor = rest.sensor /\ Ran(db, 1).versions = rest.versions /\ Ran(db, 1).rows = rows
    BY <1>1, <2>1 DEF DbFields
  <2> QED
    BY <1>1, <1>3, <1>9, <2>2, <2>3 DEF WaitedFor, RowsAfter
<1>10. CASE q.op = "UPDATE endtime" /\ db.rows[q.id].there
  <2> DEFINE rows == [rest.rows EXCEPT ![q.id].ended = TRUE]
  <2>1. Ran(db, 1) = [rest EXCEPT !.rows = rows]
    BY <1>1, <1>10 DEF Ran
  <2>2. rows = [db.rows EXCEPT ![q.id].ended = TRUE]
    BY <1>1
  <2> HIDE DEF rest, rows
  <2>3. /\ DOMAIN Ran(db, 1) = DbFields /\ Ran(db, 1).queue = rest.queue /\ Ran(db, 1).answers = rest.answers
        /\ Ran(db, 1).sensor = rest.sensor /\ Ran(db, 1).versions = rest.versions /\ Ran(db, 1).rows = rows
    BY <1>1, <2>1 DEF DbFields
  <2> QED
    BY <1>1, <1>3, <1>10, <2>2, <2>3 DEF WaitedFor, RowsAfter
<1>11. CASE /\ q.op \notin WaitedFor \union {"INSERT", "INSERT sessions"}
            /\ ~(q.op = "UPDATE client" /\ db.rows[q.id].there)
            /\ ~(q.op = "UPDATE endtime" /\ db.rows[q.id].there)
  <2>1. Ran(db, 1) = rest
    BY <1>11 DEF Ran, WaitedFor
  <2> HIDE DEF rest
  <2> QED
    BY <1>1, <1>3, <1>11, <2>1 DEF WaitedFor, RowsAfter
<1> QED
  BY <1>5, <1>6, <1>7, <1>8, <1>9, <1>10, <1>11 DEF WaitedFor, RowsAfter

\* The rows after a thread has run a query
LEMMA RowsRan ==
  ASSUME NEW db, NEW q, DbOK(db), q = db.queue[1]
  PROVE  /\ DOMAIN Ran(db, 1).rows = Conns
         /\ \A c \in Conns : /\ DOMAIN Ran(db, 1).rows[c] = RowFields
                             /\ Ran(db, 1).rows[c].there \in BOOLEAN
                             /\ db.rows[c].there = TRUE => Ran(db, 1).rows[c].there = TRUE
                             /\ db.rows[c].ended = TRUE => Ran(db, 1).rows[c].ended = TRUE
                             /\ Starts(q, c) => Ran(db, 1).rows[c].there = TRUE
                             /\ Ends(q, c) /\ db.rows[c].there = TRUE => Ran(db, 1).rows[c].ended = TRUE
<1> DEFINE rows == db.rows
           new == Ran(db, 1).rows
<1>1. DOMAIN rows = Conns /\ \A c \in Conns : DOMAIN rows[c] = RowFields /\ rows[c].there \in BOOLEAN
  BY DEF DbOK
<1>2. new = RowsAfter(rows, q)
  BY RanFields
<1> HIDE DEF rows, new
<1>3. CASE q.op = "INSERT sessions"
  <2> DEFINE r1 == [rows EXCEPT ![q.id].there = TRUE]
             r2 == [r1 EXCEPT ![q.id].sensor = q.for]
  <2>1. new = r2
    BY <1>2, <1>3 DEF RowsAfter
  <2>2. DOMAIN r1 = Conns
    BY <1>1
  <2>3. \A c \in Conns : /\ DOMAIN r1[c] = RowFields /\ r1[c].there \in BOOLEAN
                         /\ rows[c].there = TRUE => r1[c].there = TRUE
                         /\ rows[c].ended = TRUE => r1[c].ended = TRUE
                         /\ c = q.id => r1[c].there = TRUE
    BY <1>1 DEF RowFields
  <2> HIDE DEF r1
  <2>4. DOMAIN r2 = Conns
    BY <2>2
  <2>5. \A c \in Conns : /\ DOMAIN r2[c] = RowFields /\ r2[c].there = r1[c].there /\ r2[c].ended = r1[c].ended
    BY <2>2, <2>3 DEF RowFields
  <2> HIDE DEF r2
  <2> QED
    BY <1>3, <2>1, <2>3, <2>4, <2>5 DEF Starts, Ends, rows, new
<1>4. CASE q.op = "UPDATE client" /\ rows[q.id].there
  <2> DEFINE r == [rows EXCEPT ![q.id].client = q.for]
  <2>1. new = r
    BY <1>2, <1>4 DEF RowsAfter
  <2>2. DOMAIN r = Conns
    BY <1>1
  <2>3. \A c \in Conns : DOMAIN r[c] = RowFields /\ r[c].there = rows[c].there /\ r[c].ended = rows[c].ended
    BY <1>1 DEF RowFields
  <2> HIDE DEF r
  <2> QED
    BY <1>1, <1>4, <2>1, <2>2, <2>3 DEF Starts, Ends, rows, new
<1>5. CASE q.op = "UPDATE endtime" /\ rows[q.id].there
  <2> DEFINE r == [rows EXCEPT ![q.id].ended = TRUE]
  <2>1. new = r
    BY <1>2, <1>5 DEF RowsAfter
  <2>2. DOMAIN r = Conns
    BY <1>1
  <2>3. \A c \in Conns : /\ DOMAIN r[c] = RowFields /\ r[c].there = rows[c].there
                         /\ rows[c].ended = TRUE => r[c].ended = TRUE
                         /\ c = q.id => r[c].ended = TRUE
    BY <1>1 DEF RowFields
  <2> HIDE DEF r
  <2> QED
    BY <1>1, <1>5, <2>1, <2>2, <2>3 DEF Starts, Ends, rows, new
<1>6. CASE /\ q.op # "INSERT sessions" /\ ~(q.op = "UPDATE client" /\ rows[q.id].there)
           /\ ~(q.op = "UPDATE endtime" /\ rows[q.id].there)
  <2>1. new = rows
    BY <1>2, <1>6 DEF RowsAfter
  <2>2. \A c \in Conns : Ends(q, c) => rows[c].there # TRUE
    BY <1>6 DEF Ends
  <2>3. \A c \in Conns : ~Starts(q, c)
    BY <1>6 DEF Starts
  <2> QED
    BY <1>1, <2>1, <2>2, <2>3 DEF rows, new
<1> QED
  BY <1>3, <1>4, <1>5, <1>6

\* A thread takes the queries in their order.
LEMMA RanOK ==
  ASSUME NEW db, DbOK(db), Len(db.queue) > 0
  PROVE  DbOK(Ran(db, 1))
<1> DEFINE new == Ran(db, 1)
           q == db.queue[1]
           answer == [op |-> q.op, id |-> q.id, for |-> q.for, found |-> Known(db, q.for), last |-> db.last]
<1>1. /\ DOMAIN new = DbFields /\ new.queue = RemoveAt(db.queue, 1)
      /\ new.sensor \in BOOLEAN /\ new.versions \in BOOLEAN
      /\ new.answers = IF q.op \in WaitedFor THEN Append(db.answers, answer) ELSE db.answers
  BY RanFields
<1>2. DOMAIN new.rows = Conns /\ \A c \in Conns : DOMAIN new.rows[c] = RowFields /\ new.rows[c].there \in BOOLEAN
  BY RowsRan
<1>3. Listed(new.queue)
  BY <1>1, ListedRest DEF DbOK
<1>4. Known(db, q.for) \in BOOLEAN
  BY DEF Known, DbOK
<1>5. answer.op = q.op /\ answer.found \in BOOLEAN
  BY <1>4
<1>6. /\ Listed(db.answers) /\ Len(db.answers) \in Nat
      /\ \A i \in 1 .. Len(db.answers) : db.answers[i].op \in WaitedFor /\ db.answers[i].found \in BOOLEAN
  BY ListedShape DEF DbOK
<1> HIDE DEF new, q, answer
<1>7. CASE q.op \in WaitedFor
  <2>1. new.answers = Append(db.answers, answer)
    BY <1>1, <1>7
  <2>2. /\ Listed(new.answers) /\ Len(new.answers) = Len(db.answers) + 1
        /\ \A i \in 1 .. Len(db.answers) : new.answers[i] = db.answers[i]
        /\ new.answers[Len(db.answers) + 1] = answer
    BY <1>6, <2>1, ListedAppend
  <2>3. \A i \in 1 .. Len(new.answers) : new.answers[i].op \in WaitedFor /\ new.answers[i].found \in BOOLEAN
    BY <1>5, <1>6, <1>7, <2>2
  <2> QED
    BY <1>1, <1>2, <1>3, <2>2, <2>3 DEF DbOK, new
<1>8. CASE q.op \notin WaitedFor
  BY <1>1, <1>2, <1>3, <1>6, <1>8 DEF DbOK, new
<1> QED
  BY <1>7, <1>8

\* A thread that runs the query at the head of the queue runs none out of turn.
LEMMA RanKept ==
  ASSUME NEW db, NEW c \in Conns, DbOK(db), Len(db.queue) > 0, Kept(db, c)
  PROVE  Kept(Ran(db, 1), c)
<1> DEFINE new == Ran(db, 1)
           q == db.queue[1]
<1>1. new.queue = RemoveAt(db.queue, 1)
  BY RanFields
<1>2. /\ db.rows[c].there = TRUE => new.rows[c].there = TRUE
      /\ db.rows[c].ended = TRUE => new.rows[c].ended = TRUE
      /\ Starts(q, c) => new.rows[c].there = TRUE
      /\ Ends(q, c) /\ db.rows[c].there = TRUE => new.rows[c].ended = TRUE
  BY RowsRan
<1>3. Listed(db.queue) /\ Len(db.queue) \in Nat
  BY ListedShape DEF DbOK
<1>4. Len(new.queue) = Len(db.queue) - 1 /\ \A i \in 1 .. Len(db.queue) - 1 : new.queue[i] = db.queue[i + 1]
  BY <1>1, <1>3, ListedRest
<1>5. \A i \in 1 .. Len(db.queue) : i # 1 => i - 1 \in 1 .. Len(new.queue) /\ new.queue[i - 1] = db.queue[i]
  <2> SUFFICES ASSUME NEW i \in 1 .. Len(db.queue), i # 1
               PROVE  i - 1 \in 1 .. Len(new.queue) /\ new.queue[i - 1] = db.queue[i]
    OBVIOUS
  <2>1. i - 1 \in 1 .. Len(db.queue) - 1 /\ (i - 1) + 1 = i
    BY <1>3
  <2> HIDE DEF new
  <2> QED
    BY <1>4, <2>1
<1> HIDE DEF new
<1>6. CASE db.rows[c].there = TRUE /\ db.rows[c].ended = TRUE
  BY <1>2, <1>6 DEF Kept, new
<1>7. CASE db.rows[c].there = TRUE /\ \E j \in 1 .. Len(db.queue) : Ends(db.queue[j], c)
  <2>1. PICK j \in 1 .. Len(db.queue) : Ends(db.queue[j], c)
    BY <1>7
  <2>2. CASE j = 1
    BY <1>2, <1>7, <2>1, <2>2 DEF Kept, new
  <2>3. CASE j # 1
    BY <1>2, <1>5, <1>7, <2>1, <2>3 DEF Kept, new
  <2> QED
    BY <2>2, <2>3
<1>8. CASE \E i, j \in 1 .. Len(db.queue) : i < j /\ Starts(db.queue[i], c) /\ Ends(db.queue[j], c)
  <2>1. PICK i \in 1 .. Len(db.queue), j \in 1 .. Len(db.queue) :
               i < j /\ Starts(db.queue[i], c) /\ Ends(db.queue[j], c)
    BY <1>8
  <2>2. j # 1
    BY <1>3, <2>1
  <2>3. CASE i = 1
    BY <1>2, <1>5, <2>1, <2>2, <2>3 DEF Kept, new
  <2>4. CASE i # 1
    <3>1. i - 1 < j - 1
      BY <1>3, <2>1
    <3> QED
      BY <1>5, <2>1, <2>2, <2>4, <3>1 DEF Kept, new
  <2> QED
    BY <2>3, <2>4
<1> QED
  BY <1>6, <1>7, <1>8 DEF Kept

\* What the reactor goes on with is one more query.
LEMMA ResumedQueries ==
  ASSUME NEW db, DbOK(db), Len(db.answers) > 0
  PROVE  \E q : Resumed(db) = runQueries([db EXCEPT !.answers = Tail(db.answers)], << q >>)
<1>1. Listed(db.answers) /\ Len(db.answers) \in Nat
  BY ListedShape DEF DbOK
<1>2. Head(db.answers) = db.answers[1]
  OBVIOUS
<1>3. Head(db.answers).op \in WaitedFor /\ Head(db.answers).found \in BOOLEAN
  BY <1>1, <1>2 DEF DbOK
<1> DEFINE a == Head(db.answers)
           rest == [db EXCEPT !.answers = Tail(db.answers)]
<1> HIDE DEF a
<1>4. CASE a.op = "SELECT" /\ a.found
  BY <1>4 DEF Resumed, Found, simpleQuery, a
<1>5. CASE a.op = "SELECT" /\ ~a.found
  BY <1>5 DEF Resumed, a
<1>6. CASE a.op = "INSERT for"
  BY <1>6 DEF Resumed, a
<1>7. CASE a.op = "LAST_INSERT_ID"
  BY <1>7 DEF Resumed, Found, simpleQuery, a
<1> QED
  BY <1>3, <1>4, <1>5, <1>6, <1>7 DEF WaitedFor, a

\* An answer taken
LEMMA RestOK ==
  ASSUME NEW db, DbOK(db), Len(db.answers) > 0
  PROVE  /\ DbOK([db EXCEPT !.answers = Tail(db.answers)])
         /\ [db EXCEPT !.answers = Tail(db.answers)].queue = db.queue
         /\ [db EXCEPT !.answers = Tail(db.answers)].rows = db.rows
<1> DEFINE rest == [db EXCEPT !.answers = Tail(db.answers)]
<1>1. /\ DOMAIN rest = DbFields /\ rest.queue = db.queue /\ rest.answers = Tail(db.answers)
      /\ rest.sensor = db.sensor /\ rest.versions = db.versions /\ rest.rows = db.rows
  BY DEF DbOK, DbFields
<1>2. Listed(db.answers) /\ Len(db.answers) \in Nat
  BY ListedShape DEF DbOK
<1>3. /\ Listed(rest.answers) /\ Len(rest.answers) = Len(db.answers) - 1
      /\ \A i \in 1 .. Len(db.answers) - 1 : rest.answers[i] = db.answers[i + 1]
  BY <1>1, <1>2, ListedRest
<1>4. \A i \in 1 .. Len(rest.answers) : rest.answers[i].op \in WaitedFor /\ rest.answers[i].found \in BOOLEAN
  <2> SUFFICES ASSUME NEW i \in 1 .. Len(rest.answers)
               PROVE  rest.answers[i].op \in WaitedFor /\ rest.answers[i].found \in BOOLEAN
    OBVIOUS
  <2>1. rest.answers[i] = db.answers[i + 1] /\ i + 1 \in 1 .. Len(db.answers)
    BY <1>2, <1>3
  <2> QED
    BY <2>1 DEF DbOK
<1> HIDE DEF rest
<1> QED
  BY <1>1, <1>3, <1>4 DEF DbOK, rest

\* A coroutine resumed
LEMMA ResumedOK ==
  ASSUME NEW db, DbOK(db), Len(db.answers) > 0
  PROVE  DbOK(Resumed(db))
<1>1. PICK q : Resumed(db) = runQueries([db EXCEPT !.answers = Tail(db.answers)], << q >>)
  BY ResumedQueries
<1>2. Listed(<< q >>)
  BY ListedSingle
<1> QED
  BY <1>1, <1>2, RestOK, QueriesOK

\* A coroutine resumed takes no row away.
LEMMA ResumedKept ==
  ASSUME NEW db, NEW c, DbOK(db), Len(db.answers) > 0, Kept(db, c)
  PROVE  Kept(Resumed(db), c)
<1> DEFINE rest == [db EXCEPT !.answers = Tail(db.answers)]
<1>1. PICK q : Resumed(db) = runQueries(rest, << q >>)
  BY ResumedQueries
<1>2. Listed(<< q >>)
  BY ListedSingle
<1>3. DbOK(rest) /\ rest.queue = db.queue /\ rest.rows = db.rows
  BY RestOK
<1> HIDE DEF rest
<1>4. Kept(rest, c)
  BY <1>3 DEF Kept
<1> QED
  BY <1>1, <1>2, <1>3, <1>4, QueriesKept

\* write makes at most one query of an event, of the end always one.
LEMMA WriteOne ==
  ASSUME NEW id, NEW event
  PROVE  /\ write(id, event) = << >> \/ \E q : write(id, event) = << q >>
         /\ event = "closed" => write(id, event) = << Query("UPDATE endtime", id, "") >>
<1>1. event = "closed" => write(id, event) = << Query("UPDATE endtime", id, "") >>
  BY DEF write, simpleQuery, Recorded
<1>2. write(id, event) = << >> \/ \E q : write(id, event) = << q >>
  <2>1. CASE event \in {"connect", "version", "size", "closed"} \union Recorded
    BY <2>1 DEF write, simpleQuery, Recorded
  <2>2. CASE event \notin {"connect", "version", "size", "closed"} \union Recorded
    BY <2>2 DEF write
  <2> QED
    BY <2>1, <2>2
<1> QED
  BY <1>1, <1>2

\* The queries of a list of events, in one list
Queries(id, events) == FlattenSeq([i \in DOMAIN events |-> write(id, events[i])])

\* A list of one is in the flattened list.
LEMMA FlattenedSingle ==
  ASSUME NEW Q, NEW seqs, Listed(seqs), \A i \in 1 .. Len(seqs) : seqs[i] \in Seq(Q),
         NEW i \in 1 .. Len(seqs), NEW q, seqs[i] = << q >>
  PROVE  \E k \in 1 .. Len(FlattenSeq(seqs)) : FlattenSeq(seqs)[k] = q
<1>1. Len(<< q >>) = 1 /\ << q >>[1] = q
  BY ListedSingle
<1>2. 1 \in 1 .. Len(seqs[i]) /\ seqs[i][1] = q
  BY <1>1
<1>3. Within(seqs[i], FlattenSeq(seqs))
  BY Flattened
<1> QED
  BY <1>2, <1>3 DEF Within

\* The queries of a list of events, the last among them
LEMMA QueriesListed ==
  ASSUME NEW id, NEW events, Listed(events)
  PROVE  /\ Listed(Queries(id, events))
         /\ \A i \in 1 .. Len(events) : events[i] = "closed" =>
              \E k \in 1 .. Len(Queries(id, events)) : Ends(Queries(id, events)[k], id)
<1> DEFINE seqs == [i \in DOMAIN events |-> write(id, events[i])]
           Q == {write(id, events[i])[1] : i \in 1 .. Len(events)}
<1>1. Len(events) \in Nat /\ DOMAIN events = 1 .. Len(events)
  BY ListedShape
<1>2. Listed(seqs) /\ Len(seqs) = Len(events)
  BY <1>1, ListedFunction
<1>3. \A i \in 1 .. Len(events) : seqs[i] = write(id, events[i])
  BY <1>1
<1>4. \A i \in 1 .. Len(events) : seqs[i] \in Seq(Q)
  <2> SUFFICES ASSUME NEW i \in 1 .. Len(events) PROVE write(id, events[i]) \in Seq(Q)
    BY <1>3
  <2>1. CASE write(id, events[i]) = << >>
    BY <2>1
  <2>2. CASE \E q : write(id, events[i]) = << q >>
    <3>1. PICK q : write(id, events[i]) = << q >>
      BY <2>2
    <3>2. write(id, events[i])[1] \in Q
      OBVIOUS
    <3>3. q \in Q
      BY <3>1, <3>2
    <3> HIDE DEF Q
    <3> QED
      BY <3>1, <3>3
  <2> QED
    BY <2>1, <2>2, WriteOne
<1> HIDE DEF seqs, Q
<1>5. FlattenSeq(seqs) \in Seq(Q)
  BY <1>2, <1>4, Flattened
<1>7. Queries(id, events) = FlattenSeq(seqs)
  BY DEF Queries, seqs
<1>8. ASSUME NEW i \in 1 .. Len(events), events[i] = "closed"
      PROVE  \E k \in 1 .. Len(FlattenSeq(seqs)) : Ends(FlattenSeq(seqs)[k], id)
  <2>1. seqs[i] = << Query("UPDATE endtime", id, "") >>
    BY <1>3, <1>8, WriteOne
  <2>2. PICK k \in 1 .. Len(FlattenSeq(seqs)) : FlattenSeq(seqs)[k] = Query("UPDATE endtime", id, "")
    BY <1>2, <1>4, <2>1, FlattenedSingle
  <2>3. Ends(Query("UPDATE endtime", id, ""), id)
    BY DEF Ends, Query
  <2> QED
    BY <2>2, <2>3
<1> QED
  BY <1>5, <1>7, <1>8 DEF Listed

\* What Written leaves of the database
LEMMA WrittenOK ==
  ASSUME NEW id, NEW events, DbOK(out.db), Listed(events)
  PROVE  DbOK(Written(id, events))
<1>1. CASE mode.mysql
  <2>1. Written(id, events) = runQueries(out.db, Queries(id, events))
    BY <1>1 DEF Written, Queries
  <2> QED
    BY <2>1, QueriesListed, QueriesOK
<1>2. CASE ~ mode.mysql
  <2>1. Written(id, events) = runQueries(out.db, << >>)
    BY <1>2 DEF Written
  <2> QED
    BY <2>1, ListedEmpty, QueriesOK
<1> QED
  BY <1>1, <1>2

\* What write adds takes no row away.
LEMMA WrittenKept ==
  ASSUME NEW id, NEW events, NEW c, DbOK(out.db), Listed(events), Kept(out.db, c)
  PROVE  Kept(Written(id, events), c)
<1>1. CASE mode.mysql
  <2>1. Written(id, events) = runQueries(out.db, Queries(id, events))
    BY <1>1 DEF Written, Queries
  <2> QED
    BY <2>1, QueriesListed, QueriesKept
<1>2. CASE ~ mode.mysql
  <2>1. Written(id, events) = runQueries(out.db, << >>)
    BY <1>2 DEF Written
  <2> QED
    BY <2>1, ListedEmpty, QueriesKept
<1> QED
  BY <1>1, <1>2

\* A session that is over, its row asked for before, has an end.
LEMMA WrittenEnd ==
  ASSUME NEW c \in Conns, NEW events, NEW i \in 1 .. Len(events), DbOK(out.db), Listed(events),
         events[i] = "closed", mode.mysql, Asked(out.db, c)
  PROVE  Kept(Written(c, events), c)
<1>1. Written(c, events) = runQueries(out.db, Queries(c, events))
  BY DEF Written, Queries
<1>2. Listed(Queries(c, events))
  BY QueriesListed
<1>3. PICK k \in 1 .. Len(Queries(c, events)) : Ends(Queries(c, events)[k], c)
  BY QueriesListed
<1> QED
  BY <1>1, <1>2, <1>3, QueriesEnd

-----------------------------------------------------------------------------

\* What is known of the database and of the connections that are over
Saved ==
  /\ DbOK(out.db)
  /\ \A c \in Conns \ (past.early \union past.clash) : mode.mysql /\ up[c] = "lost" => Kept(out.db, c)

\* A step of which the output hears nothing, or not the end of a connection
LEMMA SilentSaved ==
  ASSUME Saved, UNCHANGED << mode, out, past >>, \A d \in Conns : up'[d] = "lost" => up[d] = "lost"
  PROVE  Saved'
  BY DEF Saved

\* Events of a session
LEMMA EmitSaved ==
  ASSUME NEW c \in Conns, NEW events, IInv, Saved, mode' = mode, Listed(events), Emit(c, events),
         \A d \in Conns : up'[d] = "lost" => up[d] = "lost"
  PROVE  Saved'
<1>1. /\ past'.clash = past.clash
      /\ past.early \subseteq past'.early
  BY DEF Emit, EmitFor, IInv, Shape
<1>2. out'.db = out.db \/ \E id : out'.db = Written(id, events)
  BY DEF Emit, EmitFor
<1>3. DbOK(out'.db)
  BY <1>2, WrittenOK DEF Saved
<1>4. ASSUME NEW d, Kept(out.db, d) PROVE Kept(out'.db, d)
  BY <1>2, <1>4, WrittenKept DEF Saved
<1> QED
  BY <1>1, <1>3, <1>4 DEF Saved

\* The last event of a session
LEMMA EmitClosedSaved ==
  ASSUME NEW c \in Conns, NEW events, IInv, Saved, Live(c), mode' = mode, mode.mysql \in BOOLEAN,
         Listed(events), EmitClosed(c, events), \A d \in Conns \ {c} : up'[d] = "lost" => up[d] = "lost"
  PROVE  Saved'
<1> DEFINE all == Append(events, "closed")
           sessions == [k \in DOMAIN out.sessions \ {Key(c)} |-> out.sessions[k]]
<1>1. EmitFor(c, all, sessions)
  BY DEF EmitClosed
<1>2. /\ Listed(all) /\ Len(events) \in Nat /\ Len(all) = Len(events) + 1 /\ all[Len(events) + 1] = "closed"
      /\ DOMAIN all = 1 .. Len(all)
  BY ListedAppend, ListedShape
<1>3. Len(events) + 1 \in 1 .. Len(all) /\ "closed" \in Range(all)
  BY <1>2 DEF Range
<1> HIDE DEF all, sessions
<1>4. /\ past'.clash = past.clash
      /\ past.early \subseteq past'.early
      /\ c \notin past'.early => Asked(out.db, c)
  BY <1>1, <1>3 DEF EmitFor, IInv, Shape
<1>5. out'.db = out.db \/ \E id : out'.db = Written(id, all)
  BY <1>1 DEF EmitFor
<1>6. DbOK(out'.db)
  BY <1>2, <1>5, WrittenOK DEF Saved
<1>7. ASSUME NEW d, Kept(out.db, d) PROVE Kept(out'.db, d)
  BY <1>2, <1>5, <1>7, WrittenKept DEF Saved
<1>8. ASSUME c \notin past'.early \union past'.clash, mode.mysql PROVE Kept(out'.db, c)
  <2>1. out'.db = Written(c, all)
    BY <1>1, <1>4, <1>8 DEF EmitFor, IInv, Attributed
  <2> QED
    BY <1>2, <1>3, <1>4, <1>8, <2>1, WrittenEnd DEF Saved
<1>9. ASSUME NEW d \in Conns \ (past'.early \union past'.clash), mode.mysql, up'[d] = "lost"
      PROVE  Kept(out'.db, d)
  <2>1. CASE d = c
    BY <1>8, <1>9, <2>1
  <2>2. CASE d # c
    BY <1>4, <1>7, <1>9, <2>2 DEF Saved
  <2> QED
    BY <2>1, <2>2
<1> QED
  BY <1>6, <1>9 DEF Saved

\* The first event of a session
LEMMA ConnectSaved ==
  ASSUME NEW c \in Conns, IInv, Saved, ConnectionMade(c)
  PROVE  Saved'
<1>1. out'.db = Written(c, << "connect" >>) /\ mode' = mode /\ up' = [up EXCEPT ![c] = "up"]
  BY DEF ConnectionMade, EmitConnect, client
<1>2. past'.early = past.early /\ past.clash \subseteq past'.clash
  BY DEF ConnectionMade, IInv, Shape
<1>3. Listed(<< "connect" >>)
  BY ListedSingle
<1>4. DbOK(out'.db)
  BY <1>1, <1>3, WrittenOK DEF Saved
<1>5. ASSUME NEW d, Kept(out.db, d) PROVE Kept(out'.db, d)
  BY <1>1, <1>3, <1>5, WrittenKept DEF Saved
<1>6. \A d \in Conns : up'[d] = "lost" => up[d] = "lost"
  BY <1>1 DEF IInv, Shape
<1> QED
  BY <1>1, <1>2, <1>4, <1>5, <1>6 DEF Saved

\* The pool and the answers
LEMMA DatabaseSaved ==
  ASSUME IInv, Saved, QueryRuns \/ AnswerArrives
  PROVE  Saved'
<1>1. UNCHANGED << mode, up, past >>
  BY DEF QueryRuns, AnswerArrives, client, link
<1>2. out.db.queue = out.db.queue /\ Listed(out.db.queue) /\ Listed(out.db.answers)
  BY DEF Saved, DbOK
<1>3. CASE QueryRuns
  <2>1. PICK i \in Runnable(out.db) : out' = [out EXCEPT !.db = Ran(out.db, i)]
    BY <1>3 DEF QueryRuns
  <2>2. i = 1 /\ Len(out.db.queue) > 0
    BY <1>2, ListedShape DEF Runnable, cp_max
  <2>3. out'.db = Ran(out.db, 1)
    BY <2>1, <2>2 DEF IInv, Shape
  <2> QED
    BY <1>1, <2>2, <2>3, RanOK, RanKept DEF Saved
<1>4. CASE AnswerArrives
  <2>1. out' = [out EXCEPT !.db = Resumed(out.db)] /\ out.db.answers # << >>
    BY <1>4 DEF AnswerArrives
  <2>2. Len(out.db.answers) > 0
    BY <1>2, <2>1, ListedNone, ListedShape
  <2>3. out'.db = Resumed(out.db)
    BY <2>1 DEF IInv, Shape
  <2> QED
    BY <1>1, <2>2, <2>3, ResumedOK, ResumedKept DEF Saved
<1> QED
  BY <1>3, <1>4

\* The events of a login are a list.
LEMMA TriedListed ==
  ASSUME NEW c, NEW visitors, NEW answers, NEW r \in Tried(c, visitors, answers), Listed(answers)
  PROVE  Listed(r.events)
<1> DEFINE n == Len(answers)
           first == [result |-> "failed", vars |-> visitors, events |-> << >>]
<1>1. PICK upto : /\ upto[0] = {first}
                  /\ \A k \in 1 .. n : upto[k] = TriedAfter(c, upto[k - 1], answers[k])
                  /\ Tried(c, visitors, answers) = upto[n]
  BY TriedSteps
<1>2. n \in Nat
  BY ListedShape
<1> DEFINE S == {k \in 0 .. n : \A acc \in upto[k] : Listed(acc.events)}
<1>3. 0 \in S
  <2>1. Listed(first.events)
    BY ListedEmpty
  <2> HIDE DEF first
  <2>2. upto[0] = {first}
    BY <1>1 DEF first
  <2> QED
    BY <1>2, <2>1, <2>2
<1>4. ASSUME NEW k \in 1 .. n, k - 1 \in S PROVE k \in S
  <2>1. ASSUME NEW more \in upto[k] PROVE Listed(more.events)
    <3>1. PICK acc \in upto[k - 1] : more \in TriedNext(c, acc, answers[k])
      BY <1>1, <2>1 DEF TriedAfter
    <3>2. Listed(acc.events)
      BY <1>4, <3>1
    <3>3. CASE acc.result # "failed"
      BY <3>1, <3>2, <3>3 DEF TriedNext
    <3>4. CASE acc.result = "failed"
      <4> DEFINE checks == checkUserPass(mode, acc.vars, plan[c].ip, "root", answers[k])
      <4>0. TriedNext(c, acc, answers[k]) =
              {[result |-> e.result, vars |-> e.vars,
                events |-> acc.events \o (IF e.result = "raised" THEN << >> ELSE Converted("login." \o e.result, answers[k]))] :
                 e \in checks}
        BY <3>4 DEF TriedNext
      <4> HIDE DEF checks
      <4>1. PICK e \in checks :
              more = [result |-> e.result, vars |-> e.vars,
                events |-> acc.events \o (IF e.result = "raised" THEN << >> ELSE Converted("login." \o e.result, answers[k]))]
        BY <3>1, <4>0
      <4> DEFINE one == "login." \o e.result
      <4> HIDE DEF one
      <4>2. Listed(<< >>) /\ Listed(<< one >>)
        BY ListedEmpty, ListedSingle
      <4>3. more.events = acc.events \o << >> \/ more.events = acc.events \o << one >>
        BY <4>1 DEF one, Converted
      <4>4. Listed(acc.events \o << >>) /\ Listed(acc.events \o << one >>)
        BY <3>2, <4>2, ListedConcat
      <4> QED
        BY <4>3, <4>4
    <3> QED
      BY <3>3, <3>4
  <2> QED
    BY <1>2, <2>1
<1>5. n \in S
  <2> HIDE DEF S, n
  <2>1. 0 .. n \subseteq S
    BY <1>2, <1>3, <1>4, InductTo
  <2> QED
    BY <1>2, <2>1
<1> QED
  BY <1>1, <1>5

\* So are those of a log and a channel that are closed,
LEMMA LogListed ==
  ASSUME NEW l
  PROVE  Listed(LogClosed(l).events)
<1>1. ASSUME NEW k PROVE Listed(LogEvents(k))
  <2> DEFINE a == IF k.stdin = "written" THEN << "file_download" >> ELSE << >>
             b == IF k.open THEN << "log.closed" >> ELSE << >>
  <2>1. Listed(a) /\ Listed(b)
    BY ListedEmpty, ListedSingle
  <2>2. LogEvents(k) = a \o b
    BY DEF LogEvents
  <2> HIDE DEF a, b
  <2> QED
    BY <2>1, <2>2, ListedConcat
<1>2. LogClosed(l).events = LogEvents(l) \o LogEvents(LogLost(l))
  BY DEF LogClosed
<1>3. Listed(LogEvents(l)) /\ Listed(LogEvents(LogLost(l)))
  BY <1>1
<1> QED
  BY <1>2, <1>3, ListedConcat

\* The events of a channel that is closed are a list.
LEMMA ClosedListed ==
  ASSUME NEW ch, NEW h, NEW r \in ChannelClosed(ch, h), SftpOK(ch.sftp)
  PROVE  Listed(r.events)
<1>1. CASE ch.runs = "terminal"
  <2>1. r.events = LogClosed(Last(ch.logs)).events
    BY <1>1 DEF ChannelClosed
  <2> QED
    BY <2>1, LogListed
<1>2. CASE ch.runs = "sftp"
  <2> DEFINE gone == [ch EXCEPT !.there = FALSE]
  <2>3. ChannelClosed(ch, h) =
          {[channel |-> [gone EXCEPT !.sftp = x.s], host |-> x.host,
            events |-> [n \in 1 .. x.uploads |-> "file_upload"]] : x \in CloseAll(ch.sftp, h)}
    BY <1>2 DEF ChannelClosed
  <2>1. PICK x \in CloseAll(ch.sftp, h) :
          r = [channel |-> [gone EXCEPT !.sftp = x.s], host |-> x.host,
               events |-> [n \in 1 .. x.uploads |-> "file_upload"]]
    BY <2>3
  <2>2. x.uploads \in Nat
    BY CloseAllOK
  <2> QED
    BY <2>1, <2>2, ListedFunction
<1>3. CASE ch.runs \notin {"terminal", "sftp"}
  <2> DEFINE gone == [ch EXCEPT !.there = FALSE]
  <2>2. ChannelClosed(ch, h) = {[channel |-> gone, events |-> << >>, host |-> h]}
    BY <1>3 DEF ChannelClosed
  <2> HIDE DEF gone
  <2>3. r = [channel |-> gone, events |-> << >>, host |-> h]
    BY <2>2
  <2>1. r.events = << >>
    BY <2>3
  <2> QED
    BY <2>1, ListedEmpty
<1> QED
  BY <1>1, <1>2, <1>3

\* and those of all channels of a connection.
LEMMA AllClosedListed ==
  ASSUME NEW c, NEW r \in AllClosed(c), Listed(channels[c]),
         \A k \in 1 .. Len(channels[c]) : SftpOK(channels[c][k].sftp)
  PROVE  Listed(r.events)
<1> DEFINE n == Len(channels[c])
<1>1. PICK upto : /\ upto[0] = {[channels |-> channels[c], host |-> host, events |-> << >>]}
                  /\ \A k \in 1 .. n : upto[k] = UNION {ClosedNext(c, acc, k) : acc \in upto[k - 1]}
                  /\ AllClosed(c) = upto[n]
  BY AllClosedSteps
<1>2. n \in Nat
  BY ListedShape
<1> DEFINE S == {k \in 0 .. n : \A acc \in upto[k] : Listed(acc.events)}
<1>3. 0 \in S
  <2> DEFINE first == [channels |-> channels[c], host |-> host, events |-> << >>]
  <2>1. Listed(first.events)
    BY ListedEmpty
  <2> HIDE DEF first
  <2>2. upto[0] = {first}
    BY <1>1 DEF first
  <2> QED
    BY <1>2, <2>1, <2>2
<1>4. ASSUME NEW k \in 1 .. n, k - 1 \in S PROVE k \in S
  <2>1. ASSUME NEW more \in upto[k] PROVE Listed(more.events)
    <3>1. PICK acc \in upto[k - 1] : more \in ClosedNext(c, acc, k)
      BY <1>1, <2>1
    <3>2. Listed(acc.events)
      BY <1>4, <3>1
    <3>3. CASE channels[c][k].there
      <4>0. ClosedNext(c, acc, k) =
              {[channels |-> [acc.channels EXCEPT ![k] = x.channel], host |-> x.host,
                events |-> acc.events \o x.events] : x \in ChannelClosed(channels[c][k], acc.host)}
        BY <3>3 DEF ClosedNext
      <4>1. PICK x \in ChannelClosed(channels[c][k], acc.host) :
              more = [channels |-> [acc.channels EXCEPT ![k] = x.channel], host |-> x.host,
                      events |-> acc.events \o x.events]
        BY <3>1, <4>0
      <4>2. Listed(x.events)
        BY <4>1, ClosedListed
      <4> QED
        BY <3>2, <4>1, <4>2, ListedConcat
    <3>4. CASE ~channels[c][k].there
      BY <3>1, <3>2, <3>4 DEF ClosedNext
    <3> QED
      BY <3>3, <3>4
  <2> QED
    BY <1>2, <2>1
<1>5. n \in S
  <2> HIDE DEF S, n
  <2>1. 0 .. n \subseteq S
    BY <1>2, <1>3, <1>4, InductTo
  <2> QED
    BY <1>2, <2>1
<1> QED
  BY <1>1, <1>5

-----------------------------------------------------------------------------

\* What the clients send, and how cowrie is run, comes from Setups.
Heard ==
  /\ \E s \in Setups : mode = s.mode /\ plan = s.plan
  /\ todo = [c \in Conns |-> todo[c]]
  /\ \A c \in Conns : todo[c] \in Seq(Range(plan[c].msgs))

\* What the clients will send are lists of words.
LEMMA HeardInit == Init => Heard
<1> SUFFICES ASSUME Init PROVE Heard
  OBVIOUS
<1>1. PICK s \in Setups : mode = s.mode /\ plan = s.plan
  BY DEF Init
<1>2. todo = [c \in Conns |-> plan[c].msgs]
  BY DEF Init
<1>3. \A c \in Conns : plan[c].msgs \in Seq(Range(plan[c].msgs))
  BY <1>1, SetupsAssumption
<1> QED
  BY <1>1, <1>2, <1>3 DEF Heard

\* A message read
LEMMA ReadsHeard ==
  ASSUME Heard, NEW c \in Conns, NEW ops, Reads(c, ops)
  PROVE  Heard'
<1>1. UNCHANGED << mode, plan >> /\ todo' = [todo EXCEPT ![c] = Tail(todo[c])] /\ todo[c] # << >>
  BY DEF Reads
<1>2. Tail(todo[c]) \in Seq(Range(plan[c].msgs))
  BY <1>1 DEF Heard
<1>3. \A d \in Conns : todo'[d] \in Seq(Range(plan[d].msgs))
  BY <1>1, <1>2 DEF Heard
<1> QED
  BY <1>1, <1>3 DEF Heard

\* The rest is still to come.
LEMMA HeardNext == Heard /\ [Next]_vars => Heard'
<1> SUFFICES ASSUME Heard, [Next]_vars PROVE Heard'
  OBVIOUS
<1>1. CASE UNCHANGED client
  BY <1>1 DEF client, Heard
<1>2. ASSUME NEW c \in Conns, SshMessage(c) PROVE Heard'
  <2>1. \E ops : Reads(c, ops)
    BY <1>2 DEF SshMessage, Version, KexInit, AuthNone, AuthPublicKey, AuthPassword, AuthKeyboard,
         AuthInfo, Unimplemented, ChannelOpen, NoSuchChannel, ChannelRequest, ChannelData,
         ChannelEof, ChannelClose, Sftp, OnChannel
  <2> QED
    BY <2>1, ReadsHeard
<1>3. ASSUME NEW c \in Conns, TelnetMessage(c) PROVE Heard'
  <2>1. \E ops : Reads(c, ops)
    BY <1>3 DEF TelnetMessage, TelnetUser, TelnetPassword, TelnetDiscard, TelnetAck, TelnetLine
  <2> QED
    BY <2>1, ReadsHeard
<1>4. CASE UNCHANGED vars
  BY <1>1, <1>4 DEF vars
<1>5. ASSUME NEW c \in Conns, ConnectionMade(c) \/ TransportTimeout(c) \/ ShellTimeout(c) \/ HangUp(c) \/ Lost(c)
      PROVE  Heard'
  BY <1>1, <1>5 DEF ConnectionMade, TransportTimeout, ShellTimeout, HangUp, Lost, LosesConnection, LosesWaiting
<1>6. CASE QueryRuns \/ AnswerArrives
  BY <1>1, <1>6 DEF QueryRuns, AnswerArrives
<1>7. ASSUME NEW c \in Conns, Undecodable(c) PROVE Heard'
  <2>1. \E ops : Reads(c, ops)
    BY <1>7 DEF Undecodable, OnChannel
  <2> QED
    BY <2>1, ReadsHeard
<1>8. ASSUME NEW c \in Conns, Downloaded(c) PROVE Heard'
  BY <1>1, <1>8 DEF Downloaded
<1> QED
  BY <1>2, <1>3, <1>4, <1>5, <1>6, <1>7, <1>8 DEF Next

\* The output hears a list of events of c, or nothing, and c is not over.
Says(c) ==
  /\ mode' = mode
  /\ \A d \in Conns : up'[d] = "lost" => up[d] = "lost"
  /\ UNCHANGED << out, past >> \/ \E events : Listed(events) /\ Emit(c, events)

\* The output hears of a session that is not over.
LEMMA SaysSaved ==
  ASSUME NEW c \in Conns, IInv, Saved, Says(c)
  PROVE  Saved'
<1>1. mode' = mode /\ \A d \in Conns : up'[d] = "lost" => up[d] = "lost"
  BY DEF Says
<1>2. CASE UNCHANGED << out, past >>
  BY <1>1, <1>2, SilentSaved
<1>3. CASE \E events : Listed(events) /\ Emit(c, events)
  BY <1>1, <1>3, EmitSaved
<1> QED
  BY <1>2, <1>3 DEF Says

\* One event, or none
LEMMA FewListed ==
  /\ Listed(<< >>)
  /\ \A e : Listed(<< e >>)
  BY ListedEmpty, ListedSingle

LEMMA ConvertedListed ==
  ASSUME NEW event, NEW word
  PROVE  Listed(Converted(event, word))
  BY FewListed DEF Converted

\* A client that is heard is not lost.
LEMMA StaysUp ==
  ASSUME NEW c \in Conns, IInv,
         up' = up \/ \E v \in {"up", "closing", "broken"} : up' = [up EXCEPT ![c] = v]
  PROVE  \A d \in Conns : up'[d] = "lost" => up[d] = "lost"
  BY DEF IInv, Shape

\* Whatever an SSH client sends
LEMMA SshSays ==
  ASSUME NEW c \in Conns, IInv, Typed, Heard, SshMessage(c)
  PROVE  Says(c)
<1> USE DEF Reads, link, files
<1>1. mode' = mode
  BY DEF SshMessage, Version, KexInit, AuthNone, AuthPublicKey, AuthPassword, AuthKeyboard,
         AuthInfo, Unimplemented, ChannelOpen, NoSuchChannel, ChannelRequest, ChannelData,
         ChannelEof, ChannelClose, Sftp, OnChannel
<1>2. up' = up \/ \E v \in {"up", "closing", "broken"} : up' = [up EXCEPT ![c] = v]
  BY DEF SshMessage, Version, KexInit, AuthNone, AuthPublicKey, AuthPassword, AuthKeyboard,
         AuthInfo, Unimplemented, ChannelOpen, NoSuchChannel, ChannelRequest, ChannelData,
         ChannelEof, ChannelClose, Sftp, OnChannel
<1>3. \A d \in Conns : up'[d] = "lost" => up[d] = "lost"
  BY <1>2, StaysUp
<1> DEFINE Heard1 == UNCHANGED << out, past >> \/ \E events : Listed(events) /\ Emit(c, events)
<1>4. UNCHANGED << out, past >> => Heard1
  OBVIOUS
<1>5. ASSUME NEW e, Emit(c, << e >>) PROVE Heard1
  BY <1>5, FewListed
<1>6. Emit(c, << >>) => Heard1
  BY FewListed
<1>7. ASSUME NEW events, Listed(events), Emit(c, events) PROVE Heard1
  BY <1>7
<1> HIDE DEF Heard1
<1>8. ASSUME NEW answers, Listed(answers), Checked(c, answers) PROVE Heard1
  <2>1. PICK r \in Tried(c, uservar, answers) : Emit(c, r.events)
    BY <1>8 DEF Checked
  <2>2. Listed(r.events)
    BY <1>8, TriedListed
  <2> QED
    BY <1>7, <2>1, <2>2
<1>9. Heard1
  <2>1. CASE Version(c)
    BY <1>5, <2>1 DEF Version
  <2>2. CASE KexInit(c)
    BY <1>5, <2>2 DEF KexInit
  <2>3. CASE AuthNone(c) \/ AuthKeyboard(c) \/ Unimplemented(c) \/ NoSuchChannel(c) \/ ChannelEof(c)
    BY <1>4, <2>3 DEF AuthNone, AuthKeyboard, Unimplemented, NoSuchChannel, ChannelEof
  <2>4. CASE AuthPublicKey(c)
    <3>1. Emit(c, Converted("fingerprint", Msg(c).word))
      BY <2>4 DEF AuthPublicKey
    <3> QED
      BY <1>7, <3>1, ConvertedListed
  <2>5. CASE AuthPassword(c)
    <3>1. Checked(c, << Msg(c).word >>)
      BY <2>5 DEF AuthPassword
    <3>2. Listed(<< Msg(c).word >>)
      BY FewListed
    <3> QED
      BY <1>8, <3>1, <3>2
  <2>6. CASE AuthInfo(c)
    <3>1. CASE pending[c] = << >>
      BY <1>4, <2>6, <3>1 DEF AuthInfo
    <3>2. CASE pending[c] # << >>
      <4>1. Checked(c, Msg(c).words)
        BY <2>6, <3>2 DEF AuthInfo
      <4>2. todo[c] \in Seq(Range(plan[c].msgs)) /\ todo[c] # << >> /\ Msg(c).op = "info"
        BY <2>6 DEF AuthInfo, Heard, Msg
      <4>3. Msg(c) \in Range(plan[c].msgs)
        BY <4>2 DEF Msg
      <4>4. Msg(c).words \in Seq(Words)
        BY <4>2, <4>3, SetupsAssumption DEF Heard
      <4>5. Listed(Msg(c).words)
        BY <4>4 DEF Listed
      <4> QED
        BY <1>8, <4>1, <4>5
    <3> QED
      BY <3>1, <3>2
  <2>7. CASE ChannelOpen(c)
    <3>1. Emit(c, << "direct-tcpip.request" >>) \/ Emit(c, << >>)
      BY <2>7 DEF ChannelOpen
    <3> QED
      BY <1>5, <1>6, <3>1
  <2>8. CASE ChannelRequest(c)
    <3>1. \/ Emit(c, << "params" >>) \/ Emit(c, << "size" >>) \/ UNCHANGED << out, past >>
          \/ Emit(c, << >>) \/ Emit(c, << "params", "input" >>) \/ Emit(c, Converted("var", Msg(c).word))
      <4>1. CASE Msg(c).type = "exec"
        BY <2>8, <4>1 DEF ChannelRequest
      <4>2. CASE Msg(c).type \in {"pty", "env"}
        BY <2>8, <4>2 DEF ChannelRequest
      <4>3. CASE Msg(c).type \notin {"exec", "pty", "env"}
        BY <2>8, <4>3 DEF ChannelRequest
      <4> QED
        BY <4>1, <4>2, <4>3
    <3>2. Listed(<< "params", "input" >>)
      <4>1. << "params", "input" >> \in Seq({"params", "input"})
        OBVIOUS
      <4> QED
        BY <4>1 DEF Listed
    <3> QED
      BY <1>4, <1>5, <1>6, <1>7, <3>1, <3>2, ConvertedListed
  <2>9. CASE ChannelData(c)
    <3>1. Emit(c, << "direct-tcpip.data" >>) \/ Emit(c, << "input" >>) \/ UNCHANGED << out, past >>
      BY <2>9 DEF ChannelData, ProtocolData
    <3> QED
      BY <1>4, <1>5, <3>1
  <2>10. CASE ChannelClose(c)
    <3>1. PICK r \in ChannelClosed(LoseChannel(Mine(c)), host) : Emit(c, r.events)
      BY <2>10 DEF ChannelClose
    <3>2. OnChannel(c, {"close"})
      BY <2>10 DEF ChannelClose
    <3>3. ChannelOK(mode.ttylog, Mine(c))
      BY <3>2, MineOK
    <3>4. LoseChannel(Mine(c)).sftp = Mine(c).sftp
      BY <3>3, ChannelLost
    <3>5. SftpOK(LoseChannel(Mine(c)).sftp)
      BY <3>3, <3>4 DEF ChannelOK
    <3>6. Listed(r.events)
      BY <3>1, <3>5, ClosedListed
    <3> QED
      BY <1>7, <3>1, <3>6
  <2>11. CASE Sftp(c)
    <3>1. Emit(c, << "file_upload" >>) \/ Emit(c, << >>)
      BY <2>11 DEF Sftp
    <3> QED
      BY <1>5, <1>6, <3>1
  <2> QED
    BY <2>1, <2>2, <2>3, <2>4, <2>5, <2>6, <2>7, <2>8, <2>9, <2>10, <2>11 DEF SshMessage
<1> QED
  BY <1>1, <1>3, <1>9 DEF Says, Heard1

\* The outcomes of a telnet login tell what happened, in order.
LEMMA LoginListed ==
  ASSUME NEW c \in Conns, Typed, NEW l \in TelnetLogins(c)
  PROVE  Listed(l.events)
<1> DEFINE answers == IF pending[c] = << >> THEN << Msg(c).word >> ELSE pending[c]
<1>1. Listed(pending[c])
  BY DEF Typed, ConnOK, Connection
<1>2. Listed(answers)
  BY <1>1, FewListed
<1> HIDE DEF answers
<1>3. TelnetLogins(c) =
        {[r |-> r, in |-> r.result = "success",
          events |-> r.events \o (IF r.result = "success" THEN << "params" >> ELSE << >>)] :
            r \in Tried(c, uservar, answers)}
  BY DEF TelnetLogins, answers
<1>4. PICK r \in Tried(c, uservar, answers) :
        l = [r |-> r, in |-> r.result = "success",
             events |-> r.events \o (IF r.result = "success" THEN << "params" >> ELSE << >>)]
  BY <1>3
<1>5. l.events = r.events \o << "params" >> \/ l.events = r.events \o << >>
  BY <1>4
<1>6. Listed(r.events)
  BY <1>2, <1>4, TriedListed
<1>7. Listed(r.events \o << "params" >>) /\ Listed(r.events \o << >>)
  BY <1>6, FewListed, ListedConcat
<1> QED
  BY <1>5, <1>7

\* Whatever a telnet client sends
LEMMA TelnetSays ==
  ASSUME NEW c \in Conns, IInv, Typed, TelnetMessage(c)
  PROVE  Says(c)
<1> USE DEF Reads, link, files
<1>1. mode' = mode
  BY DEF TelnetMessage, TelnetUser, TelnetPassword, TelnetDiscard, TelnetAck, TelnetLine
<1>2. up' = up \/ \E v \in {"up", "closing", "broken"} : up' = [up EXCEPT ![c] = v]
  <2>1. CASE TelnetUser(c) \/ TelnetPassword(c) \/ TelnetDiscard(c) \/ TelnetAck(c)
    BY <2>1 DEF TelnetUser, TelnetPassword, TelnetDiscard, TelnetAck, Login
  <2>2. CASE TelnetLine(c)
    <3>1. up' = up \/ \E ends \in BOOLEAN : up' = [up EXCEPT ![c] = IF ends THEN "closing" ELSE up[c]]
      BY <2>2 DEF TelnetLine
    <3>2. up[c] = "up"
      BY <2>2 DEF TelnetLine
    <3> QED
      BY <3>1, <3>2
  <2> QED
    BY <2>1, <2>2 DEF TelnetMessage
<1>3. \A d \in Conns : up'[d] = "lost" => up[d] = "lost"
  BY <1>2, StaysUp
<1> DEFINE Heard1 == UNCHANGED << out, past >> \/ \E events : Listed(events) /\ Emit(c, events)
<1>4. UNCHANGED << out, past >> => Heard1
  OBVIOUS
<1>5. Emit(c, << "input" >>) => Heard1
  BY FewListed
<1>6. Login(c) => Heard1
  <2> SUFFICES ASSUME Login(c) PROVE Heard1
    OBVIOUS
  <2>1. PICK l \in TelnetLogins(c) : Emit(c, l.events)
    BY DEF Login
  <2>2. Listed(l.events)
    BY LoginListed
  <2> QED
    BY <2>1, <2>2
<1> HIDE DEF Heard1
<1>7. Heard1
  BY <1>4, <1>5, <1>6 DEF TelnetMessage, TelnetUser, TelnetPassword, TelnetDiscard, TelnetAck, TelnetLine
<1> QED
  BY <1>1, <1>3, <1>7 DEF Says, Heard1

\* A line that is not UTF-8
LEMMA UndecodableSays ==
  ASSUME NEW c \in Conns, IInv, Undecodable(c)
  PROVE  Says(c)
<1>1. mode' = mode /\ up' = [up EXCEPT ![c] = "broken"] /\ UNCHANGED << out, past >>
  BY DEF Undecodable, Reads, OnChannel
<1>2. \A d \in Conns : up'[d] = "lost" => up[d] = "lost"
  BY <1>1, StaysUp
<1> QED
  BY <1>1, <1>2 DEF Says

\* The end of a download
LEMMA DownloadedSays ==
  ASSUME NEW c \in Conns, IInv, Downloaded(c)
  PROVE  Says(c)
<1>1. mode' = mode
  BY DEF Downloaded, client
<1>2. up' = up \/ up' = [up EXCEPT ![c] = "closing"] \/ up' = [up EXCEPT ![c] = up[c]]
  BY DEF Downloaded
<1>3. [up EXCEPT ![c] = up[c]] = up
  BY DEF IInv, Shape
<1>4. \A d \in Conns : up'[d] = "lost" => up[d] = "lost"
  BY <1>2, <1>3, StaysUp
<1>5. UNCHANGED << out, past >> \/ Emit(c, << "file_download" >>)
  BY DEF Downloaded
<1> QED
  BY <1>1, <1>4, <1>5, FewListed DEF Says

\* The end of a connection
LEMMA EndSaved ==
  ASSUME NEW c \in Conns, IInv, Typed, Saved, Heard, Live(c), LosesConnection(c) \/ LosesWaiting(c)
  PROVE  Saved'
<1>1. mode' = mode /\ up' = [up EXCEPT ![c] = "lost"]
  BY DEF LosesConnection, LosesWaiting, client
<1>2. \A d \in Conns \ {c} : up'[d] = "lost" => up[d] = "lost"
  BY <1>1 DEF IInv, Shape
<1>3. mode.mysql \in BOOLEAN
  BY SetupsAssumption DEF Heard
<1>4. ConnOK(c) /\ mode.ttylog \in BOOLEAN
  BY DEF Typed
<1>5. Listed(channels[c]) /\ \A k \in 1 .. Len(channels[c]) : SftpOK(channels[c][k].sftp)
  BY <1>4 DEF ConnOK, Connection, ChannelOK
<1>6. \E events : Listed(events) /\ EmitClosed(c, events)
  <2>1. CASE LosesConnection(c)
    <3>1. PICK r \in AllClosed(c) : EmitClosed(c, r.events)
      BY <2>1 DEF LosesConnection
    <3>2. Listed(r.events)
      BY <1>5, <3>1, AllClosedListed
    <3> QED
      BY <3>1, <3>2
  <2>2. CASE LosesWaiting(c)
    <3>1. PICK l \in TelnetLogins(c), r \in ChannelClosed(TelnetSession, host) :
            EmitClosed(c, l.events \o (IF l.in THEN r.events ELSE << >>))
      BY <2>2 DEF LosesWaiting
    <3>2. Listed(l.events)
      BY <3>1, LoginListed
    <3>3. Listed(r.events)
      <4>1. ChannelOK(mode.ttylog, TelnetSession)
        BY <1>4, TelnetSessionOK
      <4>2. SftpOK(TelnetSession.sftp)
        BY <4>1 DEF ChannelOK
      <4> QED
        BY <3>1, <4>2, ClosedListed
    <3>4. Listed(l.events \o r.events) /\ Listed(l.events \o << >>)
      BY <3>2, <3>3, FewListed, ListedConcat
    <3> QED
      BY <3>1, <3>4
  <2> QED
    BY <2>1, <2>2
<1>7. PICK events : Listed(events) /\ EmitClosed(c, events)
  BY <1>6
<1> QED
  BY <1>1, <1>2, <1>3, <1>7, EmitClosedSaved

\* What the output hears of a timer
LEMMA TimeoutSays ==
  ASSUME NEW c \in Conns, IInv, TransportTimeout(c) \/ ShellTimeout(c)
  PROVE  Says(c)
<1>1. mode' = mode /\ UNCHANGED << out, past >>
  BY DEF TransportTimeout, ShellTimeout, client
<1>2. up \in [Conns -> {"none", "up", "closing", "broken", "lost"}]
  BY DEF IInv, Shape
<1>3. CASE TransportTimeout(c)
  <2>1. up' = [up EXCEPT ![c] = IF up[c] = "up" THEN "closing" ELSE up[c]]
    BY <1>3 DEF TransportTimeout
  <2>2. \A d \in Conns : up'[d] = "lost" => up[d] = "lost"
    BY <1>2, <2>1
  <2> QED
    BY <1>1, <2>2 DEF Says
<1>4. CASE ShellTimeout(c)
  <2>1. up' = [up EXCEPT ![c] = IF plan[c].proto = "telnet" /\ up[c] = "up" THEN "closing" ELSE up[c]]
    BY <1>4 DEF ShellTimeout
  <2>2. \A d \in Conns : up'[d] = "lost" => up[d] = "lost"
    BY <1>2, <2>1
  <2> QED
    BY <1>1, <2>2 DEF Says
<1> QED
  BY <1>3, <1>4

\* The database at the start
LEMMA SavedInit == Init => Saved
<1> SUFFICES ASSUME Init PROVE Saved
  OBVIOUS
<1> DEFINE db == EmptyDb(Conns, mode.sensor)
<1>1. out.db = db /\ \A c \in Conns : up[c] = "none"
  BY DEF Init
<1>2. mode.sensor \in BOOLEAN
  BY SetupsAssumption DEF Init
<1>3. /\ DOMAIN db = DbFields /\ db.queue = << >> /\ db.answers = << >>
      /\ db.sensor = mode.sensor /\ db.versions = FALSE /\ db.rows = [c \in Conns |-> NoRow]
  BY DEF EmptyDb, DbFields
<1>4. DOMAIN NoRow = RowFields /\ NoRow.there = FALSE
  BY DEF NoRow, RowFields
<1>5. Listed(<< >>) /\ 1 .. Len(<< >>) = {}
  BY ListedEmpty
<1> HIDE DEF db
<1>6. DbOK(db)
  <2>1. DOMAIN db.rows = Conns /\ \A c \in Conns : db.rows[c] = NoRow
    BY <1>3
  <2> QED
    BY <1>2, <1>3, <1>4, <1>5, <2>1 DEF DbOK
<1> QED
  BY <1>1, <1>6 DEF Saved

\* Every step keeps the queries in order.
LEMMA SavedNext == IInv /\ Typed /\ Heard /\ Saved /\ [Next]_vars => Saved'
<1> SUFFICES ASSUME IInv, Typed, Heard, Saved, [Next]_vars PROVE Saved'
  OBVIOUS
<1>1. CASE UNCHANGED vars
  BY <1>1, SilentSaved DEF vars, client, link
<1>2. ASSUME NEW c \in Conns, ConnectionMade(c) PROVE Saved'
  BY <1>2, ConnectSaved
<1>3. ASSUME NEW c \in Conns, SshMessage(c) PROVE Saved'
  BY <1>3, SshSays, SaysSaved
<1>4. ASSUME NEW c \in Conns, TelnetMessage(c) PROVE Saved'
  BY <1>4, TelnetSays, SaysSaved
<1>5. ASSUME NEW c \in Conns, TransportTimeout(c) \/ ShellTimeout(c) PROVE Saved'
  BY <1>5, TimeoutSays, SaysSaved
<1>6. ASSUME NEW c \in Conns, HangUp(c) \/ Lost(c) PROVE Saved'
  BY <1>6, EndSaved DEF HangUp, Lost, Live
<1>8. ASSUME NEW c \in Conns, Undecodable(c) PROVE Saved'
  BY <1>8, UndecodableSays, SaysSaved
<1>9. ASSUME NEW c \in Conns, Downloaded(c) PROVE Saved'
  BY <1>9, DownloadedSays, SaysSaved
<1>7. CASE QueryRuns \/ AnswerArrives
  BY <1>7, DatabaseSaved
<1> QED
  BY <1>1, <1>2, <1>3, <1>4, <1>5, <1>6, <1>7, <1>8, <1>9 DEF Next

\* With one thread in the pool a row is there, or on its way, before the query that ends it.
THEOREM SavedInductive == Spec => [](Heard /\ Saved)
  BY TypedInductive, HeardInit, HeardNext, SavedInit, SavedNext, PTL DEF Spec

\* The pool of mysql.py has one thread. However the coroutines of the sessions are
\* resumed: when the database has caught up, the row of a session that is over says so,
\* unless it was over before its row was asked for or shared its number with another.
THEOREM EndtimesKept == Spec => []EndtimeKept
<1>1. Heard /\ Saved => EndtimeKept
  <2> SUFFICES ASSUME Heard, Saved, mode.mysql, out.db.queue = << >>,
                      NEW c \in Conns \ (past.early \union past.clash), up[c] = "lost"
               PROVE  out.db.rows[c].there /\ out.db.rows[c].ended
    BY DEF EndtimeKept
  <2>1. Kept(out.db, c)
    BY DEF Saved
  <2>2. 1 .. Len(out.db.queue) = {}
    BY ListedEmpty
  <2> QED
    BY <2>1, <2>2 DEF Kept
<1> QED
  BY <1>1, SavedInductive, PTL

-----------------------------------------------------------------------------
(* Uploads: the host's directory.                                          *)

\* The name of an upload not moved yet: of its path and second
IsHostFile(n) == \E path, sec : n = HostFile(path, sec)

\* Names of the host are of one file each, and of no two the same.
HostOK(h) ==
  /\ DOMAIN h = {"names", "data"}
  /\ Listed(h.data)
  /\ \A n \in DOMAIN h.names : h.names[n] \in 1 .. Len(h.data)
  /\ \A m, n \in DOMAIN h.names : h.names[m] = h.names[n] => m = n

\* The name of an upload is no hash, and a hash tells what it is of.
LEMMA NamesApart ==
  /\ \A w : ~IsHostFile(Sha(w))
  /\ \A v, w : Sha(v) = Sha(w) => v = w
<1>1. ASSUME NEW w, NEW path, NEW sec PROVE Sha(w) # HostFile(path, sec)
  <2>1. Sha(w)[1] = "sha" /\ HostFile(path, sec)[1] = "sftp"
    BY DEF Sha, HostFile
  <2> QED
    BY <2>1
<1>2. ASSUME NEW v, NEW w, Sha(v) = Sha(w) PROVE v = w
  <2>1. Sha(v)[2] = v /\ Sha(w)[2] = w
    BY DEF Sha
  <2> QED
    BY <1>2, <2>1
<1> QED
  BY <1>1, <1>2 DEF IsHostFile

\* A file of the host gets other contents.
LEMMA HostWritten ==
  ASSUME NEW h, NEW fd, NEW data, HostOK(h), fd \in 1 .. Len(h.data)
  PROVE  /\ HostOK([h EXCEPT !.data[fd] = data])
         /\ [h EXCEPT !.data[fd] = data].names = h.names
         /\ Len([h EXCEPT !.data[fd] = data].data) = Len(h.data)
         /\ [h EXCEPT !.data[fd] = data].data[fd] = data
         /\ \A i \in 1 .. Len(h.data) : i # fd => [h EXCEPT !.data[fd] = data].data[i] = h.data[i]
<1> DEFINE new == [h EXCEPT !.data[fd] = data]
           contents == [h.data EXCEPT ![fd] = data]
<1>1. DOMAIN new = {"names", "data"} /\ new.names = h.names /\ new.data = contents
  BY DEF HostOK
<1>2. /\ Listed(contents) /\ Len(contents) = Len(h.data) /\ contents[fd] = data
      /\ \A i \in 1 .. Len(h.data) : i # fd => contents[i] = h.data[i]
  BY ListedReplaced DEF HostOK
<1> HIDE DEF new, contents
<1>3. HostOK(new)
  BY <1>1, <1>2 DEF HostOK
<1> QED
  BY <1>1, <1>2, <1>3 DEF new

\* A file is made.
Made(h, name) ==
  [names |-> [n \in DOMAIN h.names \union {name} |-> IF n = name THEN Len(h.data) + 1 ELSE h.names[n]],
   data |-> Append(h.data, "")]

\* A file made
LEMMA HostMade ==
  ASSUME NEW h, NEW name, HostOK(h), name \notin DOMAIN h.names
  PROVE  /\ HostOK(Made(h, name))
         /\ DOMAIN Made(h, name).names = DOMAIN h.names \union {name}
         /\ Made(h, name).names[name] = Len(h.data) + 1
         /\ \A n \in DOMAIN h.names : Made(h, name).names[n] = h.names[n]
         /\ Len(Made(h, name).data) = Len(h.data) + 1
         /\ \A i \in 1 .. Len(h.data) : Made(h, name).data[i] = h.data[i]
<1> DEFINE names == [n \in DOMAIN h.names \union {name} |-> IF n = name THEN Len(h.data) + 1 ELSE h.names[n]]
           contents == Append(h.data, "")
           new == Made(h, name)
<1>1. DOMAIN new = {"names", "data"} /\ new.names = names /\ new.data = contents
  BY DEF Made
<1>2. /\ Listed(contents) /\ Len(contents) = Len(h.data) + 1
      /\ \A i \in 1 .. Len(h.data) : contents[i] = h.data[i]
  <2> DEFINE s == h.data
             e == ""
  <2>1. Listed(s)
    BY DEF HostOK
  <2> HIDE DEF s, e
  <2>2. Listed(Append(s, e)) /\ Len(Append(s, e)) = Len(s) + 1 /\ \A i \in 1 .. Len(s) : Append(s, e)[i] = s[i]
    BY <2>1, ListedAppend
  <2> QED
    BY <2>2 DEF s, e
<1>3. Len(h.data) \in Nat
  BY ListedShape DEF HostOK
<1>4. /\ DOMAIN names = DOMAIN h.names \union {name} /\ names[name] = Len(h.data) + 1
      /\ \A n \in DOMAIN h.names : names[n] = h.names[n]
  OBVIOUS
<1> HIDE DEF new, names, contents
<1>5. HostOK(new)
  <2>1. \A n \in DOMAIN names : names[n] \in 1 .. Len(contents)
    BY <1>2, <1>3, <1>4 DEF HostOK
  <2>2. \A n \in DOMAIN h.names : names[n] # names[name]
    BY <1>3, <1>4 DEF HostOK
  <2>3. \A m, n \in DOMAIN names : names[m] = names[n] => m = n
    BY <1>4, <2>2 DEF HostOK
  <2> QED
    BY <1>1, <1>2, <2>1, <2>3 DEF HostOK
<1> QED
  BY <1>1, <1>2, <1>4, <1>5 DEF new

\* A file is moved to its hash, or goes.
LEMMA HostMoved ==
  ASSUME NEW h, NEW name, HostOK(h), name \in DOMAIN h.names, IsHostFile(name)
  PROVE  /\ HostOK(Moved(h, name))
         /\ Moved(h, name).data = h.data
         /\ DOMAIN Moved(h, name).names = (DOMAIN h.names \ {name}) \union {Sha(Contents(h, name))}
         /\ \A n \in DOMAIN h.names \ {name} : Moved(h, name).names[n] = h.names[n]
         /\ Sha(Contents(h, name)) \notin DOMAIN h.names
              => Moved(h, name).names[Sha(Contents(h, name))] = h.names[name]
<1> DEFINE sha == Sha(Contents(h, name))
           file == IF sha \in DOMAIN h.names THEN h.names[sha] ELSE h.names[name]
           names == [n \in (DOMAIN h.names \ {name}) \union {sha} |-> IF n = sha THEN file ELSE h.names[n]]
           new == Moved(h, name)
<1>1. new = [h EXCEPT !.names = names]
  BY DEF Moved
<1>2. sha # name
  BY NamesApart
<1> HIDE DEF sha
<1>3. /\ DOMAIN names = (DOMAIN h.names \ {name}) \union {sha}
      /\ \A n \in DOMAIN h.names \ {name} : names[n] = h.names[n]
      /\ sha \notin DOMAIN h.names => names[sha] = h.names[name]
      /\ sha \in DOMAIN h.names => names[sha] = h.names[sha]
  OBVIOUS
<1> HIDE DEF names, new
<1>4. DOMAIN new = {"names", "data"} /\ new.names = names /\ new.data = h.data
  BY <1>1 DEF HostOK
<1>5. HostOK(new)
  <2>1. \A n \in DOMAIN names : names[n] \in 1 .. Len(h.data)
    BY <1>3 DEF HostOK
  <2>2. \A m, n \in DOMAIN names : names[m] = names[n] => m = n
    <3>1. CASE sha \in DOMAIN h.names
      BY <1>3, <3>1 DEF HostOK
    <3>2. CASE sha \notin DOMAIN h.names
      BY <1>3, <3>2 DEF HostOK
    <3> QED
      BY <3>1, <3>2
  <2> QED
    BY <1>4, <2>1, <2>2 DEF HostOK
<1> QED
  BY <1>3, <1>4, <1>5 DEF new, sha

-----------------------------------------------------------------------------
(* Handles and their files. H: the handles of all servers; leaks: the names*)
(* of files an open had opened when it raised.                             *)

\* No other upload had the path and second of the one whose file fd is.
Sole(H, leaks, fd) ==
  \A y \in DOMAIN H : H[y].fd = fd =>
    /\ \A z \in DOMAIN H : H[z].name = H[y].name => y = z
    /\ H[y].name \notin leaks

\* The file behind a handle has no other name of an upload.
HandleOK(e, h) ==
  /\ e.fd \in 0 .. Len(h.data)
  /\ e.fd = 0 => e.wrote = ""
  /\ e.fd # 0 => IsHostFile(e.name)
  /\ \A n \in DOMAIN h.names : IsHostFile(n) /\ h.names[n] = e.fd => n = e.name

\* The file behind a handle
LEMMA FileBehind ==
  ASSUME NEW e, NEW h, HostOK(h), HandleOK(e, h), e.fd # 0
  PROVE  e.fd \in 1 .. Len(h.data)
<1> DEFINE n == Len(h.data)
           fd == e.fd
<1>1. n \in Nat
  BY ListedShape DEF HostOK
<1>2. fd \in 0 .. n /\ fd # 0
  BY DEF HandleOK
<1> HIDE DEF n, fd
<1>3. fd \in 1 .. n
  BY <1>1, <1>2
<1> QED
  BY <1>3 DEF n, fd

\* Handles of one file are of one name.
HandlesOK(H, h) ==
  /\ \A y \in DOMAIN H : HandleOK(H[y], h)
  /\ \A y, z \in DOMAIN H : H[y].fd = H[z].fd /\ H[y].fd # 0 => H[y].name = H[z].name

\* While the handle is open its file has its name, afterwards its hash is there.
FileKept(e, h) ==
  IF e.state = "open"
  THEN /\ e.name \in DOMAIN h.names
       /\ h.names[e.name] = e.fd
       /\ e.wrote # "" => h.data[e.fd] = e.wrote
  ELSE e.wrote # "" => Sha(e.wrote) \in DOMAIN h.names

\* What was written through a handle is in its file, when no other upload had its path and second.
AllKept(H, leaks, h) ==
  \A y \in DOMAIN H : H[y].fd # 0 /\ Sole(H, leaks, H[y].fd) => FileKept(H[y], h)

\* What is filed under a hash has it.
HashesKept(H, leaks, h) ==
  \A w : Sha(w) \in DOMAIN h.names /\ Sole(H, leaks, h.names[Sha(w)]) => h.data[h.names[Sha(w)]] = w

\* All that is known of handles and files
Filed(H, leaks, h) ==
  HostOK(h) /\ HandlesOK(H, h) /\ AllKept(H, leaks, h) /\ HashesKept(H, leaks, h)

\* The handles H are those of G too, which may have more.
Grown(H, G) ==
  DOMAIN H \subseteq DOMAIN G /\ \A y \in DOMAIN H : G[y].fd = H[y].fd /\ G[y].name = H[y].name

\* An upload that is still the only one of its name was so before.
LEMMA SoleBefore ==
  ASSUME NEW H, NEW G, NEW leaks, NEW more, Grown(H, G), leaks \subseteq more
  PROVE  \A fd : Sole(G, more, fd) => Sole(H, leaks, fd)
  BY DEF Grown, Sole

\* Handle x is not the same any more, but for its file.
Changed(H, G, x) ==
  /\ x \in DOMAIN H /\ DOMAIN G = DOMAIN H
  /\ \A y \in DOMAIN H : y # x => G[y] = H[y]
  /\ G[x].fd = H[x].fd /\ G[x].name = H[x].name

\* A changed handle is no handle less.
LEMMA ChangedGrown ==
  ASSUME NEW H, NEW G, NEW x, Changed(H, G, x)
  PROVE  Grown(H, G)
  BY DEF Changed, Grown

\* Nothing changes that matters.
LEMMA FiledCounted ==
  ASSUME NEW H, NEW G, NEW x, NEW leaks, NEW h, Filed(H, leaks, h), Changed(H, G, x),
         G[x].state = H[x].state, G[x].wrote = H[x].wrote
  PROVE  Filed(G, leaks, h)
<1>1. \A y \in DOMAIN H : /\ G[y].fd = H[y].fd /\ G[y].name = H[y].name
                          /\ G[y].state = H[y].state /\ G[y].wrote = H[y].wrote
  BY DEF Changed
<1>2. DOMAIN G = DOMAIN H
  BY DEF Changed
<1>3. \A fd : Sole(G, leaks, fd) => Sole(H, leaks, fd)
  BY ChangedGrown, SoleBefore
<1>4. HandlesOK(G, h)
  <2>1. \A y \in DOMAIN H : HandleOK(H[y], h) => HandleOK(G[y], h)
    BY <1>1 DEF HandleOK
  <2> QED
    BY <1>1, <1>2, <2>1 DEF Filed, HandlesOK
<1>5. AllKept(G, leaks, h)
  BY <1>1, <1>2, <1>3 DEF Filed, AllKept, FileKept
<1>6. HashesKept(G, leaks, h)
  BY <1>3 DEF Filed, HashesKept
<1> QED
  BY <1>4, <1>5, <1>6 DEF Filed

\* A write: only the file of an upload that shares it with none matters, and that
\* is under the name of its own.
LEMMA FiledWritten ==
  ASSUME NEW H, NEW G, NEW x, NEW leaks, NEW h, Filed(H, leaks, h), Changed(H, G, x),
         H[x].state = "open", G[x].state = "open", H[x].fd # 0
  PROVE  Filed(G, leaks, [h EXCEPT !.data[H[x].fd] = G[x].wrote])
<1> DEFINE fd == H[x].fd
           data == G[x].wrote
           new == [h EXCEPT !.data[fd] = data]
<1>1. fd \in 1 .. Len(h.data) /\ Len(h.data) \in Nat
  <2>1. Len(h.data) \in Nat
    BY ListedShape DEF Filed, HostOK
  <2>2. HandleOK(H[x], h)
    BY DEF Filed, HandlesOK, Changed
  <2>3. HostOK(h)
    BY DEF Filed
  <2> QED
    BY <2>1, <2>2, <2>3, FileBehind
<1>2. HostOK(new)
  <2> HIDE DEF fd, data
  <2> QED
    BY <1>1, HostWritten DEF Filed
<1>3. /\ new.names = h.names
      /\ Len(new.data) = Len(h.data)
      /\ new.data[fd] = data
      /\ \A i \in 1 .. Len(h.data) : i # fd => new.data[i] = h.data[i]
  <2> HIDE DEF fd, data
  <2> QED
    BY <1>1, HostWritten DEF Filed
<1> HIDE DEF new
<1>4. \A y \in DOMAIN H : G[y].fd = H[y].fd /\ G[y].name = H[y].name /\ (y # x => G[y] = H[y])
  BY DEF Changed
<1>5. DOMAIN G = DOMAIN H /\ x \in DOMAIN H
  BY DEF Changed
<1>6. \A f : Sole(G, leaks, f) => Sole(H, leaks, f)
  BY ChangedGrown, SoleBefore
<1>7. HandlesOK(G, new)
  <2>1. \A y \in DOMAIN H : HandleOK(H[y], h)
    BY DEF Filed, HandlesOK
  <2>2. \A y \in DOMAIN H : HandleOK(G[y], new)
    BY <1>3, <1>4, <2>1 DEF HandleOK
  <2> QED
    BY <1>4, <1>5, <2>2 DEF Filed, HandlesOK
<1>8. AllKept(G, leaks, new)
  <2> SUFFICES ASSUME NEW y \in DOMAIN H, H[y].fd # 0, Sole(H, leaks, H[y].fd) PROVE FileKept(G[y], new)
    BY <1>4, <1>5, <1>6 DEF AllKept
  <2>1. FileKept(H[y], h)
    BY DEF Filed, AllKept
  <2>2. CASE y = x
    BY <1>3, <1>4, <2>1, <2>2 DEF FileKept
  <2>3. CASE y # x
    <3>1. H[y].fd # fd
      BY <1>5, <2>3 DEF Filed, HandlesOK, Sole
    <3>2. HandleOK(H[y], h)
      BY DEF Filed, HandlesOK
    <3>3. HostOK(h)
      BY DEF Filed
    <3>4. H[y].fd \in 1 .. Len(h.data)
      BY <3>2, <3>3, FileBehind
    <3>5. new.data[H[y].fd] = h.data[H[y].fd]
      BY <1>3, <3>1, <3>4
    <3> QED
      BY <1>3, <1>4, <2>1, <2>3, <3>5 DEF FileKept
  <2> QED
    BY <2>2, <2>3
<1>9. HashesKept(G, leaks, new)
  <2> SUFFICES ASSUME NEW w, Sha(w) \in DOMAIN h.names, Sole(H, leaks, h.names[Sha(w)])
               PROVE  new.data[h.names[Sha(w)]] = w
    BY <1>3, <1>6 DEF HashesKept
  <2>1. h.data[h.names[Sha(w)]] = w /\ h.names[Sha(w)] \in 1 .. Len(h.data)
    BY DEF Filed, HashesKept, HostOK
  <2>2. h.names[Sha(w)] # fd
    <3> SUFFICES ASSUME h.names[Sha(w)] = fd PROVE FALSE
      OBVIOUS
    <3>1. FileKept(H[x], h)
      BY <1>5 DEF Filed, AllKept
    <3>2. H[x].name \in DOMAIN h.names /\ h.names[H[x].name] = fd
      BY <3>1 DEF FileKept
    <3>3. Sha(w) = H[x].name
      BY <3>2 DEF Filed, HostOK
    <3>4. HandleOK(H[x], h)
      BY <1>5 DEF Filed, HandlesOK
    <3> QED
      BY <1>5, <3>3, <3>4, NamesApart DEF HandleOK
  <2> QED
    BY <1>3, <2>1, <2>2
<1> QED
  BY <1>2, <1>7, <1>8, <1>9 DEF Filed, new

\* A close that moves nothing: there is no file, or not under that name.
LEMMA FiledLeft ==
  ASSUME NEW H, NEW G, NEW x, NEW leaks, NEW h, Filed(H, leaks, h), Changed(H, G, x),
         H[x].state = "open", G[x].state # "open", G[x].wrote = H[x].wrote,
         H[x].fd = 0 \/ H[x].name \notin DOMAIN h.names
  PROVE  Filed(G, leaks, h)
<1>1. \A y \in DOMAIN H : /\ G[y].fd = H[y].fd /\ G[y].name = H[y].name /\ G[y].wrote = H[y].wrote
                          /\ y # x => G[y].state = H[y].state
  BY DEF Changed
<1>2. DOMAIN G = DOMAIN H
  BY DEF Changed
<1>3. \A fd : Sole(G, leaks, fd) => Sole(H, leaks, fd)
  BY ChangedGrown, SoleBefore
<1>4. HandlesOK(G, h)
  <2>1. \A y \in DOMAIN H : HandleOK(H[y], h) => HandleOK(G[y], h)
    BY <1>1 DEF HandleOK
  <2> QED
    BY <1>1, <1>2, <2>1 DEF Filed, HandlesOK
<1>5. AllKept(G, leaks, h)
  <2> SUFFICES ASSUME NEW y \in DOMAIN H, H[y].fd # 0, Sole(H, leaks, H[y].fd) PROVE FileKept(G[y], h)
    BY <1>1, <1>2, <1>3 DEF AllKept
  <2>1. FileKept(H[y], h)
    BY DEF Filed, AllKept
  <2>2. y # x
    BY <2>1 DEF FileKept
  <2> QED
    BY <1>1, <2>1, <2>2 DEF FileKept
<1>6. HashesKept(G, leaks, h)
  BY <1>3 DEF Filed, HashesKept
<1> QED
  BY <1>4, <1>5, <1>6 DEF Filed

\* A close that moves the file to its hash: what another handle has is under another
\* name, or it shared the file.
LEMMA FiledMoved ==
  ASSUME NEW H, NEW G, NEW x, NEW leaks, NEW h, Filed(H, leaks, h), Changed(H, G, x),
         H[x].state = "open", G[x].state # "open", G[x].wrote = H[x].wrote,
         H[x].fd # 0, H[x].name \in DOMAIN h.names
  PROVE  Filed(G, leaks, Moved(h, H[x].name))
<1> DEFINE name == H[x].name
           content == Contents(h, name)
           sha == Sha(content)
           new == Moved(h, name)
<1>1. /\ HostOK(h) /\ name \in DOMAIN h.names /\ IsHostFile(name)
  BY DEF Filed, HandlesOK, HandleOK, Changed
<1>2. HostOK(new)
  <2> HIDE DEF name
  <2> QED
    BY <1>1, HostMoved
<1>3. /\ new.data = h.data
      /\ DOMAIN new.names = (DOMAIN h.names \ {name}) \union {sha}
      /\ \A n \in DOMAIN h.names \ {name} : new.names[n] = h.names[n]
      /\ sha \notin DOMAIN h.names => new.names[sha] = h.names[name]
  <2> HIDE DEF name
  <2> QED
    BY <1>1, HostMoved
<1>4. ~IsHostFile(sha)
  BY NamesApart
<1>5. content = h.data[h.names[name]]
  BY DEF Contents
<1> HIDE DEF new, content
<1>6. \A y \in DOMAIN H : /\ G[y].fd = H[y].fd /\ G[y].name = H[y].name /\ G[y].wrote = H[y].wrote
                          /\ y # x => G[y].state = H[y].state
  BY DEF Changed
<1>7. DOMAIN G = DOMAIN H /\ x \in DOMAIN H
  BY DEF Changed
<1>8. \A fd : Sole(G, leaks, fd) => Sole(H, leaks, fd)
  BY ChangedGrown, SoleBefore
<1>9. HandlesOK(G, new)
  <2>1. \A n \in DOMAIN new.names : IsHostFile(n) => n \in DOMAIN h.names /\ new.names[n] = h.names[n]
    BY <1>3, <1>4
  <2>2. \A y \in DOMAIN H : HandleOK(H[y], h) => HandleOK(G[y], new)
    BY <1>3, <1>6, <2>1 DEF HandleOK
  <2> QED
    BY <1>6, <1>7, <2>2 DEF Filed, HandlesOK
<1>10. AllKept(G, leaks, new)
  <2> SUFFICES ASSUME NEW y \in DOMAIN H, H[y].fd # 0, Sole(H, leaks, H[y].fd) PROVE FileKept(G[y], new)
    BY <1>6, <1>7, <1>8 DEF AllKept
  <2>1. FileKept(H[y], h)
    BY DEF Filed, AllKept
  <2>2. CASE y = x
    <3>1. H[x].wrote # "" => content = H[x].wrote
      BY <1>5, <2>1, <2>2 DEF FileKept
    <3> QED
      BY <1>3, <1>6, <2>2, <3>1 DEF FileKept
  <2>3. CASE y # x
    <3>1. H[y].name # name
      BY <1>7, <2>3 DEF Sole
    <3>2. H[y].state = "open" => FileKept(G[y], new)
      <4>1. H[y].name # sha
        BY <1>4 DEF Filed, HandlesOK, HandleOK
      <4> QED
        BY <1>3, <1>6, <2>1, <2>3, <3>1, <4>1 DEF FileKept
    <3>3. H[y].state # "open" => FileKept(G[y], new)
      <4>1. Sha(H[y].wrote) # name
        BY <1>1, NamesApart
      <4> QED
        BY <1>3, <1>6, <2>1, <2>3, <4>1 DEF FileKept
    <3> QED
      BY <3>2, <3>3
  <2> QED
    BY <2>2, <2>3
<1>11. HashesKept(G, leaks, new)
  <2> SUFFICES ASSUME NEW w, Sha(w) \in DOMAIN new.names, Sole(H, leaks, new.names[Sha(w)])
               PROVE  new.data[new.names[Sha(w)]] = w
    BY <1>8 DEF HashesKept
  <2>1. Sha(w) # name
    BY <1>1, NamesApart
  <2>2. CASE Sha(w) \in DOMAIN h.names
    BY <1>3, <2>1, <2>2 DEF Filed, HashesKept
  <2>3. CASE Sha(w) \notin DOMAIN h.names
    <3>1. Sha(w) = sha
      BY <1>3, <2>3
    <3>2. w = content
      BY <3>1, NamesApart
    <3> QED
      BY <1>3, <1>5, <2>3, <3>1, <3>2
  <2> QED
    BY <2>2, <2>3
<1> QED
  BY <1>2, <1>9, <1>10, <1>11 DEF Filed, new

\* What os.open leaves of the host
LEMMA HostAfterOpen ==
  ASSUME NEW h, NEW name, NEW fd, NEW new, HostOK(h), HostOpened(h, name, fd, new)
  PROVE  /\ HostOK(new)
         /\ DOMAIN new.names = DOMAIN h.names \union {name}
         /\ new.names[name] = fd
         /\ \A n \in DOMAIN h.names : new.names[n] = h.names[n]
         /\ fd \in 1 .. Len(new.data)
         /\ 1 .. Len(h.data) \subseteq 1 .. Len(new.data)
         /\ \A i \in 1 .. Len(h.data) : i # fd => new.data[i] = h.data[i]
         /\ fd \in 1 .. Len(h.data) => name \in DOMAIN h.names
<1>1. Len(h.data) \in Nat
  BY ListedShape DEF HostOK
<1>2. CASE name \in DOMAIN h.names /\ fd = h.names[name] /\ new = h
  BY <1>2 DEF HostOK
<1>3. CASE name \in DOMAIN h.names /\ fd = h.names[name] /\ new = [h EXCEPT !.data[fd] = ""]
  <2>1. fd \in 1 .. Len(h.data)
    BY <1>3 DEF HostOK
  <2> DEFINE data == ""
  <2> HIDE DEF data
  <2>2. HostOK([h EXCEPT !.data[fd] = data])
    BY <2>1, HostWritten
  <2>3. /\ [h EXCEPT !.data[fd] = data].names = h.names
        /\ Len([h EXCEPT !.data[fd] = data].data) = Len(h.data)
        /\ \A i \in 1 .. Len(h.data) : i # fd => [h EXCEPT !.data[fd] = data].data[i] = h.data[i]
    BY <2>1, HostWritten
  <2>4. new = [h EXCEPT !.data[fd] = data]
    BY <1>3 DEF data
  <2> QED
    BY <1>3, <2>1, <2>2, <2>3, <2>4
<1>4. CASE name \notin DOMAIN h.names /\ fd = Len(h.data) + 1 /\ new = Made(h, name)
  <2>1. HostOK(new)
    BY <1>4, HostMade
  <2>2. /\ DOMAIN new.names = DOMAIN h.names \union {name}
        /\ new.names[name] = fd
        /\ \A n \in DOMAIN h.names : new.names[n] = h.names[n]
        /\ Len(new.data) = Len(h.data) + 1
        /\ \A i \in 1 .. Len(h.data) : new.data[i] = h.data[i]
    BY <1>4, HostMade
  <2> QED
    BY <1>1, <1>4, <2>1, <2>2
<1> QED
  BY <1>2, <1>3, <1>4 DEF HostOpened, Made

\* One more handle, of the file of that name, or one more that leaked it
Opened(H, G, leaks, more, name, fd) ==
  /\ DOMAIN H \subseteq DOMAIN G /\ \A y \in DOMAIN H : G[y] = H[y]
  /\ leaks \subseteq more
  /\ \A y \in DOMAIN G \ DOMAIN H : G[y].fd = fd /\ G[y].name = name /\ G[y].state = "open" /\ G[y].wrote = ""
  /\ name \in more \/ DOMAIN G # DOMAIN H

\* An open: it may empty the file of a handle, which is not the only one then.
LEMMA FiledOpened ==
  ASSUME NEW H, NEW G, NEW leaks, NEW more, NEW h, NEW new, NEW name, NEW fd,
         Filed(H, leaks, h), Opened(H, G, leaks, more, name, fd), HostOpened(h, name, fd, new)
  PROVE  Filed(G, more, new)
<1>1. HostOK(h)
  BY DEF Filed
<1>2. HostOK(new)
  BY <1>1, HostAfterOpen
<1>3. /\ DOMAIN new.names = DOMAIN h.names \union {name}
      /\ new.names[name] = fd
      /\ \A n \in DOMAIN h.names : new.names[n] = h.names[n]
      /\ \A i \in 1 .. Len(h.data) : i # fd => new.data[i] = h.data[i]
      /\ fd \in 1 .. Len(h.data) => name \in DOMAIN h.names
  BY <1>1, HostAfterOpen
<1>4. fd \in 1 .. Len(new.data) /\ 1 .. Len(h.data) \subseteq 1 .. Len(new.data)
  BY <1>1, HostAfterOpen
<1>5. IsHostFile(name) /\ fd # 0
  BY DEF HostOpened, IsHostFile
<1>6. \A f : Sole(G, more, f) => Sole(H, leaks, f)
  <2>1. Grown(H, G) /\ leaks \subseteq more
    BY DEF Opened, Grown
  <2> QED
    BY <2>1, SoleBefore
<1>7. \A y \in DOMAIN H : HandleOK(H[y], h) /\ G[y] = H[y]
  BY DEF Filed, HandlesOK, Opened
<1>8. \A y \in DOMAIN H : H[y].fd # 0 => H[y].fd \in 1 .. Len(h.data)
  BY <1>1, <1>7, FileBehind
<1>9. \A y \in DOMAIN H : H[y].fd = fd => H[y].name = name
  <2> SUFFICES ASSUME NEW y \in DOMAIN H, H[y].fd = fd PROVE H[y].name = name
    OBVIOUS
  <2>1. fd \in 1 .. Len(h.data)
    BY <1>5, <1>8
  <2>2. name \in DOMAIN h.names /\ h.names[name] = fd
    BY <1>3, <2>1
  <2>3. \A n \in DOMAIN h.names : IsHostFile(n) /\ h.names[n] = H[y].fd => n = H[y].name
    BY <1>7 DEF HandleOK
  <2> QED
    BY <1>5, <2>2, <2>3
<1>10. \A y \in DOMAIN H : H[y].name = name => ~Sole(G, more, H[y].fd)
  <2> SUFFICES ASSUME NEW y \in DOMAIN H, H[y].name = name, Sole(G, more, H[y].fd) PROVE FALSE
    OBVIOUS
  <2>1. y \in DOMAIN G /\ G[y] = H[y]
    BY DEF Opened
  <2>2. name \notin more /\ \A z \in DOMAIN G : G[z].name = name => y = z
    BY <2>1 DEF Sole
  <2>3. PICK z \in DOMAIN G \ DOMAIN H : TRUE
    BY <2>2 DEF Opened
  <2>4. G[z].name = name
    BY DEF Opened
  <2> QED
    BY <2>2, <2>3, <2>4
<1>11. \A y \in DOMAIN G \ DOMAIN H : G[y].fd = fd /\ G[y].name = name /\ G[y].state = "open" /\ G[y].wrote = ""
  BY DEF Opened
<1>12. HandlesOK(G, new)
  <2>1. ASSUME NEW y \in DOMAIN G, NEW n \in DOMAIN new.names, IsHostFile(n), new.names[n] = G[y].fd
        PROVE  n = G[y].name
    <3>1. CASE n = name
      <4>1. G[y].fd = fd
        BY <1>3, <2>1, <3>1
      <4> QED
        BY <1>7, <1>9, <1>11, <3>1, <4>1
    <3>2. CASE n # name
      <4>1. n \in DOMAIN h.names /\ new.names[n] = h.names[n]
        BY <1>3, <3>2
      <4>2. new.names[n] # fd
        BY <1>2, <1>3, <3>2 DEF HostOK
      <4>3. y \in DOMAIN H
        BY <1>11, <2>1, <4>2
      <4> QED
        BY <1>7, <2>1, <4>1, <4>3 DEF HandleOK
    <3> QED
      BY <3>1, <3>2
  <2>2. ASSUME NEW y \in DOMAIN G PROVE HandleOK(G[y], new)
    <3>1. Len(new.data) \in Nat
      BY <1>2, ListedShape DEF HostOK
    <3>2. G[y].fd = 0 \/ G[y].fd \in 1 .. Len(new.data)
      BY <1>4, <1>7, <1>8, <1>11
    <3>3. G[y].fd \in 0 .. Len(new.data)
      BY <3>1, <3>2
    <3>4. (G[y].fd = 0 => G[y].wrote = "") /\ (G[y].fd # 0 => IsHostFile(G[y].name))
      BY <1>5, <1>7, <1>11 DEF HandleOK
    <3> QED
      BY <2>1, <3>3, <3>4 DEF HandleOK
  <2>3. \A y, z \in DOMAIN G : G[y].fd = G[z].fd /\ G[y].fd # 0 => G[y].name = G[z].name
    <3> SUFFICES ASSUME NEW y \in DOMAIN G, NEW z \in DOMAIN G, G[y].fd = G[z].fd, G[y].fd # 0
                 PROVE  G[y].name = G[z].name
      OBVIOUS
    <3>1. CASE G[y].fd = fd
      <4>1. \A a \in DOMAIN G : G[a].fd = fd => G[a].name = name
        BY <1>7, <1>9, <1>11
      <4> QED
        BY <3>1, <4>1
    <3>2. CASE G[y].fd # fd
      <4>1. y \in DOMAIN H /\ z \in DOMAIN H
        BY <1>11, <3>2
      <4> QED
        BY <1>7, <4>1 DEF Filed, HandlesOK
    <3> QED
      BY <3>1, <3>2
  <2> QED
    BY <2>2, <2>3 DEF HandlesOK
<1>13. AllKept(G, more, new)
  <2>1. ASSUME NEW y \in DOMAIN H, H[y].fd # 0, Sole(G, more, H[y].fd) PROVE FileKept(G[y], new)
    <3>1. FileKept(H[y], h)
      BY <1>6, <2>1 DEF Filed, AllKept
    <3>2. H[y].fd # fd /\ H[y].name # name
      BY <1>9, <1>10, <2>1
    <3> QED
      BY <1>3, <1>7, <1>8, <2>1, <3>1, <3>2 DEF FileKept
  <2>2. ASSUME NEW y \in DOMAIN G \ DOMAIN H PROVE FileKept(G[y], new)
    BY <1>3, <1>11 DEF FileKept
  <2> QED
    BY <1>7, <2>1, <2>2 DEF AllKept
<1>14. HashesKept(G, more, new)
  <2> SUFFICES ASSUME NEW w, Sha(w) \in DOMAIN new.names, Sole(G, more, new.names[Sha(w)])
               PROVE  new.data[new.names[Sha(w)]] = w
    BY DEF HashesKept
  <2>1. Sha(w) # name
    BY <1>5, NamesApart
  <2>2. Sha(w) \in DOMAIN h.names /\ new.names[Sha(w)] = h.names[Sha(w)]
    BY <1>3, <2>1
  <2>3. h.data[h.names[Sha(w)]] = w
    BY <1>6, <2>2 DEF Filed, HashesKept
  <2>4. new.names[Sha(w)] # fd
    BY <1>2, <1>3, <2>1 DEF HostOK
  <2> QED
    BY <1>1, <1>3, <2>2, <2>3, <2>4 DEF HostOK
<1> QED
  BY <1>2, <1>12, <1>13, <1>14 DEF Filed

\* No file is number 0.
LEMMA Zero ==
  ASSUME NEW n \in Nat
  PROVE  0 \in 0 .. n /\ 0 \notin 1 .. n
  OBVIOUS

\* A handle without a file
LEMMA FiledFetched ==
  ASSUME NEW H, NEW G, NEW leaks, NEW h, NEW name, NEW z, Filed(H, leaks, h),
         DOMAIN G = DOMAIN H \union {z}, z \notin DOMAIN H, \A y \in DOMAIN H : G[y] = H[y],
         G[z].fd = 0, G[z].wrote = ""
  PROVE  Filed(G, leaks, h)
<1>1. \A f : Sole(G, leaks, f) => Sole(H, leaks, f)
  <2>1. Grown(H, G)
    BY DEF Grown
  <2> QED
    BY <2>1, SoleBefore
<1>2. HandleOK(G[z], h)
  <2> DEFINE last == Len(h.data)
  <2>1. last \in Nat /\ \A n \in DOMAIN h.names : h.names[n] \in 1 .. last
    BY ListedShape DEF Filed, HostOK
  <2> HIDE DEF last
  <2>2. 0 \in 0 .. last /\ 0 \notin 1 .. last
    BY <2>1, Zero
  <2> QED
    BY <2>1, <2>2 DEF HandleOK, last
<1>3. HandlesOK(G, h)
  BY <1>2 DEF Filed, HandlesOK
<1>4. AllKept(G, leaks, h)
  BY <1>1 DEF Filed, AllKept
<1>5. HashesKept(G, leaks, h)
  BY <1>1 DEF Filed, HashesKept
<1> QED
  BY <1>3, <1>4, <1>5 DEF Filed

-----------------------------------------------------------------------------
(* V: the SFTP servers of all channels.                                    *)

\* The handles of all servers
HandlesOf(V) ==
  [y \in UNION {{x} \X DOMAIN V[x].handles : x \in DOMAIN V} |-> V[y[1]].handles[y[2]]]

\* The names of all files left open
LeaksOf(V) == UNION {V[x].leaked : x \in DOMAIN V}

\* Filed of all servers
UploadsFiled(V, h) == Filed(HandlesOf(V), LeaksOf(V), h)

\* Where a handle is found
LEMMA HandlesAt ==
  ASSUME NEW V
  PROVE  /\ \A x, i : <<x, i>> \in DOMAIN HandlesOf(V) <=> x \in DOMAIN V /\ i \in DOMAIN V[x].handles
         /\ \A x, i : <<x, i>> \in DOMAIN HandlesOf(V) => HandlesOf(V)[<<x, i>>] = V[x].handles[i]
         /\ \A y \in DOMAIN HandlesOf(V) : y = <<y[1], y[2]>>
<1>1. DOMAIN HandlesOf(V) = UNION {{x} \X DOMAIN V[x].handles : x \in DOMAIN V}
  BY DEF HandlesOf
<1>2. \A y \in DOMAIN HandlesOf(V) : HandlesOf(V)[y] = V[y[1]].handles[y[2]]
  BY DEF HandlesOf
<1>3. \A x, i : <<x, i>> \in DOMAIN HandlesOf(V) <=> x \in DOMAIN V /\ i \in DOMAIN V[x].handles
  BY <1>1
<1>4. \A y \in DOMAIN HandlesOf(V) : y = <<y[1], y[2]>>
  BY <1>1
<1>5. \A x, i : <<x, i>>[1] = x /\ <<x, i>>[2] = i
  OBVIOUS
<1> QED
  BY <1>2, <1>3, <1>4, <1>5

\* Servers that are new have nothing open.
SameHandles(V, W) ==
  /\ DOMAIN V \subseteq DOMAIN W
  /\ \A x \in DOMAIN V : W[x].handles = V[x].handles /\ W[x].leaked = V[x].leaked
  /\ \A x \in DOMAIN W \ DOMAIN V : W[x].handles = << >> /\ W[x].leaked = {}

\* Servers with the same handles
LEMMA SameHandlesFiled ==
  ASSUME NEW V, NEW W, NEW h, SameHandles(V, W), UploadsFiled(V, h)
  PROVE  UploadsFiled(W, h)
<1>1. LeaksOf(W) = LeaksOf(V)
  <2>1. ASSUME NEW n \in LeaksOf(W) PROVE n \in LeaksOf(V)
    <3>1. PICK x \in DOMAIN W : n \in W[x].leaked
      BY DEF LeaksOf
    <3>2. x \in DOMAIN V
      BY <3>1 DEF SameHandles
    <3> QED
      BY <3>1, <3>2 DEF SameHandles, LeaksOf
  <2>2. ASSUME NEW n \in LeaksOf(V) PROVE n \in LeaksOf(W)
    <3>1. PICK x \in DOMAIN V : n \in V[x].leaked
      BY DEF LeaksOf
    <3> QED
      BY <3>1 DEF SameHandles, LeaksOf
  <2> QED
    BY <2>1, <2>2
<1>2. DOMAIN HandlesOf(W) = DOMAIN HandlesOf(V)
  <2>1. ASSUME NEW x, NEW i
        PROVE  (x \in DOMAIN V /\ i \in DOMAIN V[x].handles) <=> (x \in DOMAIN W /\ i \in DOMAIN W[x].handles)
    <3>1. DOMAIN << >> = {}
      BY ListedEmpty
    <3> QED
      BY <3>1 DEF SameHandles
  <2>2. ASSUME NEW y \in DOMAIN HandlesOf(W) PROVE y \in DOMAIN HandlesOf(V)
    BY <2>1, HandlesAt
  <2>3. ASSUME NEW y \in DOMAIN HandlesOf(V) PROVE y \in DOMAIN HandlesOf(W)
    BY <2>1, HandlesAt
  <2> QED
    BY <2>2, <2>3
<1>3. \A y \in DOMAIN HandlesOf(V) : HandlesOf(W)[y] = HandlesOf(V)[y]
  <2> TAKE y \in DOMAIN HandlesOf(V)
  <2>1. y = <<y[1], y[2]>>
    BY HandlesAt
  <2>2. HandlesOf(V)[y] = V[y[1]].handles[y[2]] /\ y[1] \in DOMAIN V
    BY <2>1, HandlesAt
  <2>3. HandlesOf(W)[y] = W[y[1]].handles[y[2]]
    BY <1>2, <2>1, HandlesAt
  <2> QED
    BY <2>2, <2>3 DEF SameHandles
<1>4. HandlesOf(W) = HandlesOf(V)
  <2>1. HandlesOf(W) = [y \in DOMAIN HandlesOf(W) |-> HandlesOf(W)[y]]
    BY DEF HandlesOf
  <2>2. HandlesOf(V) = [y \in DOMAIN HandlesOf(V) |-> HandlesOf(V)[y]]
    BY DEF HandlesOf
  <2> DEFINE H == HandlesOf(V)
             G == HandlesOf(W)
  <2> HIDE DEF H, G
  <2>3. G = [y \in DOMAIN G |-> G[y]] /\ H = [y \in DOMAIN H |-> H[y]]
    BY <2>1, <2>2 DEF G, H
  <2>4. DOMAIN G = DOMAIN H /\ \A y \in DOMAIN H : G[y] = H[y]
    BY <1>2, <1>3 DEF G, H
  <2>5. G = H
    BY <2>3, <2>4
  <2> QED
    BY <2>5 DEF G, H
<1> QED
  BY <1>1, <1>4 DEF UploadsFiled

\* One server is t.
Replaced(V, x, t, W) ==
  /\ x \in DOMAIN V /\ DOMAIN W = DOMAIN V
  /\ W[x] = t /\ \A z \in DOMAIN V : z # x => W[z] = V[z]

\* The names an open leaked are more by what the one leaked.
LEMMA LeaksReplaced ==
  ASSUME NEW V, NEW x, NEW t, NEW W, Replaced(V, x, t, W), V[x].leaked \subseteq t.leaked
  PROVE  /\ LeaksOf(V) \subseteq LeaksOf(W) /\ t.leaked \subseteq LeaksOf(W)
         /\ t.leaked = V[x].leaked => LeaksOf(W) = LeaksOf(V)
  BY DEF Replaced, LeaksOf

\* One handle of the server is changed.
LEMMA HandleReplaced ==
  ASSUME NEW V, NEW x, NEW t, NEW W, NEW i, Replaced(V, x, t, W), SftpOK(V[x]), SftpOK(t),
         HandleChanged(V[x], t, i)
  PROVE  /\ Changed(HandlesOf(V), HandlesOf(W), <<x, i>>)
         /\ HandlesOf(V)[<<x, i>>] = V[x].handles[i]
         /\ HandlesOf(W)[<<x, i>>] = t.handles[i]
<1>1. /\ i \in 1 .. Len(V[x].handles) /\ Len(t.handles) = Len(V[x].handles)
      /\ \A j \in 1 .. Len(V[x].handles) : j # i => t.handles[j] = V[x].handles[j]
  BY DEF HandleChanged
<1>2. DOMAIN V[x].handles = 1 .. Len(V[x].handles) /\ DOMAIN t.handles = DOMAIN V[x].handles
  BY <1>1, ListedShape DEF SftpOK
<1>3. \A z, j : z \in DOMAIN V /\ j \in DOMAIN V[z].handles <=> z \in DOMAIN W /\ j \in DOMAIN W[z].handles
  BY <1>2 DEF Replaced
<1>4. \A z \in DOMAIN V : \A j \in DOMAIN V[z].handles : <<z, j>> # <<x, i>> => W[z].handles[j] = V[z].handles[j]
  <2> TAKE z \in DOMAIN V
  <2> TAKE j \in DOMAIN V[z].handles
  <2>1. CASE z = x
    BY <1>1, <1>2, <2>1 DEF Replaced
  <2>2. CASE z # x
    BY <2>2 DEF Replaced
  <2> QED
    BY <2>1, <2>2
<1>5. DOMAIN HandlesOf(W) = DOMAIN HandlesOf(V)
  <2>1. ASSUME NEW y \in DOMAIN HandlesOf(W) PROVE y \in DOMAIN HandlesOf(V)
    BY <1>3, HandlesAt
  <2>2. ASSUME NEW y \in DOMAIN HandlesOf(V) PROVE y \in DOMAIN HandlesOf(W)
    BY <1>3, HandlesAt
  <2> QED
    BY <2>1, <2>2
<1>6. <<x, i>> \in DOMAIN HandlesOf(V)
  BY <1>1, <1>2, HandlesAt DEF Replaced
<1>7. HandlesOf(V)[<<x, i>>] = V[x].handles[i]
  BY <1>6, HandlesAt
<1>8. HandlesOf(W)[<<x, i>>] = t.handles[i]
  BY <1>5, <1>6, HandlesAt DEF Replaced
<1>9. ASSUME NEW y \in DOMAIN HandlesOf(V), y # <<x, i>> PROVE HandlesOf(W)[y] = HandlesOf(V)[y]
  <2>1. y = <<y[1], y[2]>>
    BY HandlesAt
  <2>2. /\ HandlesOf(V)[y] = V[y[1]].handles[y[2]]
        /\ y[1] \in DOMAIN V /\ y[2] \in DOMAIN V[y[1]].handles
    BY <2>1, HandlesAt
  <2>3. HandlesOf(W)[y] = W[y[1]].handles[y[2]]
    BY <1>5, <2>1, HandlesAt
  <2> QED
    BY <1>4, <1>9, <2>1, <2>2, <2>3
<1> QED
  BY <1>5, <1>6, <1>7, <1>8, <1>9 DEF Changed, HandleChanged

\* One handle more, which is e
OneHandleMore(H, G, e) ==
  \E z : /\ DOMAIN G = DOMAIN H \union {z}
         /\ z \notin DOMAIN H
         /\ \A y \in DOMAIN H : G[y] = H[y]
         /\ G[z] = e

\* The server has a handle more.
LEMMA HandleMore ==
  ASSUME NEW V, NEW x, NEW t, NEW W, NEW e, Replaced(V, x, t, W), SftpOK(V[x]), SftpOK(t),
         t.handles = Append(V[x].handles, e)
  PROVE  OneHandleMore(HandlesOf(V), HandlesOf(W), e)
<1> DEFINE s == V[x].handles
           n == Len(s)
           z == <<x, n + 1>>
<1>1. n \in Nat /\ DOMAIN s = 1 .. n
  BY ListedShape DEF SftpOK
<1>2. /\ Len(t.handles) = n + 1
      /\ \A i \in 1 .. n : t.handles[i] = s[i]
      /\ t.handles[n + 1] = e
  <2>1. Listed(s)
    BY DEF SftpOK
  <2>2. t.handles = Append(s, e)
    OBVIOUS
  <2> HIDE DEF s
  <2> QED
    BY <2>1, <2>2, ListedAppend
<1>3. DOMAIN t.handles = 1 .. n + 1
  BY <1>2, ListedShape DEF SftpOK
<1>4. x \in DOMAIN V /\ DOMAIN W = DOMAIN V /\ W[x] = t /\ \A a \in DOMAIN V : a # x => W[a] = V[a]
  BY DEF Replaced
<1>5. \A a \in DOMAIN V : \A j \in DOMAIN V[a].handles :
        j \in DOMAIN W[a].handles /\ W[a].handles[j] = V[a].handles[j]
  <2> TAKE a \in DOMAIN V
  <2> TAKE j \in DOMAIN V[a].handles
  <2>1. CASE a = x
    BY <1>1, <1>2, <1>3, <1>4, <2>1
  <2>2. CASE a # x
    BY <1>4, <2>2
  <2> QED
    BY <2>1, <2>2
<1>6. ASSUME NEW a \in DOMAIN V, NEW j \in DOMAIN W[a].handles, j \notin DOMAIN V[a].handles
      PROVE  a = x /\ j = n + 1
  <2>1. a = x
    BY <1>4, <1>6
  <2> QED
    BY <1>1, <1>3, <1>4, <1>6, <2>1
<1>7. z \notin DOMAIN HandlesOf(V)
  BY <1>1, HandlesAt
<1>8. z \in DOMAIN HandlesOf(W) /\ HandlesOf(W)[z] = e
  <2>1. n + 1 \in DOMAIN W[x].handles
    BY <1>1, <1>3, <1>4
  <2>2. z \in DOMAIN HandlesOf(W)
    BY <1>4, <2>1, HandlesAt
  <2> QED
    BY <1>2, <1>4, <2>2, HandlesAt
<1>9. ASSUME NEW y \in DOMAIN HandlesOf(V) PROVE y \in DOMAIN HandlesOf(W) /\ HandlesOf(W)[y] = HandlesOf(V)[y]
  <2>1. y = <<y[1], y[2]>>
    BY HandlesAt
  <2>2. /\ HandlesOf(V)[y] = V[y[1]].handles[y[2]]
        /\ y[1] \in DOMAIN V /\ y[2] \in DOMAIN V[y[1]].handles
    BY <2>1, HandlesAt
  <2>3. y \in DOMAIN HandlesOf(W)
    BY <1>4, <1>5, <2>1, <2>2, HandlesAt
  <2>4. HandlesOf(W)[y] = W[y[1]].handles[y[2]]
    BY <2>1, <2>3, HandlesAt
  <2> QED
    BY <1>5, <2>2, <2>3, <2>4
<1>10. ASSUME NEW y \in DOMAIN HandlesOf(W), y \notin DOMAIN HandlesOf(V) PROVE y = z
  <2>1. y = <<y[1], y[2]>>
    BY HandlesAt
  <2>2. y[1] \in DOMAIN W /\ y[2] \in DOMAIN W[y[1]].handles
    BY <2>1, HandlesAt
  <2>3. y[1] \in DOMAIN V /\ y[2] \notin DOMAIN V[y[1]].handles
    BY <1>4, <1>10, <2>1, <2>2, HandlesAt
  <2>4. y[1] = x /\ y[2] = n + 1
    BY <1>6, <2>2, <2>3
  <2> QED
    BY <2>1, <2>4
<1>11. DOMAIN HandlesOf(W) = DOMAIN HandlesOf(V) \union {z}
  BY <1>8, <1>9, <1>10
<1> QED
  BY <1>7, <1>8, <1>9, <1>11 DEF OneHandleMore

\* A server opens a file.
LEMMA OpenFiled ==
  ASSUME NEW V, NEW x, NEW t, NEW W, NEW h, NEW new, NEW name, NEW fd,
         Replaced(V, x, t, W), SftpOK(V[x]), SftpOK(t), UploadsFiled(V, h),
         HandleOpened(V[x], h, t, new, name, fd)
  PROVE  UploadsFiled(W, new)
<1>1. PICK path : t.handles = Append(V[x].handles, Handle(path, name, fd))
  BY DEF HandleOpened
<1> DEFINE e == Handle(path, name, fd)
<1>2. e.fd = fd /\ e.name = name /\ e.state = "open" /\ e.wrote = ""
  BY DEF Handle
<1> HIDE DEF e
<1>3. LeaksOf(W) = LeaksOf(V)
  BY LeaksReplaced DEF HandleOpened
<1>7. OneHandleMore(HandlesOf(V), HandlesOf(W), e)
  BY <1>1, HandleMore DEF e
<1>4. PICK z : /\ DOMAIN HandlesOf(W) = DOMAIN HandlesOf(V) \union {z}
               /\ z \notin DOMAIN HandlesOf(V)
               /\ \A y \in DOMAIN HandlesOf(V) : HandlesOf(W)[y] = HandlesOf(V)[y]
               /\ HandlesOf(W)[z] = e
  BY <1>7 DEF OneHandleMore
<1>5. CASE HostOpened(h, name, fd, new)
  <2>1. Opened(HandlesOf(V), HandlesOf(W), LeaksOf(V), LeaksOf(V), name, fd)
    BY <1>2, <1>4 DEF Opened
  <2>2. Filed(HandlesOf(W), LeaksOf(V), new)
    BY <1>5, <2>1, FiledOpened DEF UploadsFiled
  <2> QED
    BY <1>3, <2>2 DEF UploadsFiled
<1>6. CASE fd = 0 /\ new = h
  <2>1. Filed(HandlesOf(W), LeaksOf(V), h)
    BY <1>2, <1>4, <1>6, FiledFetched DEF UploadsFiled
  <2> QED
    BY <1>3, <1>6, <2>1 DEF UploadsFiled
<1> QED
  BY <1>5, <1>6 DEF HandleOpened

\* A server leaves a file open.
LEMMA LeakFiled ==
  ASSUME NEW V, NEW x, NEW t, NEW W, NEW h, NEW new, NEW name, NEW fd,
         Replaced(V, x, t, W), UploadsFiled(V, h), HandleLeaked(V[x], h, t, new, name, fd)
  PROVE  UploadsFiled(W, new)
<1>1. t.handles = V[x].handles /\ t.leaked = V[x].leaked \union {name} /\ HostOpened(h, name, fd, new)
  BY DEF HandleLeaked
<1>2. LeaksOf(V) \subseteq LeaksOf(W) /\ t.leaked \subseteq LeaksOf(W)
  BY <1>1, LeaksReplaced
<1>3. \A z \in DOMAIN V : W[z].handles = V[z].handles
  BY <1>1 DEF Replaced
<1>4. DOMAIN W = DOMAIN V
  BY DEF Replaced
<1>5. DOMAIN HandlesOf(W) = DOMAIN HandlesOf(V)
  <2>1. ASSUME NEW y \in DOMAIN HandlesOf(W) PROVE y \in DOMAIN HandlesOf(V)
    BY <1>3, <1>4, HandlesAt
  <2>2. ASSUME NEW y \in DOMAIN HandlesOf(V) PROVE y \in DOMAIN HandlesOf(W)
    BY <1>3, <1>4, HandlesAt
  <2> QED
    BY <2>1, <2>2
<1>6. ASSUME NEW y \in DOMAIN HandlesOf(V) PROVE HandlesOf(W)[y] = HandlesOf(V)[y]
  <2>1. y = <<y[1], y[2]>>
    BY HandlesAt
  <2>2. HandlesOf(V)[y] = V[y[1]].handles[y[2]] /\ y[1] \in DOMAIN V
    BY <2>1, HandlesAt
  <2>3. HandlesOf(W)[y] = W[y[1]].handles[y[2]]
    BY <1>5, <2>1, HandlesAt
  <2> QED
    BY <1>3, <2>2, <2>3
<1>7. Opened(HandlesOf(V), HandlesOf(W), LeaksOf(V), LeaksOf(W), name, fd)
  BY <1>1, <1>2, <1>5, <1>6 DEF Opened
<1> QED
  BY <1>1, <1>7, FiledOpened DEF UploadsFiled

\* A request of one server, or the end of one of its handles, keeps what is filed.
LEMMA ServerFiled ==
  ASSUME NEW V, NEW x, NEW t, NEW W, NEW h, NEW new,
         Replaced(V, x, t, W), SftpOK(V[x]), SftpOK(t), UploadsFiled(V, h), SftpStep(V[x], h, t, new)
  PROVE  UploadsFiled(W, new)
<1> DEFINE s == V[x]
<1>1. CASE t.handles = s.handles /\ t.leaked = s.leaked /\ new = h
  <2>1. SameHandles(V, W)
    BY <1>1 DEF Replaced, SameHandles
  <2> QED
    BY <1>1, <2>1, SameHandlesFiled
<1>2. ASSUME NEW name, NEW fd, HandleOpened(s, h, t, new, name, fd) PROVE UploadsFiled(W, new)
  BY <1>2, OpenFiled
<1>3. ASSUME NEW name, NEW fd, HandleLeaked(s, h, t, new, name, fd) PROVE UploadsFiled(W, new)
  BY <1>3, LeakFiled
<1>4. ASSUME NEW i, HandleChanged(s, t, i)
      PROVE  /\ Changed(HandlesOf(V), HandlesOf(W), <<x, i>>)
             /\ HandlesOf(V)[<<x, i>>] = s.handles[i]
             /\ HandlesOf(W)[<<x, i>>] = t.handles[i]
             /\ LeaksOf(W) = LeaksOf(V)
  <2>1. LeaksOf(W) = LeaksOf(V)
    BY <1>4, LeaksReplaced DEF HandleChanged
  <2>2. Changed(HandlesOf(V), HandlesOf(W), <<x, i>>)
    BY <1>4, HandleReplaced
  <2>3. HandlesOf(V)[<<x, i>>] = s.handles[i] /\ HandlesOf(W)[<<x, i>>] = t.handles[i]
    BY <1>4, HandleReplaced
  <2> QED
    BY <2>1, <2>2, <2>3
<1> DEFINE H == HandlesOf(V)
           G == HandlesOf(W)
           leaks == LeaksOf(V)
<1>5. Filed(H, leaks, h)
  BY DEF UploadsFiled
<1>6. Filed(G, leaks, new) /\ LeaksOf(W) = leaks => UploadsFiled(W, new)
  BY DEF UploadsFiled
<1> HIDE DEF H, G, leaks
<1>7. ASSUME NEW i, HandleCounted(s, h, t, new, i) PROVE UploadsFiled(W, new)
  <2> DEFINE y == <<x, i>>
  <2>1. /\ Changed(H, G, y) /\ H[y] = s.handles[i] /\ G[y] = t.handles[i]
        /\ LeaksOf(W) = leaks
    BY <1>4, <1>7 DEF HandleCounted, H, G, leaks
  <2>2. G[y].state = H[y].state /\ G[y].wrote = H[y].wrote /\ new = h
    BY <1>7, <2>1 DEF HandleCounted, HandleChanged
  <2> HIDE DEF y
  <2>3. Filed(G, leaks, h)
    BY <1>5, <2>1, <2>2, FiledCounted
  <2> QED
    BY <1>6, <2>1, <2>2, <2>3
<1>8. ASSUME NEW i, HandleWritten(s, h, t, new, i) PROVE UploadsFiled(W, new)
  <2> DEFINE y == <<x, i>>
  <2>1. /\ Changed(H, G, y) /\ H[y] = s.handles[i] /\ G[y] = t.handles[i]
        /\ LeaksOf(W) = leaks
    BY <1>4, <1>8 DEF HandleWritten, H, G, leaks
  <2>2. /\ H[y].state = "open" /\ G[y].state = "open" /\ H[y].fd # 0
        /\ new = [h EXCEPT !.data[H[y].fd] = G[y].wrote]
    BY <1>8, <2>1 DEF HandleWritten, HandleChanged
  <2> HIDE DEF y
  <2>3. Filed(G, leaks, [h EXCEPT !.data[H[y].fd] = G[y].wrote])
    BY <1>5, <2>1, <2>2, FiledWritten
  <2> QED
    BY <1>6, <2>1, <2>2, <2>3
<1>9. ASSUME NEW i, HandleClosed(s, h, t, new, i) PROVE UploadsFiled(W, new)
  <2> DEFINE y == <<x, i>>
  <2>1. /\ Changed(H, G, y) /\ H[y] = s.handles[i] /\ G[y] = t.handles[i]
        /\ LeaksOf(W) = leaks
    BY <1>4, <1>9 DEF HandleClosed, H, G, leaks
  <2>2. /\ H[y].state = "open" /\ G[y].state # "open" /\ G[y].wrote = H[y].wrote
        /\ \/ new = h /\ (H[y].fd = 0 \/ H[y].name \notin DOMAIN h.names)
           \/ new = Moved(h, H[y].name) /\ H[y].fd # 0 /\ H[y].name \in DOMAIN h.names
    BY <1>9, <2>1 DEF HandleClosed, HandleChanged
  <2> HIDE DEF y
  <2>3. CASE new = h /\ (H[y].fd = 0 \/ H[y].name \notin DOMAIN h.names)
    <3>1. Filed(G, leaks, h)
      BY <1>5, <2>1, <2>2, <2>3, FiledLeft
    <3> QED
      BY <1>6, <2>1, <2>3, <3>1
  <2>4. CASE new = Moved(h, H[y].name) /\ H[y].fd # 0 /\ H[y].name \in DOMAIN h.names
    <3>1. Filed(G, leaks, Moved(h, H[y].name))
      BY <1>5, <2>1, <2>2, <2>4, FiledMoved
    <3> QED
      BY <1>6, <2>1, <2>4, <3>1
  <2> QED
    BY <2>2, <2>3, <2>4
<1> QED
  BY <1>1, <1>2, <1>3, <1>7, <1>8, <1>9 DEF SftpStep

\* V with another server
WithServer(V, x, t) == [V EXCEPT ![x] = t]

\* A server replaced
LEMMA ServerReplaced ==
  ASSUME NEW V, NEW x \in DOMAIN V, NEW s, NEW t, V = [z \in DOMAIN V |-> V[z]]
  PROVE  /\ Replaced(WithServer(V, x, s), x, t, WithServer(V, x, t))
         /\ WithServer(V, x, s)[x] = s
         /\ WithServer(V, x, V[x]) = V
         /\ Replaced(V, x, t, WithServer(V, x, t))
  BY DEF WithServer, Replaced

\* connectionLost of a server closes what is open, one after the other.
LEMMA CloseAllFiled ==
  ASSUME NEW V, NEW x \in DOMAIN V, NEW h, NEW r \in CloseAll(V[x], h), V = [z \in DOMAIN V |-> V[z]],
         SftpOK(V[x]), UploadsFiled(V, h)
  PROVE  UploadsFiled(WithServer(V, x, r.s), r.host)
<1> DEFINE s == V[x]
           n == Len(s.handles)
<1>1. n \in Nat
  BY ListedShape DEF SftpOK
<1>2. PICK upto : /\ upto[0] = {[s |-> s, host |-> h, err |-> "", uploads |-> 0]}
                  /\ \A k \in 1 .. n : upto[k] = {CloseNext(acc, k) : acc \in upto[k - 1]}
                  /\ CloseAll(s, h) = upto[n]
  BY CloseAllSteps DEF SftpOK
<1> DEFINE Good(acc) == /\ SftpOK(acc.s) /\ acc.uploads \in Nat /\ Len(acc.s.handles) = n
                        /\ UploadsFiled(WithServer(V, x, acc.s), acc.host)
           S == {k \in 0 .. n : \A acc \in upto[k] : Good(acc)}
<1>3. 0 \in S
  <2> DEFINE first == [s |-> s, host |-> h, err |-> "", uploads |-> 0]
  <2>1. WithServer(V, x, s) = V
    BY ServerReplaced
  <2>2. Good(first)
    BY <2>1
  <2> HIDE DEF first, Good
  <2>3. upto[0] = {first}
    BY <1>2 DEF first
  <2> QED
    BY <1>1, <2>2, <2>3
<1>4. ASSUME NEW k \in 1 .. n, k - 1 \in S PROVE k \in S
  <2>1. ASSUME NEW more \in upto[k] PROVE Good(more)
    <3>1. PICK acc \in upto[k - 1] : more = CloseNext(acc, k)
      BY <1>2, <2>1
    <3>2. Good(acc)
      BY <1>4, <3>1
    <3>3. /\ SftpOK(more.s) /\ more.uploads \in Nat /\ Len(more.s.handles) = n
          /\ SftpStep(acc.s, acc.host, more.s, more.host)
      BY <3>1, <3>2, CloseNextStep
    <3> DEFINE A == WithServer(V, x, acc.s)
               B == WithServer(V, x, more.s)
    <3>4. Replaced(A, x, more.s, B)
      BY ServerReplaced
    <3>5. A[x] = acc.s
      BY ServerReplaced
    <3>6. UploadsFiled(A, acc.host) /\ SftpOK(acc.s)
      BY <3>2
    <3> HIDE DEF A, B
    <3>7. UploadsFiled(B, more.host)
      BY <3>3, <3>4, <3>5, <3>6, ServerFiled
    <3> QED
      BY <3>3, <3>7 DEF B
  <2> QED
    BY <1>1, <2>1
<1>5. n \in S
  <2> HIDE DEF S, n
  <2>1. 0 .. n \subseteq S
    BY <1>1, <1>3, <1>4, InductTo
  <2> QED
    BY <1>1, <2>1
<1> QED
  BY <1>2, <1>5

-----------------------------------------------------------------------------
(* The servers of the channels chs of all connections                      *)

\* The SFTP servers of all channels
View(chs) == [x \in UNION {{c} \X DOMAIN chs[c] : c \in Conns} |-> chs[x[1]][x[2]].sftp]

\* Where a server is found
LEMMA ViewAt ==
  ASSUME NEW chs
  PROVE  /\ View(chs) = [x \in DOMAIN View(chs) |-> View(chs)[x]]
         /\ \A c, k : <<c, k>> \in DOMAIN View(chs) <=> c \in Conns /\ k \in DOMAIN chs[c]
         /\ \A c, k : <<c, k>> \in DOMAIN View(chs) => View(chs)[<<c, k>>] = chs[c][k].sftp
         /\ \A x \in DOMAIN View(chs) : x = <<x[1], x[2]>>
<1>1. DOMAIN View(chs) = UNION {{c} \X DOMAIN chs[c] : c \in Conns}
  BY DEF View
<1>2. \A x \in DOMAIN View(chs) : View(chs)[x] = chs[x[1]][x[2]].sftp
  BY DEF View
<1>3. \A c, k : <<c, k>> \in DOMAIN View(chs) <=> c \in Conns /\ k \in DOMAIN chs[c]
  BY <1>1
<1>4. \A x \in DOMAIN View(chs) : x = <<x[1], x[2]>>
  BY <1>1
<1>5. \A c, k : <<c, k>>[1] = c /\ <<c, k>>[2] = k
  OBVIOUS
<1>6. View(chs) = [x \in DOMAIN View(chs) |-> View(chs)[x]]
  BY DEF View
<1> QED
  BY <1>2, <1>3, <1>4, <1>5, <1>6

\* One channel is another.
WithChannel(chs, new, c, k) ==
  /\ c \in Conns /\ k \in DOMAIN chs[c] /\ DOMAIN new[c] = DOMAIN chs[c]
  /\ \A d \in Conns \ {c} : new[d] = chs[d]
  /\ \A j \in DOMAIN chs[c] : j # k => new[c][j] = chs[c][j]

\* A channel replaced is a server replaced.
LEMMA ViewReplaced ==
  ASSUME NEW chs, NEW new, NEW c, NEW k, WithChannel(chs, new, c, k)
  PROVE  /\ Replaced(View(chs), <<c, k>>, new[c][k].sftp, View(new))
         /\ View(chs)[<<c, k>>] = chs[c][k].sftp
<1>1. \A d \in Conns : DOMAIN new[d] = DOMAIN chs[d]
  BY DEF WithChannel
<1>2. ASSUME NEW x \in DOMAIN View(chs), x # <<c, k>> PROVE x \in DOMAIN View(new) /\ View(new)[x] = View(chs)[x]
  <2>1. x = <<x[1], x[2]>>
    BY ViewAt
  <2>2. x[1] \in Conns /\ x[2] \in DOMAIN chs[x[1]] /\ View(chs)[x] = chs[x[1]][x[2]].sftp
    BY <2>1, ViewAt
  <2>3. x \in DOMAIN View(new) /\ View(new)[x] = new[x[1]][x[2]].sftp
    BY <1>1, <2>1, <2>2, ViewAt
  <2>4. new[x[1]][x[2]] = chs[x[1]][x[2]]
    BY <1>2, <2>1, <2>2 DEF WithChannel
  <2> QED
    BY <2>2, <2>3, <2>4
<1>3. ASSUME NEW x \in DOMAIN View(new) PROVE x \in DOMAIN View(chs)
  <2>1. x = <<x[1], x[2]>>
    BY ViewAt
  <2> QED
    BY <1>1, <2>1, ViewAt
<1>4. <<c, k>> \in DOMAIN View(chs) /\ <<c, k>> \in DOMAIN View(new)
  BY ViewAt DEF WithChannel
<1>5. View(chs)[<<c, k>>] = chs[c][k].sftp /\ View(new)[<<c, k>>] = new[c][k].sftp
  BY <1>4, ViewAt
<1> QED
  BY <1>2, <1>3, <1>4, <1>5 DEF Replaced

\* A channel is closed: what its server has open is closed.
LEMMA ClosedFiled ==
  ASSUME NEW chs, NEW new, NEW c, NEW k, NEW ch, NEW h, NEW r \in ChannelClosed(ch, h),
         WithChannel(chs, new, c, k), new[c][k] = r.channel, ch.sftp = chs[c][k].sftp,
         DOMAIN ch = ChannelFields, SftpOK(ch.sftp), UploadsFiled(View(chs), h)
  PROVE  UploadsFiled(View(new), r.host)
<1> DEFINE gone == [ch EXCEPT !.there = FALSE]
           V == View(chs)
           x == <<c, k>>
<1>1. DOMAIN gone = ChannelFields /\ gone.sftp = ch.sftp
  BY DEF ChannelFields
<1>2. Replaced(V, x, r.channel.sftp, View(new))
  BY ViewReplaced
<1>3. V[x] = ch.sftp
  BY ViewReplaced
<1>4. V = [z \in DOMAIN V |-> V[z]]
  BY ViewAt
<1> HIDE DEF V, x
<1>5. CASE r.channel.sftp = ch.sftp /\ r.host = h
  <2>1. SameHandles(V, View(new))
    BY <1>2, <1>3, <1>5 DEF Replaced, SameHandles
  <2> QED
    BY <1>5, <2>1, SameHandlesFiled DEF V
<1>6. CASE ch.runs = "terminal"
  <2> DEFINE log == LogClosed(Last(ch.logs))
             lost == [gone EXCEPT !.logs[Len(ch.logs)] = log.log]
  <2>1. r \in {[channel |-> lost, events |-> log.events, host |-> h]}
    BY <1>6 DEF ChannelClosed
  <2> HIDE DEF log, gone
  <2>2. lost.sftp = gone.sftp
    BY <1>1 DEF ChannelFields
  <2> HIDE DEF lost
  <2>3. r.channel = lost /\ r.host = h
    BY <2>1
  <2> QED
    BY <1>1, <1>5, <2>2, <2>3
<1>7. CASE ch.runs = "sftp"
  <2>1. ChannelClosed(ch, h) =
          {[channel |-> [gone EXCEPT !.sftp = y.s], host |-> y.host,
            events |-> [n \in 1 .. y.uploads |-> "file_upload"]] : y \in CloseAll(ch.sftp, h)}
    BY <1>7 DEF ChannelClosed
  <2>2. PICK y \in CloseAll(ch.sftp, h) :
          r = [channel |-> [gone EXCEPT !.sftp = y.s], host |-> y.host,
               events |-> [n \in 1 .. y.uploads |-> "file_upload"]]
    BY <2>1
  <2> HIDE DEF gone
  <2>3. r.channel.sftp = y.s /\ r.host = y.host
    BY <1>1, <2>2 DEF ChannelFields
  <2>4. x \in DOMAIN V
    BY <1>2 DEF Replaced
  <2> DEFINE W == WithServer(V, x, y.s)
  <2>5. UploadsFiled(W, y.host)
    BY <1>3, <1>4, <2>2, <2>4, CloseAllFiled DEF V
  <2>6. Replaced(V, x, y.s, W)
    BY <1>4, <2>4, ServerReplaced
  <2> HIDE DEF W
  <2>7. SameHandles(W, View(new))
    BY <1>2, <2>3, <2>6 DEF Replaced, SameHandles
  <2> QED
    BY <2>3, <2>5, <2>7, SameHandlesFiled
<1>8. CASE ch.runs \notin {"terminal", "sftp"}
  <2>1. ChannelClosed(ch, h) = {[channel |-> gone, events |-> << >>, host |-> h]}
    BY <1>8 DEF ChannelClosed
  <2> HIDE DEF gone
  <2>2. r.channel = gone /\ r.host = h
    BY <2>1
  <2> QED
    BY <1>1, <1>5, <2>2
<1> QED
  BY <1>6, <1>7, <1>8

\* The channels of c are chs.
With(c, chs) == [channels EXCEPT ![c] = chs]

\* The channels after the first k are as they were.
RestSame(old, new, k) ==
  /\ Listed(new) /\ Len(new) = Len(old)
  /\ \A j \in 1 .. Len(old) : j > k => new[j] = old[j]

\* connectionLost closes one more channel.
LEMMA ClosedNextFiled ==
  ASSUME NEW c \in Conns, NEW k \in 1 .. Len(channels[c]), NEW acc, NEW more \in ClosedNext(c, acc, k),
         channels = [d \in Conns |-> channels[d]], Listed(channels[c]), ChannelOK(mode.ttylog, channels[c][k]),
         RestSame(channels[c], acc.channels, k - 1), UploadsFiled(View(With(c, acc.channels)), acc.host)
  PROVE  RestSame(channels[c], more.channels, k) /\ UploadsFiled(View(With(c, more.channels)), more.host)
<1> DEFINE chs == channels[c]
           ch == chs[k]
<1>1. Len(chs) \in Nat /\ Listed(acc.channels) /\ Len(acc.channels) = Len(chs)
  BY ListedShape DEF RestSame
<1>2. DOMAIN acc.channels = 1 .. Len(chs) /\ acc.channels[k] = ch
  BY <1>1, ListedShape DEF RestSame
<1>3. CASE ch.there = TRUE
  <2>1. PICK x \in ChannelClosed(ch, acc.host) :
          more = [channels |-> [acc.channels EXCEPT ![k] = x.channel], host |-> x.host,
                  events |-> acc.events \o x.events]
    BY <1>3 DEF ClosedNext
  <2>2. more.channels = [acc.channels EXCEPT ![k] = x.channel] /\ more.host = x.host
    BY <2>1
  <2>0. Listed(acc.channels) /\ k \in 1 .. Len(acc.channels)
    BY <1>1
  <2>3. /\ Listed(more.channels) /\ Len(more.channels) = Len(acc.channels)
        /\ more.channels[k] = x.channel
        /\ \A j \in 1 .. Len(acc.channels) : j # k => more.channels[j] = acc.channels[j]
    <3> DEFINE s == acc.channels
               e == x.channel
    <3>1. Listed(s) /\ k \in 1 .. Len(s) /\ more.channels = [s EXCEPT ![k] = e]
      BY <2>0, <2>2
    <3> HIDE DEF s, e
    <3>2. Listed([s EXCEPT ![k] = e]) /\ Len([s EXCEPT ![k] = e]) = Len(s) /\ [s EXCEPT ![k] = e][k] = e
          /\ \A j \in 1 .. Len(s) : j # k => [s EXCEPT ![k] = e][j] = s[j]
      BY <3>1, ListedReplaced
    <3> QED
      BY <3>1, <3>2 DEF s, e
  <2>4. RestSame(chs, more.channels, k)
    <3>1. \A j \in 1 .. Len(chs) : j > k => j > k - 1 /\ j # k
      BY <1>1
    <3> QED
      BY <1>1, <2>3, <3>1 DEF RestSame
  <2> DEFINE old == With(c, acc.channels)
             new == With(c, more.channels)
  <2>5. old[c] = acc.channels /\ new[c] = more.channels /\ \A d \in Conns \ {c} : new[d] = old[d]
    BY DEF With
  <2> HIDE DEF old, new
  <2>6. DOMAIN more.channels = DOMAIN acc.channels
    BY <1>1, <2>3, ListedShape
  <2>7. WithChannel(old, new, c, k)
    BY <1>1, <1>2, <2>3, <2>5, <2>6 DEF WithChannel
  <2>8. new[c][k] = x.channel /\ old[c][k].sftp = ch.sftp
    BY <1>2, <2>3, <2>5
  <2>9. DOMAIN ch = ChannelFields /\ SftpOK(ch.sftp)
    BY DEF ChannelOK
  <2>10. UploadsFiled(View(old), acc.host)
    BY DEF old
  <2> HIDE DEF ch
  <2>11. UploadsFiled(View(new), x.host)
    BY <2>1, <2>7, <2>8, <2>9, <2>10, ClosedFiled
  <2> QED
    BY <2>2, <2>4, <2>11 DEF new
<1>4. CASE ch.there = FALSE
  <2>1. more = acc
    BY <1>4 DEF ClosedNext
  <2>2. \A j \in 1 .. Len(chs) : j > k => j > k - 1
    BY <1>1
  <2> QED
    BY <1>1, <2>1, <2>2 DEF RestSame
<1> QED
  BY <1>3, <1>4 DEF ChannelOK

\* serviceStopped
LEMMA AllClosedFiled ==
  ASSUME NEW c \in Conns, NEW r \in AllClosed(c), channels = [d \in Conns |-> channels[d]], Listed(channels[c]),
         \A k \in 1 .. Len(channels[c]) : ChannelOK(mode.ttylog, channels[c][k]),
         UploadsFiled(View(channels), host)
  PROVE  UploadsFiled(View(With(c, r.channels)), r.host)
<1> DEFINE chs == channels[c]
           n == Len(chs)
           Good(acc, k) == RestSame(chs, acc.channels, k) /\ UploadsFiled(View(With(c, acc.channels)), acc.host)
<1>1. PICK upto : /\ upto[0] = {[channels |-> channels[c], host |-> host, events |-> << >>]}
                  /\ \A k \in 1 .. n : upto[k] = UNION {ClosedNext(c, acc, k) : acc \in upto[k - 1]}
                  /\ AllClosed(c) = upto[n]
  BY AllClosedSteps
<1> DEFINE S == {k \in 0 .. n : \A acc \in upto[k] : Good(acc, k)}
<1>2. n \in Nat
  BY ListedShape
<1>3. 0 \in S
  <2> DEFINE first == [channels |-> channels[c], host |-> host, events |-> << >>]
  <2>1. With(c, chs) = channels
    BY DEF With
  <2>2. Good(first, 0)
    BY <2>1 DEF RestSame
  <2> HIDE DEF first, Good
  <2>3. upto[0] = {first}
    BY <1>1 DEF first
  <2> QED
    BY <1>2, <2>2, <2>3
<1>4. ASSUME NEW k \in 1 .. n, k - 1 \in S PROVE k \in S
  <2>1. ASSUME NEW more \in upto[k] PROVE Good(more, k)
    <3>1. PICK acc \in upto[k - 1] : more \in ClosedNext(c, acc, k)
      BY <1>1, <2>1
    <3>2. Good(acc, k - 1)
      BY <1>4, <3>1
    <3>3. ChannelOK(mode.ttylog, channels[c][k])
      OBVIOUS
    <3> QED
      BY <3>1, <3>2, <3>3, ClosedNextFiled
  <2> QED
    BY <1>2, <2>1
<1>5. n \in S
  <2> HIDE DEF S, n
  <2>1. 0 .. n \subseteq S
    BY <1>2, <1>3, <1>4, InductTo
  <2> QED
    BY <1>2, <2>1
<1> QED
  BY <1>1, <1>5

-----------------------------------------------------------------------------
(* The invariant of the uploads.                                           *)

\* What the uploads of all sessions left on the host
Stored == UploadsFiled(View(channels), host)

\* A channel that becomes another
LEMMA BecomesWith ==
  ASSUME NEW c \in Conns, NEW k, NEW ch, Typed, k \in DOMAIN channels[c],
         channels' = [channels EXCEPT ![c][k] = ch]
  PROVE  WithChannel(channels, channels', c, k) /\ channels'[c][k] = ch
<1> DEFINE chs == channels[c]
           new == [chs EXCEPT ![k] = ch]
<1>1. ConnOK(c) /\ channels = [d \in Conns |-> channels[d]]
  BY DEF Typed
<1>2. Listed(chs)
  BY <1>1 DEF ConnOK, Connection
<1>3. k \in 1 .. Len(chs)
  BY <1>2, ListedShape
<1>4. /\ Listed(new) /\ Len(new) = Len(chs) /\ new[k] = ch
      /\ \A j \in 1 .. Len(chs) : j # k => new[j] = chs[j]
  BY <1>2, <1>3, ListedReplaced
<1>5. DOMAIN new = DOMAIN chs /\ DOMAIN chs = 1 .. Len(chs)
  <2> HIDE DEF new
  <2> QED
    BY <1>2, <1>4, ListedShape
<1>6. channels' = [channels EXCEPT ![c] = new]
  OBVIOUS
<1> HIDE DEF new
<1>7. channels'[c] = new /\ \A d \in Conns \ {c} : channels'[d] = channels[d]
  BY <1>1, <1>6
<1> QED
  BY <1>4, <1>5, <1>7 DEF WithChannel

\* A channel is another, its server is not.
LEMMA BecomesStored ==
  ASSUME NEW c \in Conns, NEW k, NEW ch, Typed, Stored, k \in DOMAIN channels[c],
         channels' = [channels EXCEPT ![c][k] = ch], host' = host,
         ch.sftp.handles = channels[c][k].sftp.handles, ch.sftp.leaked = channels[c][k].sftp.leaked
  PROVE  Stored'
<1>1. WithChannel(channels, channels', c, k)
  BY BecomesWith
<1>2. channels'[c][k] = ch
  BY BecomesWith
<1> DEFINE V == View(channels)
           W == View(channels')
           x == <<c, k>>
<1>3. Replaced(V, x, ch.sftp, W)
  BY <1>1, <1>2, ViewReplaced
<1>4. V[x] = channels[c][k].sftp
  BY <1>1, ViewReplaced
<1>5. UploadsFiled(V, host)
  BY DEF Stored
<1> HIDE DEF V, W, x
<1>6. SameHandles(V, W)
  BY <1>3, <1>4 DEF Replaced, SameHandles
<1>7. UploadsFiled(W, host)
  BY <1>5, <1>6, SameHandlesFiled
<1> QED
  BY <1>7 DEF Stored, W

\* A connection has channels it had not before, which run no SFTP yet.
MoreChannels(old, new, c) ==
  /\ c \in Conns /\ \A d \in Conns \ {c} : new[d] = old[d]
  /\ DOMAIN old[c] \subseteq DOMAIN new[c]
  /\ \A k \in DOMAIN old[c] : new[c][k] = old[c][k]
  /\ \A k \in DOMAIN new[c] \ DOMAIN old[c] : SftpIdle(new[c][k].sftp)

\* New channels have no handles.
LEMMA MoreServers ==
  ASSUME NEW old, NEW new, NEW c, MoreChannels(old, new, c)
  PROVE  SameHandles(View(old), View(new))
<1> DEFINE V == View(old)
           W == View(new)
<1>1. ASSUME NEW x \in DOMAIN V PROVE x \in DOMAIN W /\ W[x] = V[x]
  <2>1. x = <<x[1], x[2]>>
    BY ViewAt
  <2>2. x[1] \in Conns /\ x[2] \in DOMAIN old[x[1]] /\ V[x] = old[x[1]][x[2]].sftp
    BY <2>1, ViewAt
  <2>3. x[2] \in DOMAIN new[x[1]] /\ new[x[1]][x[2]] = old[x[1]][x[2]]
    BY <2>2 DEF MoreChannels
  <2>4. x \in DOMAIN W
    BY <2>1, <2>2, <2>3, ViewAt
  <2>5. W[x] = new[x[1]][x[2]].sftp
    BY <2>1, <2>4, ViewAt
  <2> QED
    BY <2>2, <2>3, <2>4, <2>5
<1>2. ASSUME NEW x \in DOMAIN W, x \notin DOMAIN V PROVE SftpIdle(W[x])
  <2>1. x = <<x[1], x[2]>>
    BY ViewAt
  <2>2. x[1] \in Conns /\ x[2] \in DOMAIN new[x[1]] /\ W[x] = new[x[1]][x[2]].sftp
    BY <2>1, ViewAt
  <2>3. x[2] \notin DOMAIN old[x[1]]
    BY <1>2, <2>1, <2>2, ViewAt
  <2>4. x[1] = c
    BY <2>2, <2>3 DEF MoreChannels
  <2> QED
    BY <2>2, <2>3, <2>4 DEF MoreChannels
<1> QED
  BY <1>1, <1>2 DEF SameHandles, SftpIdle

\* New channels
LEMMA MoreStored ==
  ASSUME NEW c, Stored, MoreChannels(channels, channels', c), host' = host
  PROVE  Stored'
<1> DEFINE V == View(channels)
           W == View(channels')
<1>1. UploadsFiled(V, host) /\ SameHandles(V, W)
  BY MoreServers DEF Stored
<1> HIDE DEF V, W
<1>2. UploadsFiled(W, host)
  BY <1>1, SameHandlesFiled
<1> QED
  BY <1>2 DEF Stored, W

\* CHANNEL_OPEN
LEMMA ChannelOpenStored ==
  ASSUME NEW c \in Conns, Typed, Stored, ChannelOpen(c)
  PROVE  Stored'
<1> DEFINE e == Channel(Msg(c).kind)
           chs == Append(channels[c], e)
<1>1. channels' = [channels EXCEPT ![c] = chs] /\ host' = host
  BY DEF ChannelOpen, files
<1>2. SftpIdle(e.sftp)
  BY SftpFresh DEF Channel
<1>3. ConnOK(c)
  BY DEF Typed
<1>4. Listed(channels[c])
  BY <1>3 DEF ConnOK, Connection
<1> HIDE DEF e
<1>5. /\ Listed(chs) /\ Len(chs) = Len(channels[c]) + 1
      /\ \A i \in 1 .. Len(channels[c]) : chs[i] = channels[c][i]
      /\ chs[Len(channels[c]) + 1] = e
  BY <1>4, ListedAppend
<1> HIDE DEF chs
<1>6. DOMAIN channels[c] = 1 .. Len(channels[c]) /\ DOMAIN chs = 1 .. Len(chs) /\ Len(channels[c]) \in Nat
  BY <1>4, <1>5, ListedShape
<1>7. \A k \in DOMAIN chs \ DOMAIN channels[c] : k = Len(channels[c]) + 1
  BY <1>5, <1>6
<1>8. DOMAIN channels[c] \subseteq DOMAIN chs
  BY <1>5, <1>6
<1>9. \A k \in DOMAIN chs \ DOMAIN channels[c] : SftpIdle(chs[k].sftp)
  BY <1>2, <1>5, <1>7
<1>10. channels'[c] = chs /\ \A d \in Conns \ {c} : channels'[d] = channels[d]
  BY <1>1 DEF Typed
<1>11. MoreChannels(channels, channels', c)
  BY <1>5, <1>6, <1>8, <1>9, <1>10 DEF MoreChannels
<1> QED
  BY <1>1, <1>11, MoreStored

\* A telnet session keeps no files for anyone to fetch.
LEMMA SessionStored ==
  ASSUME NEW c \in Conns, NEW ch, NEW in, Typed, Stored, channels[c] = << >>, host' = host,
         channels' = [channels EXCEPT ![c] = IF in THEN << ch >> ELSE channels[c]], SftpIdle(ch.sftp)
  PROVE  Stored'
<1>1. DOMAIN << >> = {}
  BY ListedEmpty
<1>2. channels'[c] = (IF in THEN << ch >> ELSE channels[c]) /\ \A d \in Conns \ {c} : channels'[d] = channels[d]
  BY DEF Typed
<1>3. CASE in
  <2>1. Listed(<< ch >>) /\ Len(<< ch >>) = 1 /\ << ch >>[1] = ch
    BY ListedSingle
  <2>2. DOMAIN << ch >> = 1 .. 1
    BY <2>1, ListedShape
  <2> DEFINE chs == << ch >>
  <2>3. \A k \in DOMAIN chs : SftpIdle(chs[k].sftp)
    BY <2>1, <2>2
  <2>4. channels'[c] = chs
    BY <1>2, <1>3
  <2> HIDE DEF chs
  <2>5. DOMAIN channels[c] = {}
    BY <1>1
  <2>6. MoreChannels(channels, channels', c)
    BY <1>2, <2>3, <2>4, <2>5 DEF MoreChannels
  <2> QED
    BY <2>6, MoreStored
<1>4. CASE ~in
  <2>1. MoreChannels(channels, channels', c)
    BY <1>2, <1>4 DEF MoreChannels
  <2> QED
    BY <2>1, MoreStored
<1> QED
  BY <1>3, <1>4

\* A request of SFTP
LEMMA SftpStored ==
  ASSUME NEW c \in Conns, Typed, Stored, Sftp(c)
  PROVE  Stored'
<1> DEFINE k == Msg(c).ch
           s == Mine(c).sftp
<1>1. OnChannel(c, {"sftp"})
  BY DEF Sftp
<1>2. k \in DOMAIN channels[c] /\ ChannelOK(mode.ttylog, Mine(c))
  BY <1>1, MineOK
<1>3. PICK r \in {Request(s, host, Msg(c), second')} :
        channels' = [channels EXCEPT ![c][k] = [Mine(c) EXCEPT !.sftp = r.s]] /\ host' = r.host
  BY DEF Sftp, Becomes
<1> DEFINE ch == [Mine(c) EXCEPT !.sftp = r.s]
           V == View(channels)
           W == View(channels')
           x == <<c, k>>
<1>4. ch.sftp = r.s
  BY <1>2 DEF ChannelOK, ChannelFields
<1>5. SftpOK(s)
  BY <1>2 DEF ChannelOK
<1>6. SftpOK(r.s)
  BY <1>5, RequestStep
<1>7. SftpStep(s, host, r.s, r.host)
  BY <1>5, RequestStep
<1> HIDE DEF ch
<1>8. channels' = [channels EXCEPT ![c][k] = ch]
  BY <1>3 DEF ch
<1>9. WithChannel(channels, channels', c, k)
  BY <1>2, <1>8, BecomesWith
<1>10. channels'[c][k] = ch
  BY <1>2, <1>8, BecomesWith
<1>11. Replaced(V, x, r.s, W)
  BY <1>4, <1>9, <1>10, ViewReplaced
<1>12. V[x] = s
  <2>1. View(channels)[<<c, k>>] = channels[c][k].sftp
    BY <1>9, ViewReplaced
  <2> QED
    BY <2>1 DEF Mine
<1>13. UploadsFiled(V, host)
  BY DEF Stored
<1> HIDE DEF V, W, x, s
<1>14. UploadsFiled(W, r.host)
  BY <1>5, <1>6, <1>7, <1>11, <1>12, <1>13, ServerFiled
<1> QED
  BY <1>3, <1>14 DEF Stored, W

\* A message for a channel which leaves its server alone
LEMMA MineStored ==
  ASSUME NEW c \in Conns, NEW ops, NEW ch, Typed, Stored, OnChannel(c, ops), Becomes(c, ch), host' = host,
         ch.sftp = Mine(c).sftp
  PROVE  Stored'
<1>1. Msg(c).ch \in DOMAIN channels[c]
  BY MineOK
<1>2. /\ channels' = [channels EXCEPT ![c][Msg(c).ch] = ch]
      /\ ch.sftp.handles = channels[c][Msg(c).ch].sftp.handles
      /\ ch.sftp.leaked = channels[c][Msg(c).ch].sftp.leaked
  BY DEF Becomes, Mine
<1> QED
  BY <1>1, <1>2, BecomesStored

\* Neither channels nor the host change.
LEMMA QuietStored ==
  ASSUME Stored, UNCHANGED << channels, host >>
  PROVE  Stored'
  BY DEF Stored

\* A protocol started keeps the server.
LEMMA StartedSame ==
  ASSUME NEW ch, NEW log, NEW raised, DOMAIN ch = ChannelFields
  PROVE  DOMAIN Started(ch, log, raised) = ChannelFields /\ Started(ch, log, raised).sftp = ch.sftp
<1> DEFINE old == [i \in DOMAIN ch.logs |-> [ch.logs[i] EXCEPT !.replaced = TRUE]]
           logs == Append(old, log)
           data == IF raised THEN ch.client ELSE Len(ch.logs) + 1
           new == [ch EXCEPT !.runs = "terminal", !.logs = logs, !.client = data]
<1>1. Started(ch, log, raised) = new
  BY DEF Started
<1> HIDE DEF logs, data
<1>2. DOMAIN new = ChannelFields /\ new.sftp = ch.sftp
  BY DEF ChannelFields
<1> QED
  BY <1>1, <1>2

\* So does a channel that is lost.
LEMMA LostSame ==
  ASSUME NEW ch, DOMAIN ch = ChannelFields
  PROVE  LoseChannel(ch).sftp = ch.sftp
  BY DEF LoseChannel, ChannelFields

\* A command started keeps it too.
LEMMA ExecSame ==
  ASSUME NEW ch, NEW line, NEW new \in ExecStarted(ch, line), DOMAIN ch = ChannelFields
  PROVE  new.sftp = ch.sftp
<1> DEFINE log == [TerminalLog(TRUE, line \in Fetching \ Garbled) EXCEPT !.timer = line \notin Garbled]
           started == Started(ch, log, line \in Garbled \/ ~mode.ttylog)
<1>1. new \in {started, LoseChannel(started)}
  BY DEF ExecStarted
<1> HIDE DEF log
<1>2. DOMAIN started = ChannelFields /\ started.sftp = ch.sftp
  BY StartedSame
<1> HIDE DEF started
<1> QED
  BY <1>1, <1>2, LostSame

\* CHANNEL_REQUEST
LEMMA ChannelRequestStored ==
  ASSUME NEW c \in Conns, Typed, Stored, ChannelRequest(c)
  PROVE  Stored'
<1> DEFINE sftp == [Mine(c) EXCEPT !.runs = "sftp", !.sftp = [NoSftp EXCEPT !.tree = Tree]]
           begun == {ShellStarted(Mine(c))} \union ExecStarted(Mine(c), Msg(c).word)
<1>1. OnChannel(c, {"request"}) /\ host' = host
  BY DEF ChannelRequest, files
<1>2. ChannelOK(mode.ttylog, Mine(c)) /\ Msg(c).ch \in DOMAIN channels[c]
  BY <1>1, MineOK
<1>3. DOMAIN Mine(c) = ChannelFields
  BY <1>2 DEF ChannelOK
<1>4. \/ \E new \in begun : Becomes(c, new)
      \/ Mine(c).runs = "nothing" /\ Becomes(c, sftp)
      \/ UNCHANGED channels
  BY DEF ChannelRequest
<1>5. ASSUME NEW new \in begun, Becomes(c, new) PROVE Stored'
  <2>1. ShellStarted(Mine(c)).sftp = Mine(c).sftp
    BY <1>3, StartedSame DEF ShellStarted
  <2>2. new.sftp = Mine(c).sftp
    BY <1>3, <1>5, <2>1, ExecSame
  <2> QED
    BY <1>1, <1>5, <2>2, MineStored
<1>6. CASE Mine(c).runs = "nothing" /\ Becomes(c, sftp)
  <2>1. SftpIdle(Mine(c).sftp)
    BY <1>2, <1>6 DEF ChannelOK
  <2>2. sftp.sftp = [NoSftp EXCEPT !.tree = Tree]
    BY <1>3 DEF ChannelFields
  <2>3. SftpIdle(sftp.sftp)
    BY <2>2, SftpFresh
  <2>4. channels' = [channels EXCEPT ![c][Msg(c).ch] = sftp]
    BY <1>6 DEF Becomes
  <2> HIDE DEF sftp
  <2>5. /\ sftp.sftp.handles = channels[c][Msg(c).ch].sftp.handles
        /\ sftp.sftp.leaked = channels[c][Msg(c).ch].sftp.leaked
    BY <2>1, <2>3 DEF SftpIdle, Mine
  <2> QED
    BY <1>1, <1>2, <2>4, <2>5, BecomesStored
<1>7. CASE UNCHANGED channels
  BY <1>1, <1>7, QuietStored
<1> HIDE DEF begun
<1> QED
  BY <1>4, <1>5, <1>6, <1>7

\* What eofReceived leaves of a channel has the server it had.
LEMMA EofSame ==
  ASSUME NEW ch, NEW new \in EofReceived(ch) \union {ch, LoseChannel(ch)}, NEW ttylog, ChannelOK(ttylog, ch)
  PROVE  new.sftp = ch.sftp
<1>1. new = LoseChannel(ch) \/ new = ch
  <2>1. ch.runs \in {"terminal", "nothing", "sftp"}
    BY DEF ChannelOK
  <2> QED
    BY <2>1 DEF EofReceived, ProtocolEof
<1>2. LoseChannel(ch).sftp = ch.sftp
  BY ChannelLost
<1> QED
  BY <1>1, <1>2

\* CHANNEL_DATA
LEMMA ChannelDataStored ==
  ASSUME NEW c \in Conns, Typed, Stored, ChannelData(c)
  PROVE  Stored'
<1> DEFINE ch == Mine(c)
           written == [ch EXCEPT !.logs[ch.client].stdin = "written"]
           waits == [ch EXCEPT !.logs[ch.client].fetch = TRUE]
<1>1. OnChannel(c, {"data"}) /\ host' = host
  BY DEF ChannelData, files
<1>2. ChannelOK(mode.ttylog, ch)
  BY <1>1, MineOK
<1>3. (\E new \in {ch, LoseChannel(ch), written, waits} : Becomes(c, new)) \/ UNCHANGED channels
  <2>1. CASE ch.kind = "direct-tcpip"
    BY <2>1 DEF ChannelData
  <2>2. CASE ch.kind # "direct-tcpip" /\ ch.client # 0
    <3>1. ProtocolData(c, ch, ch.client)
      BY <2>2 DEF ChannelData
    <3> HIDE DEF ch
    <3> QED
      BY <3>1 DEF ProtocolData, ProtocolEof
  <2>3. CASE ch.kind # "direct-tcpip" /\ ~ (ch.client # 0)
    BY <2>3 DEF ChannelData
  <2> QED
    BY <2>1, <2>2, <2>3
<1>4. ASSUME NEW new \in {ch, LoseChannel(ch), written, waits}, Becomes(c, new) PROVE Stored'
  <2>1. LoseChannel(ch).sftp = ch.sftp
    BY <1>2, ChannelLost
  <2>2. written.sftp = ch.sftp /\ waits.sftp = ch.sftp
    BY <1>2 DEF ChannelOK, ChannelFields
  <2>3. new.sftp = ch.sftp
    <3> HIDE DEF ch, written, waits
    <3> QED
      BY <1>4, <2>1, <2>2
  <2> QED
    BY <1>1, <1>4, <2>3, MineStored
<1>5. CASE UNCHANGED channels
  BY <1>1, <1>5, QuietStored
<1> HIDE DEF ch, written, waits
<1> QED
  BY <1>3, <1>4, <1>5

\* CHANNEL_EOF
LEMMA ChannelEofStored ==
  ASSUME NEW c \in Conns, Typed, Stored, ChannelEof(c)
  PROVE  Stored'
<1>1. OnChannel(c, {"eof"}) /\ host' = host
  BY DEF ChannelEof, files
<1>2. ChannelOK(mode.ttylog, Mine(c))
  BY <1>1, MineOK
<1>3. PICK new \in EofReceived(Mine(c)) \union {Mine(c), LoseChannel(Mine(c))} : Becomes(c, new)
  BY DEF ChannelEof
<1>4. new.sftp = Mine(c).sftp
  BY <1>2, EofSame
<1> QED
  BY <1>1, <1>3, <1>4, MineStored

\* A channel is closed.
LEMMA ChannelCloseStored ==
  ASSUME NEW c \in Conns, Typed, Stored, ChannelClose(c)
  PROVE  Stored'
<1> DEFINE k == Msg(c).ch
           ch == LoseChannel(Mine(c))
<1>1. OnChannel(c, {"close"})
  BY DEF ChannelClose
<1>2. ChannelOK(mode.ttylog, Mine(c)) /\ k \in DOMAIN channels[c]
  BY <1>1, MineOK
<1>3. PICK r \in ChannelClosed(ch, host) : Becomes(c, r.channel) /\ host' = r.host
  BY DEF ChannelClose
<1>4. ChannelOK(mode.ttylog, ch)
  BY <1>2, ChannelLost
<1>5. ch.sftp = Mine(c).sftp
  BY <1>2, ChannelLost
<1> HIDE DEF ch
<1>6. DOMAIN ch = ChannelFields /\ SftpOK(ch.sftp)
  BY <1>4 DEF ChannelOK
<1>7. channels' = [channels EXCEPT ![c][k] = r.channel]
  BY <1>3 DEF Becomes
<1>8. WithChannel(channels, channels', c, k)
  BY <1>2, <1>7, BecomesWith
<1>9. channels'[c][k] = r.channel
  BY <1>2, <1>7, BecomesWith
<1>10. ch.sftp = channels[c][k].sftp
  BY <1>5 DEF Mine
<1>11. UploadsFiled(View(channels), host)
  BY DEF Stored
<1> HIDE DEF k
<1>12. UploadsFiled(View(channels'), r.host)
  BY <1>3, <1>6, <1>8, <1>9, <1>10, <1>11, ClosedFiled
<1> QED
  BY <1>3, <1>12 DEF Stored

\* The timer of a shell
LEMMA ShellTimeoutStored ==
  ASSUME NEW c \in Conns, Typed, Stored, ShellTimeout(c)
  PROVE  Stored'
<1>1. PICK k \in DOMAIN channels[c] : \E i \in DOMAIN channels[c][k].logs :
        LET ch == [channels[c][k] EXCEPT !.logs[i].timer = FALSE]
        IN channels' = [channels EXCEPT ![c][k] = IF ch.there THEN LoseChannel(ch) ELSE ch]
  BY DEF ShellTimeout
<1>2. PICK i \in DOMAIN channels[c][k].logs :
        LET ch == [channels[c][k] EXCEPT !.logs[i].timer = FALSE]
        IN channels' = [channels EXCEPT ![c][k] = IF ch.there THEN LoseChannel(ch) ELSE ch]
  BY <1>1
<1> DEFINE old == channels[c][k]
           ch == [old EXCEPT !.logs[i].timer = FALSE]
           new == IF ch.there THEN LoseChannel(ch) ELSE ch
<1>3. host' = host
  BY DEF ShellTimeout, files
<1>4. ConnOK(c)
  BY DEF Typed
<1>5. ChannelOK(mode.ttylog, old)
  BY <1>4, ListedShape DEF ConnOK, Connection
<1>6. DOMAIN ch = ChannelFields /\ ch.sftp = old.sftp
  BY <1>5 DEF ChannelOK, ChannelFields
<1>7. channels' = [channels EXCEPT ![c][k] = new]
  BY <1>2
<1> HIDE DEF ch, old
<1>8. LoseChannel(ch).sftp = ch.sftp
  BY <1>6 DEF LoseChannel, ChannelFields
<1>9. new.sftp.handles = channels[c][k].sftp.handles /\ new.sftp.leaked = channels[c][k].sftp.leaked
  BY <1>6, <1>8 DEF old
<1> HIDE DEF new
<1> QED
  BY <1>3, <1>7, <1>9, BecomesStored

\* The channels that are left are closed.
LEMMA LosesConnectionStored ==
  ASSUME NEW c \in Conns, Typed, Stored, LosesConnection(c)
  PROVE  Stored'
<1>1. PICK r \in AllClosed(c) : channels' = [channels EXCEPT ![c] = r.channels] /\ host' = r.host
  BY DEF LosesConnection
<1>2. ConnOK(c) /\ channels = [d \in Conns |-> channels[d]]
  BY DEF Typed
<1>3. Listed(channels[c]) /\ \A k \in 1 .. Len(channels[c]) : ChannelOK(mode.ttylog, channels[c][k])
  BY <1>2 DEF ConnOK, Connection
<1>4. UploadsFiled(View(channels), host)
  BY DEF Stored
<1>5. UploadsFiled(View(With(c, r.channels)), r.host)
  BY <1>2, <1>3, <1>4, AllClosedFiled
<1>6. With(c, r.channels) = channels'
  BY <1>1 DEF With
<1> QED
  BY <1>1, <1>5, <1>6 DEF Stored

\* A telnet client's session, also one that is lost at once, has no files.
LEMMA SessionIdle ==
  ASSUME mode.ttylog \in BOOLEAN
  PROVE  /\ SftpIdle(TelnetSession.sftp)
         /\ \A r \in ChannelClosed(TelnetSession, host) : SftpIdle(r.channel.sftp)
<1> DEFINE ch == Channel("telnet")
           begun == Started(ch, TerminalLog(FALSE, FALSE), FALSE)
           s == TelnetSession
           gone == [s EXCEPT !.there = FALSE]
           log == LogClosed(Last(s.logs))
           lost == [gone EXCEPT !.logs[Len(s.logs)] = log.log]
<1>1. DOMAIN ch = ChannelFields /\ ch.sftp = NoSftp
  BY DEF Channel, ChannelFields
<1>2. TelnetSession = begun
  BY DEF TelnetSession, ShellStarted
<1>3. ChannelOK(mode.ttylog, TelnetSession)
  BY TelnetSessionOK
<1> HIDE DEF ch
<1>4. begun.sftp = NoSftp
  BY <1>1, StartedSame
<1>5. SftpIdle(s.sftp)
  BY <1>2, <1>4, SftpFresh
<1>6. s.runs = "terminal"
  <2>1. begun.runs = "terminal"
    BY <1>1 DEF Started, ChannelFields
  <2> QED
    BY <1>2, <2>1
<1>7. DOMAIN s = ChannelFields
  BY <1>3 DEF ChannelOK
<1>8. ChannelClosed(s, host) = {[channel |-> lost, events |-> log.events, host |-> host]}
  BY <1>6 DEF ChannelClosed
<1> HIDE DEF s, log
<1>9. lost.sftp = s.sftp
  BY <1>7 DEF ChannelFields
<1> HIDE DEF lost
<1>10. \A r \in ChannelClosed(s, host) : r.channel = lost
  BY <1>8
<1> QED
  BY <1>5, <1>9, <1>10 DEF s

\* connectionLost of a client that is not in yet
LEMMA LosesWaitingStored ==
  ASSUME NEW c \in Conns, Typed, Stored, LosesWaiting(c)
  PROVE  Stored'
<1>1. plan[c].proto = "telnet" /\ pending[c] # << >> /\ host' = host
  BY DEF LosesWaiting, files
<1>2. PICK l \in TelnetLogins(c), r \in ChannelClosed(TelnetSession, host) :
        channels' = [channels EXCEPT ![c] = IF l.in THEN << r.channel >> ELSE channels[c]]
  BY DEF LosesWaiting
<1>3. ConnOK(c) /\ mode.ttylog \in BOOLEAN
  BY DEF Typed
<1>4. channels[c] = << >>
  BY <1>1, <1>3 DEF ConnOK, Connection
<1>5. SftpIdle(r.channel.sftp)
  BY <1>3, SessionIdle
<1> QED
  BY <1>1, <1>2, <1>4, <1>5, SessionStored

\* A login makes the session of a telnet client, never of one that has a session.
LEMMA LoginStored ==
  ASSUME NEW c \in Conns, Typed, Stored, Login(c), stage[c] \in {"Password", "Discard"}
  PROVE  Stored'
<1>1. PICK l \in TelnetLogins(c) :
        channels' = [channels EXCEPT ![c] = IF l.in THEN << TelnetSession >> ELSE channels[c]]
  BY DEF Login
<1>2. ConnOK(c) /\ mode.ttylog \in BOOLEAN
  BY DEF Typed
<1>3. channels[c] = << >>
  BY <1>2 DEF ConnOK, Connection
<1>4. host' = host
  BY DEF Login, files
<1>5. SftpIdle(TelnetSession.sftp)
  BY <1>2, SessionIdle
<1> QED
  BY <1>1, <1>3, <1>4, <1>5, SessionStored

\* A log whose command waits for a download, or no more
LEMMA FetchSame ==
  ASSUME NEW ch, NEW i, NEW v, DOMAIN ch = ChannelFields
  PROVE  /\ DOMAIN [ch EXCEPT !.logs[i].fetch = v] = ChannelFields
         /\ [ch EXCEPT !.logs[i].fetch = v].sftp = ch.sftp
  BY DEF ChannelFields

\* A channel of a connection
LEMMA ChannelAt ==
  ASSUME NEW c \in Conns, NEW k \in DOMAIN channels[c], Typed
  PROVE  DOMAIN channels[c][k] = ChannelFields
<1>1. ConnOK(c)
  BY DEF Typed
<1> QED
  BY <1>1, ListedShape DEF ConnOK, Connection, ChannelOK

\* The end of a download
LEMMA DownloadedStored ==
  ASSUME NEW c \in Conns, Typed, Stored, Downloaded(c)
  PROVE  Stored'
<1> DEFINE Next1(k, i) == [channels[c][k] EXCEPT !.logs[i].fetch = FALSE]
           EndsAt(k, i) == \E new \in {Next1(k, i), LoseChannel(Next1(k, i))} :
                             channels' = [channels EXCEPT ![c][k] = new]
<1>1. PICK k \in DOMAIN channels[c] : \E i \in DOMAIN channels[c][k].logs : EndsAt(k, i)
  BY DEF Downloaded
<1>2. PICK i \in DOMAIN channels[c][k].logs : EndsAt(k, i)
  BY <1>1
<1> DEFINE old == channels[c][k]
           next == Next1(k, i)
<1>3. PICK new \in {next, LoseChannel(next)} : channels' = [channels EXCEPT ![c][k] = new]
  BY <1>2
<1>4. host' = host
  BY DEF Downloaded, files
<1>5. DOMAIN old = ChannelFields
  BY ChannelAt
<1>6. DOMAIN next = ChannelFields /\ next.sftp = old.sftp
  <2> HIDE DEF old
  <2> QED
    BY <1>5, FetchSame DEF old
<1>7. new.sftp = old.sftp
  <2> HIDE DEF old, next
  <2> QED
    BY <1>3, <1>6, LostSame
<1>8. new.sftp.handles = channels[c][k].sftp.handles /\ new.sftp.leaked = channels[c][k].sftp.leaked
  BY <1>7
<1> HIDE DEF Next1
<1> QED
  BY <1>3, <1>4, <1>8, BecomesStored

\* A line of a telnet client that starts one
LEMMA FetchStored ==
  ASSUME NEW c \in Conns, Typed, Stored, host' = host,
         channels' = channels \/ channels' = [channels EXCEPT ![c][1].logs[1].fetch = TRUE]
  PROVE  Stored'
<1> DEFINE new == [channels[c][1] EXCEPT !.logs[1].fetch = TRUE]
<1>1. CASE channels' = channels
  BY <1>1, QuietStored
<1>2. CASE channels' # channels
  <2>1. channels' = [channels EXCEPT ![c][1] = new]
    BY <1>2
  <2>2. 1 \in DOMAIN channels[c]
    <3>1. SUFFICES ASSUME 1 \notin DOMAIN channels[c] PROVE channels' = channels
      BY <1>2
    <3>2. channels[c] = [j \in DOMAIN channels[c] |-> channels[c][j]]
      BY DEF Typed, ConnOK, Connection, Listed
    <3> HIDE DEF new
    <3>3. [channels[c] EXCEPT ![1] = new] = channels[c]
      BY <3>1, <3>2
    <3> QED
      BY <2>1, <3>3 DEF Typed
  <2>3. DOMAIN channels[c][1] = ChannelFields
    BY <2>2, ChannelAt
  <2>4. new.sftp = channels[c][1].sftp
    <3> DEFINE ch == channels[c][1]
    <3> SUFFICES [ch EXCEPT !.logs[1].fetch = TRUE].sftp = ch.sftp
      OBVIOUS
    <3>1. DOMAIN ch = ChannelFields
      BY <2>3
    <3> HIDE DEF ch
    <3> QED
      BY <3>1, FetchSame
  <2>5. new.sftp.handles = channels[c][1].sftp.handles /\ new.sftp.leaked = channels[c][1].sftp.leaked
    BY <2>4
  <2> HIDE DEF new
  <2> QED
    BY <2>1, <2>2, <2>5, BecomesStored
<1> QED
  BY <1>1, <1>2

\* Whatever a telnet client sends
LEMMA TelnetStored ==
  ASSUME NEW c \in Conns, Typed, Stored, TelnetMessage(c)
  PROVE  Stored'
<1>1. CASE UNCHANGED << channels, host >>
  BY <1>1, QuietStored
<1>2. CASE TelnetPassword(c) /\ ~UNCHANGED << channels, host >>
  <2>1. Login(c) /\ stage[c] = "Password"
    BY <1>2 DEF TelnetPassword, files
  <2> QED
    BY <2>1, LoginStored
<1>3. CASE TelnetAck(c) /\ ~UNCHANGED << channels, host >>
  <2>1. Login(c) /\ pending[c] # << >> /\ plan[c].proto = "telnet"
    BY <1>3 DEF TelnetAck, files
  <2>2. ConnOK(c)
    BY DEF Typed
  <2>3. stage[c] = "Discard"
    BY <2>1, <2>2 DEF ConnOK, Connection
  <2> QED
    BY <2>1, <2>3, LoginStored
<1>4. TelnetUser(c) \/ TelnetDiscard(c) => UNCHANGED << channels, host >>
  BY DEF TelnetUser, TelnetDiscard, files
<1>5. CASE TelnetLine(c) /\ ~UNCHANGED << channels, host >>
  BY <1>5, FetchStored DEF TelnetLine, files
<1> QED
  BY <1>1, <1>2, <1>3, <1>4, <1>5 DEF TelnetMessage

\* Before the connection service there are no channels to change.
LEMMA SshStored ==
  ASSUME NEW c \in Conns, Typed, Stored, SshMessage(c)
  PROVE  Stored'
<1>1. Version(c) \/ KexInit(c) \/ AuthNone(c) \/ AuthPublicKey(c) => UNCHANGED << channels, host >>
  BY DEF Version, KexInit, AuthNone, AuthPublicKey, files
<1>2. AuthPassword(c) \/ AuthKeyboard(c) \/ AuthInfo(c) => UNCHANGED << channels, host >>
  BY DEF AuthPassword, AuthKeyboard, AuthInfo, files
<1>3. Unimplemented(c) \/ NoSuchChannel(c) => UNCHANGED << channels, host >>
  BY DEF Unimplemented, NoSuchChannel, files
<1> QED
  BY <1>1, <1>2, <1>3, QuietStored, ChannelOpenStored, ChannelRequestStored, ChannelDataStored,
     ChannelEofStored, ChannelCloseStored, SftpStored DEF SshMessage

\* Nothing is uploaded before anyone is there.
LEMMA StoredInit == Init => Stored
<1> SUFFICES ASSUME Init PROVE Stored
  OBVIOUS
<1>1. channels = [c \in Conns |-> << >>] /\ host = [names |-> << >>, data |-> << >>]
  BY DEF Init, NoHost
<1>2. Listed(<< >>) /\ DOMAIN << >> = {} /\ Len(<< >>) = 0
  BY ListedEmpty
<1>3. \A c, k : <<c, k>> \notin DOMAIN View(channels)
  BY <1>1, <1>2, ViewAt
<1> DEFINE V == View(channels)
<1>v. \A x \in DOMAIN V : x = << x[1], x[2] >>
  BY ViewAt
<1>4. DOMAIN V = {}
  BY <1>3, <1>v
<1> HIDE DEF V
<1>5. DOMAIN HandlesOf(V) = {}
  <2>1. DOMAIN HandlesOf(V) = UNION {{x} \X DOMAIN V[x].handles : x \in DOMAIN V}
    BY DEF HandlesOf
  <2> QED
    BY <1>4, <2>1
<1>6. HostOK(host)
  BY <1>1, <1>2 DEF HostOK
<1>7. DOMAIN host.names = {}
  BY <1>1, <1>2
<1> QED
  BY <1>5, <1>6, <1>7 DEF V, Stored, UploadsFiled, Filed, HandlesOK, AllKept, HashesKept

\* Every step keeps what was uploaded.
LEMMA StoredNext == Typed /\ Stored /\ [Next]_vars => Stored'
<1> SUFFICES ASSUME Typed, Stored, [Next]_vars PROVE Stored'
  OBVIOUS
<1>1. CASE UNCHANGED vars
  BY <1>1, QuietStored DEF vars, files
<1>2. ASSUME NEW c \in Conns, ConnectionMade(c) \/ TransportTimeout(c) PROVE Stored'
  BY <1>2, QuietStored DEF ConnectionMade, TransportTimeout, files
<1>3. ASSUME NEW c \in Conns, SshMessage(c) PROVE Stored'
  BY <1>3, SshStored
<1>4. ASSUME NEW c \in Conns, TelnetMessage(c) PROVE Stored'
  BY <1>4, TelnetStored
<1>5. ASSUME NEW c \in Conns, ShellTimeout(c) PROVE Stored'
  BY <1>5, ShellTimeoutStored
<1>6. ASSUME NEW c \in Conns, HangUp(c) \/ Lost(c) PROVE Stored'
  BY <1>6, LosesConnectionStored, LosesWaitingStored DEF HangUp, Lost
<1>7. CASE QueryRuns \/ AnswerArrives
  BY <1>7, QuietStored DEF QueryRuns, AnswerArrives, files
<1>8. ASSUME NEW c \in Conns, Undecodable(c) PROVE Stored'
  BY <1>8, QuietStored DEF Undecodable, files
<1>9. ASSUME NEW c \in Conns, Downloaded(c) PROVE Stored'
  BY <1>9, DownloadedStored
<1> QED
  BY <1>1, <1>2, <1>3, <1>4, <1>5, <1>6, <1>7, <1>8, <1>9 DEF Next

\* What is stored is kept: the names of UploadsKept are those of the view.
LEMMA StoredKept == Stored => UploadsKept
<1> SUFFICES ASSUME Stored PROVE UploadsKept
  OBVIOUS
<1> DEFINE servers == UNION {{c} \X DOMAIN channels[c] : c \in Conns}
           server(x) == channels[x[1]][x[2]].sftp
           handles == UNION {{x} \X DOMAIN server(x).handles : x \in servers}
           at(x) == server(x[1]).handles[x[2]]
           alone(fd) ==
             \A x \in handles : at(x).fd = fd =>
               /\ \A y \in handles : at(y).name = at(x).name => x = y
               /\ \A y \in servers : at(x).name \notin server(y).leaked
           V == View(channels)
           H == HandlesOf(V)
           leaks == LeaksOf(V)
<1>1. DOMAIN V = servers /\ \A x \in servers : V[x] = server(x)
  BY DEF View
<1>2. DOMAIN H = handles /\ \A y \in handles : H[y] = at(y)
  <2> HIDE DEF V
  <2>1. DOMAIN H = UNION {{x} \X DOMAIN V[x].handles : x \in DOMAIN V}
    BY DEF HandlesOf
  <2>2. \A y \in DOMAIN H : H[y] = V[y[1]].handles[y[2]]
    BY DEF HandlesOf
  <2> HIDE DEF H, servers, server
  <2>3. DOMAIN H = handles
    BY <1>1, <2>1
  <2>4. \A y \in handles : y[1] \in servers
    OBVIOUS
  <2> QED
    BY <1>1, <2>2, <2>3, <2>4
<1>3. ASSUME NEW n, \A y \in servers : n \notin server(y).leaked PROVE n \notin leaks
  <2> HIDE DEF V, servers, server
  <2> QED
    BY <1>1, <1>3 DEF LeaksOf
<1>4. Filed(H, leaks, host)
  BY DEF Stored, UploadsFiled
<1> HIDE DEF V, H, leaks, servers, server, handles, at
<1>5. ASSUME NEW fd, alone(fd) PROVE Sole(H, leaks, fd)
  BY <1>2, <1>3, <1>5 DEF Sole
<1>6. ASSUME NEW x \in handles, at(x).state # "open", at(x).wrote # "", alone(at(x).fd)
      PROVE  /\ Sha(at(x).wrote) \in DOMAIN host.names
             /\ alone(host.names[Sha(at(x).wrote)]) => Contents(host, Sha(at(x).wrote)) = at(x).wrote
  <2> DEFINE sha == Sha(at(x).wrote)
  <2>1. H[x] = at(x) /\ x \in DOMAIN H
    BY <1>2
  <2>2. HandleOK(H[x], host)
    BY <1>4, <2>1 DEF Filed, HandlesOK
  <2>3. H[x].fd # 0
    BY <1>6, <2>1, <2>2 DEF HandleOK
  <2>4. Sole(H, leaks, H[x].fd)
    BY <1>5, <1>6, <2>1
  <2>5. FileKept(H[x], host)
    BY <1>4, <2>1, <2>3, <2>4 DEF Filed, AllKept
  <2>6. sha \in DOMAIN host.names
    BY <1>6, <2>1, <2>5 DEF FileKept
  <2>7. ASSUME alone(host.names[sha]) PROVE host.data[host.names[sha]] = at(x).wrote
    <3>1. Sole(H, leaks, host.names[sha])
      BY <1>5, <2>7
    <3> QED
      BY <1>4, <2>6, <3>1 DEF Filed, HashesKept
  <2> QED
    BY <2>6, <2>7 DEF Contents
<1> QED
  BY <1>6 DEF UploadsKept, servers, server, handles, at

\* filetransfer.py: what was uploaded is on the host under its checksum once its handle is
\* closed, whatever the other sessions upload, remove and close, unless another upload of
\* the same path had the same second.
THEOREM UploadsStay == Spec => []UploadsKept
<1>1. Init => Stored
  BY StoredInit
<1>2. Typed /\ Stored /\ [Next]_vars => Stored'
  BY StoredNext
<1>3. Stored => UploadsKept
  BY StoredKept
<1>4. Spec => []Typed
  BY TypedInductive, PTL
<1> QED
  BY <1>1, <1>2, <1>3, <1>4, PTL DEF Spec
=============================================================================
