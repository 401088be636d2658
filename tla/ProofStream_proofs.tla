------------------------- MODULE ProofStream_proofs -------------------------
(***************************************************************************)
(* Theorems about the portal's proof feed, for any number of tabs,         *)
(* sessions, traces and restarts.                                          *)
(***************************************************************************)
EXTENDS ProofStream, FiniteSetTheorems, SequenceTheorems, WellFoundedInduction, TLAPS

-----------------------------------------------------------------------------
(* Induction, over sets of numbers *)

\* A set of numbers that has an element has a least one.
LEMMA Least ==
    ASSUME NEW T \in SUBSET Nat, T # {}
    PROVE  \E n \in T : n \in Nat /\ \A m \in T : n <= m
<1>1. PICK n \in T : \A m \in T : <<m, n>> \notin OpToRel(<, Nat)
  BY NatLessThanWellFounded, WFMin
<1>2. \A m \in T : ~(m < n)
  BY <1>1 DEF OpToRel
<1>3. n \in Nat /\ \A m \in T : m \in Nat /\ n <= m
  BY <1>2
<1>. QED BY <1>3

\* A set that has 0, and with each number below `last` the next, has all of them.
LEMMA Inductive ==
    ASSUME NEW last \in Nat, NEW G,
           0 \in G, \A n \in 0 .. last : n # last /\ n \in G => n + 1 \in G
    PROVE  \A n \in 0 .. last : n \in G
<1> DEFINE Bad == (0 .. last) \ G
<1> SUFFICES ASSUME Bad # {} PROVE FALSE
  OBVIOUS
<1>0. Bad \in SUBSET Nat
  OBVIOUS
<1>1. PICK n \in Bad : n \in Nat /\ \A m \in Bad : n <= m
  <2> HIDE DEF Bad
  <2>. QED BY <1>0, Least
<1>2. n # 0 /\ n \in 0 .. last /\ n \notin G
  BY <1>1
<1>3. n - 1 \in 0 .. last /\ n - 1 # last /\ n - 1 \notin Bad
  BY <1>1, <1>2
<1>. QED BY <1>2, <1>3

\* What a sequence has behind its first n elements.
LEMMA Behind ==
    ASSUME NEW S, NEW s \in Seq(S), NEW n \in 0 .. Len(s)
    PROVE  /\ SubSeq(s, n + 1, Len(s)) \in Seq(S)
           /\ Len(SubSeq(s, n + 1, Len(s))) = Len(s) - n
           /\ DOMAIN SubSeq(s, n + 1, Len(s)) = 1 .. Len(s) - n
           /\ \A i \in 1 .. Len(s) - n : SubSeq(s, n + 1, Len(s))[i] = s[i + n]
<1>1. Len(s) \in Nat
  OBVIOUS
<1>. QED BY <1>1

-----------------------------------------------------------------------------
(* What a page makes of the traces it is sent *)

DistinctIds(s) == \A i, j \in DOMAIN s : i # j => s[i].id # s[j].id

Ordered(s) == \A i, j \in DOMAIN s : i < j => s[i].eval < s[j].eval

\* r is s, or s with more behind it.
Grown(s, r) == Len(s) <= Len(r) /\ \A i \in DOMAIN s : r[i] = s[i]

\* One trace is applied: it is there, alone with its id, and no other trace gives
\* way but the one of its id.
LEMMA AppliedOne ==
    ASSUME NEW shown \in Seq(Trace), NEW x \in Trace
    PROVE  /\ Applied(shown, x) \in Seq(Trace)
           /\ x \in ToSet(Applied(shown, x))
           /\ ToSet(Applied(shown, x)) \subseteq ToSet(shown) \cup {x}
           /\ \A y \in ToSet(shown) :
                 (y.id = x.id => y = x) => y \in ToSet(Applied(shown, x))
           /\ DistinctIds(shown) => DistinctIds(Applied(shown, x))
           /\ (\A y \in ToSet(shown) : y.id = x.id => y = x) =>
                 \/ Applied(shown, x) = shown
                 \/ Applied(shown, x) = Append(shown, x) /\ x \notin ToSet(shown)
<1> DEFINE now == Applied(shown, x)
<1>1. CASE \E i \in DOMAIN shown : shown[i].id = x.id
  <2>1. now = [i \in DOMAIN shown |-> IF shown[i].id = x.id THEN x ELSE shown[i]]
    BY <1>1 DEF Applied
  <2>2. now \in Seq(Trace) /\ DOMAIN now = DOMAIN shown
    BY <2>1
  <2>3. \A i \in DOMAIN now : now[i] \in {x, shown[i]} /\ now[i].id = shown[i].id
    BY <2>1
  <2>4. x \in ToSet(now)
    BY <1>1, <2>1, <2>2 DEF ToSet
  <2>5. \A y \in ToSet(shown) : (y.id = x.id => y = x) => y \in ToSet(now)
    BY <2>1, <2>2 DEF ToSet
  <2>6. (\A y \in ToSet(shown) : y.id = x.id => y = x) => now = shown
    <3> SUFFICES ASSUME \A y \in ToSet(shown) : y.id = x.id => y = x
                 PROVE  now = shown
      OBVIOUS
    <3>1. \A i \in DOMAIN shown : now[i] = shown[i]
      BY <2>1 DEF ToSet
    <3>. QED BY <2>1, <2>2, <3>1
  <2>7. ToSet(now) \subseteq ToSet(shown) \cup {x}
    BY <2>2, <2>3 DEF ToSet
  <2>8. DistinctIds(shown) => DistinctIds(now)
    BY <2>2, <2>3 DEF DistinctIds
  <2> HIDE DEF now
  <2>. QED BY <2>2, <2>4, <2>5, <2>6, <2>7, <2>8 DEF now
<1>2. CASE ~\E i \in DOMAIN shown : shown[i].id = x.id
  <2>1. now = Append(shown, x)
    BY <1>2 DEF Applied
  <2>2. /\ now \in Seq(Trace) /\ Len(now) = Len(shown) + 1
        /\ DOMAIN now = 1 .. Len(shown) + 1 /\ DOMAIN shown = 1 .. Len(shown)
        /\ now[Len(shown) + 1] = x
        /\ \A i \in DOMAIN shown : now[i] = shown[i]
    BY <2>1
  <2>3. x \in ToSet(now) /\ ToSet(shown) \subseteq ToSet(now)
    BY <2>2 DEF ToSet
  <2>4. ToSet(now) \subseteq ToSet(shown) \cup {x}
    BY <2>2 DEF ToSet
  <2>5. DistinctIds(shown) => DistinctIds(now)
    BY <1>2, <2>2 DEF DistinctIds
  <2>6. x \notin ToSet(shown)
    BY <1>2 DEF ToSet
  <2>. QED BY <2>1, <2>2, <2>3, <2>4, <2>5, <2>6
<1>. QED BY <1>1, <1>2

\* When no other trace has its id, a trace is added, if it is not there.
LEMMA AppliedAgreed ==
    ASSUME NEW shown \in Seq(Trace), NEW x \in Trace,
           \A y \in ToSet(shown) : y.id = x.id => y = x
    PROVE  /\ \/ Applied(shown, x) = shown
              \/ Applied(shown, x) = Append(shown, x) /\ x \notin ToSet(shown)
           /\ ToSet(shown) \subseteq ToSet(Applied(shown, x))
BY AppliedOne

\* f[n] is the page after the first n of the traces.
AppliedBy(f, n, shown, traces) ==
    f = [i \in 0 .. n |-> IF i = 0 THEN shown ELSE Applied(f[i - 1], traces[i])]

LEMMA AppliedByExists ==
    ASSUME NEW shown, NEW traces, NEW k \in Nat
    PROVE  \E f : AppliedBy(f, k, shown, traces)
<1> DEFINE G == {n \in Nat : \E f : AppliedBy(f, n, shown, traces)}
<1>1. 0 \in G
  <2> DEFINE f == [i \in 0 .. 0 |-> shown]
  <2>1. AppliedBy(f, 0, shown, traces)
    BY DEF AppliedBy
  <2>. QED BY <2>1
<1>2. ASSUME NEW n \in 0 .. k, n # k, n \in G
      PROVE  n + 1 \in G
  <2>1. n \in Nat
    OBVIOUS
  <2>2. PICK f : AppliedBy(f, n, shown, traces)
    BY <1>2
  <2>3. \A j \in 0 .. n : f[j] = IF j = 0 THEN shown ELSE Applied(f[j - 1], traces[j])
    BY <2>2 DEF AppliedBy
  <2> DEFINE g == [i \in 0 .. n + 1 |->
                      IF i = n + 1 THEN Applied(f[n], traces[n + 1]) ELSE f[i]]
  <2>4. AppliedBy(g, n + 1, shown, traces)
    <3> SUFFICES ASSUME NEW i \in 0 .. n + 1
                 PROVE  g[i] = IF i = 0 THEN shown ELSE Applied(g[i - 1], traces[i])
      BY DEF AppliedBy
    <3>. QED BY <2>1, <2>3
  <2>. QED BY <2>1, <2>4
<1> HIDE DEF G
<1>3. \A n \in 0 .. k : n \in G
  BY <1>1, <1>2, Inductive
<1>. QED BY <1>3 DEF G

\* The traces are applied one after another.
LEMMA AllAppliedStepwise ==
    ASSUME NEW shown \in Seq(Trace), NEW traces \in Seq(Trace)
    PROVE  \E f : /\ f[0] = shown /\ f[Len(traces)] = AllApplied(shown, traces)
                  /\ \A n \in 0 .. Len(traces) :
                        n # Len(traces) => f[n + 1] = Applied(f[n], traces[n + 1])
<1> DEFINE f == CHOOSE g : AppliedBy(g, Len(traces), shown, traces)
<1>1. AppliedBy(f, Len(traces), shown, traces)
  <2>1. Len(traces) \in Nat
    OBVIOUS
  <2>2. \E g : AppliedBy(g, Len(traces), shown, traces)
    BY <2>1, AppliedByExists
  <2>. QED BY <2>2
<1>2. AllApplied(shown, traces) = f[Len(traces)]
  BY DEF AllApplied, AppliedBy
<1> HIDE DEF f
<1>3. f[0] = shown
  BY <1>1 DEF AppliedBy
<1>4. \A n \in 0 .. Len(traces) :
         n # Len(traces) => f[n + 1] = Applied(f[n], traces[n + 1])
  BY <1>1 DEF AppliedBy
<1>. QED BY <1>2, <1>3, <1>4

\* What becomes of traces that are sent to a page, when equal ids mean equal traces.
Agree(shown, traces) ==
    \A x \in ToSet(traces), y \in ToSet(shown) \cup ToSet(traces) : x.id = y.id => x = y

\* Whatever is sent: the page has its own traces and those that were sent, one for
\* each id, and what was sent with an id of its own is there.
LEMMA AllAppliedFacts ==
    ASSUME NEW shown \in Seq(Trace), NEW traces \in Seq(Trace)
    PROVE  /\ AllApplied(shown, traces) \in Seq(Trace)
           /\ ToSet(AllApplied(shown, traces)) \subseteq ToSet(shown) \cup ToSet(traces)
           /\ DistinctIds(shown) => DistinctIds(AllApplied(shown, traces))
<1>1. PICK f : /\ f[0] = shown /\ f[Len(traces)] = AllApplied(shown, traces)
               /\ \A n \in 0 .. Len(traces) :
                     n # Len(traces) => f[n + 1] = Applied(f[n], traces[n + 1])
  BY AllAppliedStepwise
<1> DEFINE G == {n \in 0 .. Len(traces) :
                    /\ f[n] \in Seq(Trace)
                    /\ ToSet(f[n]) \subseteq ToSet(shown) \cup ToSet(traces)
                    /\ DistinctIds(shown) => DistinctIds(f[n])}
<1>2. Len(traces) \in Nat
  OBVIOUS
<1>3. 0 \in G
  BY <1>1, <1>2
<1>4. ASSUME NEW n \in 0 .. Len(traces), n # Len(traces), n \in G
      PROVE  n + 1 \in G
  <2> DEFINE x == traces[n + 1]
             now == f[n]
  <2>0. now \in Seq(Trace)
    BY <1>4
  <2>1. n + 1 \in 0 .. Len(traces) /\ f[n + 1] = Applied(now, x)
    BY <1>1, <1>2, <1>4
  <2>2. x \in Trace /\ x \in ToSet(traces)
    BY <1>2, <1>4 DEF ToSet
  <2>3. /\ f[n + 1] \in Seq(Trace)
        /\ ToSet(f[n + 1]) \subseteq ToSet(now) \cup {x}
        /\ DistinctIds(now) => DistinctIds(f[n + 1])
    <3> HIDE DEF x, now
    <3>1. /\ Applied(now, x) \in Seq(Trace)
          /\ ToSet(Applied(now, x)) \subseteq ToSet(now) \cup {x}
          /\ DistinctIds(now) => DistinctIds(Applied(now, x))
      BY <2>0, <2>2, AppliedOne
    <3>. QED BY <2>1, <3>1
  <2>. QED BY <1>4, <2>1, <2>2, <2>3
<1> HIDE DEF G
<1>5. \A n \in 0 .. Len(traces) : n \in G
  BY <1>2, <1>3, <1>4, Inductive
<1>6. Len(traces) \in G
  BY <1>2, <1>5
<1>. QED BY <1>1, <1>6 DEF G

\* What a page shows stays on it, and what is sent comes to be on it, unless a
\* trace with its id replaces it.
LEMMA AllAppliedKeeps ==
    ASSUME NEW shown \in Seq(Trace), NEW traces \in Seq(Trace),
           NEW y \in ToSet(shown) \cup ToSet(traces),
           \A x \in ToSet(traces) : x.id = y.id => x = y
    PROVE  y \in ToSet(AllApplied(shown, traces))
<1>1. PICK f : /\ f[0] = shown /\ f[Len(traces)] = AllApplied(shown, traces)
               /\ \A n \in 0 .. Len(traces) :
                     n # Len(traces) => f[n + 1] = Applied(f[n], traces[n + 1])
  BY AllAppliedStepwise
<1> DEFINE Sent(n) == \E i \in 1 .. n : traces[i] = y
           G == {n \in 0 .. Len(traces) :
                    /\ f[n] \in Seq(Trace)
                    /\ (y \in ToSet(shown) \/ Sent(n)) => y \in ToSet(f[n])}
<1>2. Len(traces) \in Nat
  OBVIOUS
<1>3. 0 \in G
  BY <1>1, <1>2
<1>4. ASSUME NEW n \in 0 .. Len(traces), n # Len(traces), n \in G
      PROVE  n + 1 \in G
  <2> DEFINE x == traces[n + 1]
             now == f[n]
  <2>0. now \in Seq(Trace)
    BY <1>4
  <2>1. n + 1 \in 0 .. Len(traces) /\ f[n + 1] = Applied(now, x)
    BY <1>1, <1>2, <1>4
  <2>2. x \in Trace /\ x \in ToSet(traces)
    BY <1>2, <1>4 DEF ToSet
  <2>3. /\ f[n + 1] \in Seq(Trace)
        /\ x \in ToSet(f[n + 1])
        /\ y \in ToSet(now) /\ (y.id = x.id => y = x) => y \in ToSet(f[n + 1])
    <3> HIDE DEF x, now
    <3>1. /\ Applied(now, x) \in Seq(Trace)
          /\ x \in ToSet(Applied(now, x))
          /\ \A z \in ToSet(now) : (z.id = x.id => z = x) => z \in ToSet(Applied(now, x))
      BY <2>0, <2>2, AppliedOne
    <3>. QED BY <2>1, <3>1
  <2>4. Sent(n + 1) => Sent(n) \/ x = y
    OBVIOUS
  <2>. QED BY <1>4, <2>1, <2>2, <2>3, <2>4
<1> HIDE DEF G
<1>5. \A n \in 0 .. Len(traces) : n \in G
  BY <1>2, <1>3, <1>4, Inductive
<1>6. Len(traces) \in G
  BY <1>2, <1>5
<1>7. y \in ToSet(shown) \/ Sent(Len(traces))
  BY DEF ToSet
<1>. QED BY <1>1, <1>6, <1>7 DEF G

\* When equal ids mean equal traces, a page only grows.
LEMMA AllAppliedGrows ==
    ASSUME NEW shown \in Seq(Trace), NEW traces \in Seq(Trace), Agree(shown, traces)
    PROVE  Grown(shown, AllApplied(shown, traces))
<1>1. PICK f : /\ f[0] = shown /\ f[Len(traces)] = AllApplied(shown, traces)
               /\ \A n \in 0 .. Len(traces) :
                     n # Len(traces) => f[n + 1] = Applied(f[n], traces[n + 1])
  BY AllAppliedStepwise
<1> DEFINE G == {n \in 0 .. Len(traces) :
                    /\ f[n] \in Seq(Trace)
                    /\ ToSet(f[n]) \subseteq ToSet(shown) \cup ToSet(traces)
                    /\ Grown(shown, f[n])}
<1>2. Len(traces) \in Nat
  OBVIOUS
<1>3. 0 \in G
  BY <1>1, <1>2 DEF Grown
<1>4. ASSUME NEW n \in 0 .. Len(traces), n # Len(traces), n \in G
      PROVE  n + 1 \in G
  <2> DEFINE x == traces[n + 1]
  <2>0. f[n] \in Seq(Trace)
    BY <1>4
  <2>1. n + 1 \in 0 .. Len(traces) /\ f[n + 1] = Applied(f[n], x)
    BY <1>1, <1>2, <1>4
  <2>2. x \in Trace /\ x \in ToSet(traces)
    BY <1>2, <1>4 DEF ToSet
  <2>3. \A y \in ToSet(f[n]) : y.id = x.id => y = x
    BY <1>4, <2>2 DEF Agree
  <2>4. /\ f[n + 1] \in Seq(Trace)
        /\ ToSet(f[n + 1]) \subseteq ToSet(f[n]) \cup {x}
        /\ f[n + 1] = f[n] \/ f[n + 1] = Append(f[n], x)
    <3> HIDE DEF x
    <3>1. /\ Applied(f[n], x) \in Seq(Trace)
          /\ ToSet(Applied(f[n], x)) \subseteq ToSet(f[n]) \cup {x}
      BY <2>0, <2>2, AppliedOne
    <3>2. \/ Applied(f[n], x) = f[n]
          \/ Applied(f[n], x) = Append(f[n], x)
      BY <2>0, <2>2, <2>3, AppliedAgreed
    <3>. QED BY <2>1, <3>1, <3>2
  <2>5. Grown(shown, f[n + 1])
    <3>1. /\ Len(shown) <= Len(f[n]) /\ Len(shown) \in Nat /\ Len(f[n]) \in Nat
          /\ DOMAIN shown = 1 .. Len(shown)
          /\ \A i \in DOMAIN shown : f[n][i] = shown[i]
      BY <1>4, <2>0 DEF Grown
    <3> DEFINE now == f[n]
    <3> HIDE DEF G, x, now
    <3>2. /\ Len(now) <= Len(Append(now, x))
          /\ \A i \in 1 .. Len(now) : Append(now, x)[i] = now[i]
      BY <2>0, <2>2 DEF now
    <3>3. /\ Len(now) <= Len(f[n + 1]) /\ Len(f[n + 1]) \in Nat
          /\ \A i \in 1 .. Len(now) : f[n + 1][i] = now[i]
      <4>1. CASE f[n + 1] = now
        BY <3>1, <4>1 DEF now
      <4>2. CASE f[n + 1] = Append(now, x)
        BY <2>0, <2>4, <3>2, <4>2
      <4>. QED BY <2>4, <4>1, <4>2 DEF now
    <3>4. Len(shown) <= Len(f[n + 1])
      BY <3>1, <3>3 DEF now
    <3>5. ASSUME NEW i \in DOMAIN shown PROVE f[n + 1][i] = shown[i]
      <4>1. i \in 1 .. Len(now)
        BY <3>1 DEF now
      <4>. QED BY <3>1, <3>3, <4>1 DEF now
    <3>. QED BY <3>4, <3>5 DEF Grown
  <2>. QED BY <1>4, <2>1, <2>2, <2>4, <2>5
<1> HIDE DEF G
<1>5. \A n \in 0 .. Len(traces) : n \in G
  BY <1>2, <1>3, <1>4, Inductive
<1>6. Len(traces) \in G
  BY <1>2, <1>5
<1>. QED BY <1>1, <1>6 DEF G

\* When they come in order, and what the page lacks of them is later than what it
\* shows, the page stays in order.
LEMMA AllAppliedOrdered ==
    ASSUME NEW shown \in Seq(Trace), NEW traces \in Seq(Trace), Agree(shown, traces),
           Ordered(shown), Ordered(traces),
           \A i \in DOMAIN traces :
              traces[i] \in ToSet(shown)
              \/ \A j \in DOMAIN shown : shown[j].eval < traces[i].eval
    PROVE  Ordered(AllApplied(shown, traces))
<1>1. PICK f : /\ f[0] = shown /\ f[Len(traces)] = AllApplied(shown, traces)
               /\ \A n \in 0 .. Len(traces) :
                     n # Len(traces) => f[n + 1] = Applied(f[n], traces[n + 1])
  BY AllAppliedStepwise
<1> DEFINE Before(n) == {traces[i] : i \in 1 .. n}
           G == {n \in 0 .. Len(traces) :
                    /\ f[n] \in Seq(Trace)
                    /\ ToSet(f[n]) \subseteq ToSet(shown) \cup Before(n)
                    /\ ToSet(shown) \subseteq ToSet(f[n])
                    /\ Ordered(f[n])}
<1>2. Len(traces) \in Nat
  OBVIOUS
<1>3. 0 \in G
  BY <1>1, <1>2
<1>4. ASSUME NEW n \in 0 .. Len(traces), n # Len(traces), n \in G
      PROVE  n + 1 \in G
  <2> DEFINE x == traces[n + 1]
  <2>0. f[n] \in Seq(Trace)
    BY <1>4
  <2>1. n + 1 \in 0 .. Len(traces) /\ f[n + 1] = Applied(f[n], x)
    BY <1>1, <1>2, <1>4
  <2>2. /\ x \in Trace /\ x \in ToSet(traces) /\ n + 1 \in DOMAIN traces
        /\ x \in Before(n + 1)
        /\ Before(n) \subseteq Before(n + 1) /\ Before(n) \subseteq ToSet(traces)
    BY <1>2, <1>4 DEF ToSet
  <2>3. \A y \in ToSet(f[n]) : y.id = x.id => y = x
    BY <1>4, <2>2 DEF Agree
  <2>4. /\ f[n + 1] \in Seq(Trace)
        /\ ToSet(f[n + 1]) \subseteq ToSet(f[n]) \cup {x}
        /\ \A y \in ToSet(f[n]) : y \in ToSet(f[n + 1])
        /\ f[n + 1] = f[n] \/ (f[n + 1] = Append(f[n], x) /\ x \notin ToSet(f[n]))
    <3> HIDE DEF x
    <3>1. /\ Applied(f[n], x) \in Seq(Trace)
          /\ ToSet(Applied(f[n], x)) \subseteq ToSet(f[n]) \cup {x}
      BY <2>0, <2>2, AppliedOne
    <3>2. /\ \/ Applied(f[n], x) = f[n]
             \/ Applied(f[n], x) = Append(f[n], x) /\ x \notin ToSet(f[n])
          /\ ToSet(f[n]) \subseteq ToSet(Applied(f[n], x))
      BY <2>0, <2>2, <2>3, AppliedAgreed
    <3>. QED BY <2>1, <3>1, <3>2
  <2>5. ASSUME f[n + 1] = Append(f[n], x), x \notin ToSet(f[n])
        PROVE  Ordered(f[n + 1])
    <3>1. x \notin ToSet(shown)
      BY <1>4, <2>5
    <3>2. \A y \in ToSet(shown) : y.eval < x.eval
      BY <2>2, <3>1 DEF ToSet
    <3>3. ASSUME NEW i \in 1 .. n PROVE traces[i].eval < x.eval
      <4>1. i \in DOMAIN traces /\ n + 1 \in DOMAIN traces /\ i < n + 1
        BY <1>2, <1>4
      <4>. QED BY <4>1 DEF Ordered
    <3>4. \A i \in DOMAIN f[n] : f[n][i].eval < x.eval
      <4>1. f[n] \in Seq(Trace) /\ ToSet(f[n]) \subseteq ToSet(shown) \cup Before(n)
        BY <1>4
      <4>2. \A y \in Before(n) : y.eval < x.eval
        BY <3>3
      <4> HIDE DEF G, Before, x
      <4>. QED BY <3>2, <4>1, <4>2 DEF ToSet
    <3>5. /\ DOMAIN f[n + 1] = 1 .. Len(f[n]) + 1 /\ DOMAIN f[n] = 1 .. Len(f[n])
          /\ Len(f[n]) \in Nat /\ f[n + 1][Len(f[n]) + 1] = x
          /\ \A i \in DOMAIN f[n] : f[n + 1][i] = f[n][i]
      BY <1>4, <2>2, <2>5
    <3> HIDE DEF x, Before, G
    <3>6. Ordered(f[n])
      BY <1>4 DEF G
    <3>7. SUFFICES ASSUME NEW i \in DOMAIN f[n + 1], NEW j \in DOMAIN f[n + 1], i < j
                   PROVE  f[n + 1][i].eval < f[n + 1][j].eval
      BY DEF Ordered
    <3>8. i \in DOMAIN f[n]
      BY <3>5, <3>7
    <3>9. CASE j \in DOMAIN f[n]
      BY <3>5, <3>6, <3>7, <3>8, <3>9 DEF Ordered
    <3>10. CASE j = Len(f[n]) + 1
      BY <3>4, <3>5, <3>8, <3>10
    <3>. QED BY <3>5, <3>9, <3>10
  <2>. QED BY <1>4, <2>1, <2>2, <2>4, <2>5
<1> HIDE DEF G
<1>5. \A n \in 0 .. Len(traces) : n \in G
  BY <1>2, <1>3, <1>4, Inductive
<1>6. Len(traces) \in G
  BY <1>2, <1>5
<1>. QED BY <1>1, <1>6 DEF G

-----------------------------------------------------------------------------
(* The inductive invariant *)

\* The traces that there are, in feeds and on pages.
Known ==
    {x \in Trace : \/ \E s \in Sessions : x \in ToSet(feeds[s])
                   \/ \E t \in Tabs : x \in ToSet(mirror[t])}

\* The sessions that came to be since the server was started, as far as they can
\* still get an answer or have one.
Current == live \cup pending \cup {s \in Sessions : feeds[s] # <<>>}

\* Traces are numbered in the order they were made, and from the start of the server
\* by the provider.  All traces of a session are of one run of the server.
Numbered ==
    /\ \A x \in Known : x.eval <= done /\ x.of <= created
    /\ \A x, y \in Known : x.eval = y.eval => x = y
    /\ \A x, y \in Known : x.of = y.of => x.eval + y.id = y.eval + x.id
    /\ \A x \in Known : x.of \in Current => x.eval + seq = done + x.id
    /\ restarts = 0 => seq = done /\ \A x \in Known : x.id = x.eval

\* A feed has its session's traces, in order.
FeedsOrdered ==
    \A s \in Sessions :
        /\ Ordered(feeds[s])
        /\ \A i \in DOMAIN feeds[s] : feeds[s][i].of = s /\ i <= feeds[s][i].eval

\* A page has traces of the sessions whose streams it had, one for each id.
PagesDistinct ==
    \A t \in Tabs :
        /\ DistinctIds(mirror[t])
        /\ \A i \in DOMAIN mirror[t] : mirror[t][i].of \in seen[t]
        /\ sid[t] # 0 => sid[t] \in seen[t]

\* Of a feed that was never dropped for the limit, a page that has had no other
\* session's stream has the traces in order, and lacks only later ones.
PagesOrdered ==
    \A t \in Tabs, s \in Sessions : seen[t] \subseteq {s} /\ s \notin evicted =>
        /\ Ordered(mirror[t])
        /\ \A i \in DOMAIN feeds[s] :
              \/ feeds[s][i] \in ToSet(mirror[t])
              \/ \A j \in DOMAIN mirror[t] : mirror[t][j].eval < feeds[s][i].eval

\* The feed of an open stream stays, unless it is dropped for the limit.
StreamsKept == \A t \in Tabs : Kept(t) => sid[t] \in ToSet(recent)

StreamInv ==
    /\ TypeOK
    /\ Numbered
    /\ FeedsOrdered
    /\ PagesDistinct
    /\ PagesOrdered
    /\ StreamsKept
    /\ NothingSkipped

-----------------------------------------------------------------------------
(* The feeds *)

\* The sessions but s, in their order.
LEMMA WithoutFacts ==
    ASSUME NEW r \in Seq(Sessions), IsInjective(r), NEW s \in Sessions
    PROVE  /\ Without(r, s) \in Seq(Sessions) /\ IsInjective(Without(r, s))
           /\ ToSet(Without(r, s)) = ToSet(r) \ {s}
           /\ Len(Without(r, s)) <= Len(r)
<1>1. CASE s \in ToSet(r)
  <2>1. PICK i \in DOMAIN r : r[i] = s /\ Without(r, s) = RemoveAt(r, i)
    <3>1. \E i \in DOMAIN r : r[i] = s
      BY <1>1 DEF ToSet
    <3>. QED BY <1>1, <3>1 DEF Without
  <2>2. /\ Len(r) \in Nat /\ i \in 1 .. Len(r)
        /\ Len(Without(r, s)) = Len(r) - 1
        /\ Without(r, s) \in Seq(Sessions)
        /\ DOMAIN Without(r, s) = 1 .. Len(r) - 1
        /\ \A j \in 1 .. Len(r) - 1 :
              Without(r, s)[j] = IF j < i THEN r[j] ELSE r[j + 1]
    <3> DEFINE front == SubSeq(r, 1, i - 1)
               back == SubSeq(r, i + 1, Len(r))
    <3>1. Len(r) \in Nat /\ i \in 1 .. Len(r)
      OBVIOUS
    <3>2. /\ front \in Seq(Sessions) /\ Len(front) = i - 1
          /\ \A j \in 1 .. i - 1 : front[j] = r[j]
      BY <3>1
    <3>3. /\ back \in Seq(Sessions) /\ Len(back) = Len(r) - i
          /\ \A j \in 1 .. Len(r) - i : back[j] = r[j + i]
      BY <3>1
    <3>4. Without(r, s) = front \o back
      BY <2>1 DEF RemoveAt
    <3> HIDE DEF front, back
    <3>5. /\ front \o back \in Seq(Sessions)
          /\ Len(front \o back) = Len(r) - 1
          /\ DOMAIN (front \o back) = 1 .. Len(r) - 1
      BY <3>1, <3>2, <3>3
    <3>6. ASSUME NEW j \in 1 .. Len(r) - 1
          PROVE  (front \o back)[j] = IF j < i THEN r[j] ELSE r[j + 1]
      <4>1. CASE j < i
        BY <3>1, <3>2, <3>3, <4>1
      <4>2. CASE ~(j < i)
        <5>1. j - (i - 1) \in 1 .. Len(r) - i /\ (j - (i - 1)) + i = j + 1
          BY <3>1, <4>2
        <5>2. (front \o back)[j] = back[j - (i - 1)]
          <6>1. j \in 1 .. Len(front) + Len(back) /\ ~(j <= Len(front))
            BY <3>1, <3>2, <3>3, <4>2
          <6>2. (front \o back)[j] = back[j - Len(front)]
            BY <3>2, <3>3, <6>1, ConcatProperties
          <6>. QED BY <3>2, <6>2
        <5>. QED BY <3>3, <4>2, <5>1, <5>2
      <4>. QED BY <4>1, <4>2
    <3>. QED BY <3>1, <3>4, <3>5, <3>6
  <2> DEFINE q == Without(r, s)
  <2> HIDE DEF q
  <2>6. /\ Len(r) \in Nat /\ i \in 1 .. Len(r) /\ DOMAIN r = 1 .. Len(r)
        /\ DOMAIN q = 1 .. Len(r) - 1
        /\ \A j \in DOMAIN q : q[j] = IF j < i THEN r[j] ELSE r[j + 1]
        /\ \A j, k \in DOMAIN r : r[j] = r[k] => j = k
    BY <2>2 DEF IsInjective, q
  <2>7. \A j \in DOMAIN q : \E k \in DOMAIN r :
           /\ q[j] = r[k] /\ k # i
           /\ k = IF j < i THEN j ELSE j + 1
    <3> SUFFICES ASSUME NEW j \in DOMAIN q
                 PROVE  \E k \in DOMAIN r : /\ q[j] = r[k] /\ k # i
                                            /\ k = IF j < i THEN j ELSE j + 1
      OBVIOUS
    <3>1. CASE j < i
      <4>1. j \in DOMAIN r /\ q[j] = r[j] /\ j # i
        BY <2>6, <3>1
      <4>. QED BY <3>1, <4>1
    <3>2. CASE ~(j < i)
      <4>1. j + 1 \in DOMAIN r /\ q[j] = r[j + 1] /\ j + 1 # i
        BY <2>6, <3>2
      <4>. QED BY <3>2, <4>1
    <3>. QED BY <3>1, <3>2
  <2>3. IsInjective(q)
    <3> SUFFICES ASSUME NEW j \in DOMAIN q, NEW k \in DOMAIN q, q[j] = q[k]
                 PROVE  j = k
      BY DEF IsInjective
    <3>1. PICK a \in DOMAIN r : /\ q[j] = r[a] /\ a # i
                                /\ a = IF j < i THEN j ELSE j + 1
      BY <2>7
    <3>2. PICK b \in DOMAIN r : /\ q[k] = r[b] /\ b # i
                                /\ b = IF k < i THEN k ELSE k + 1
      BY <2>7
    <3>3. a = b
      BY <2>6, <3>1, <3>2
    <3>. QED BY <2>6, <3>1, <3>2, <3>3
  <2>4. ToSet(q) \subseteq ToSet(r) \ {s}
    <3>1. \A j \in DOMAIN q : q[j] \in ToSet(r) /\ q[j] # s
      BY <2>1, <2>6, <2>7 DEF ToSet
    <3>. QED BY <3>1 DEF ToSet
  <2>5. ASSUME NEW x \in ToSet(r) \ {s} PROVE x \in ToSet(q)
    <3>1. PICK k \in 1 .. Len(r) : r[k] = x
      BY <2>2 DEF ToSet
    <3>2. k # i
      BY <2>1, <3>1
    <3>3. CASE k < i
      <4>1. k \in 1 .. Len(r) - 1 /\ q[k] = x
        BY <2>2, <3>1, <3>3 DEF q
      <4>. QED BY <2>2, <4>1 DEF ToSet, q
    <3>4. CASE k > i
      <4>1. k - 1 \in 1 .. Len(r) - 1 /\ q[k - 1] = x
        BY <2>2, <3>1, <3>4 DEF q
      <4>. QED BY <2>2, <4>1 DEF ToSet, q
    <3>. QED BY <2>2, <3>2, <3>3, <3>4
  <2>. QED BY <2>2, <2>3, <2>4, <2>5 DEF q
<1>2. CASE s \notin ToSet(r)
  BY <1>2 DEF Without
<1>. QED BY <1>1, <1>2

\* What a use of the feed of s does to the feeds.
Stored(s, traces) ==
    /\ recent' \in Seq(Sessions) /\ Len(recent') <= Limit /\ IsInjective(recent')
    /\ s \in ToSet(recent')
    /\ feeds' \in [Sessions -> Seq(Trace)]
    /\ evicted \subseteq evicted' /\ evicted' \subseteq Sessions
    /\ \A r \in Sessions : r \notin ToSet(recent') => feeds'[r] = <<>>
    /\ \A r \in Sessions : r # s => feeds'[r] \in {feeds[r], <<>>}
    /\ feeds'[s] \in {traces, feeds[s] \o traces}
    /\ \A r \in ToSet(recent) : Streamed(r) /\ r \notin evicted' =>
          /\ r \in ToSet(recent')
          /\ feeds'[r] = IF r = s THEN feeds[s] \o traces ELSE feeds[r]

LEMMA ForSessionStores ==
    ASSUME TypeOK, NEW s \in Sessions, NEW traces \in Seq(Trace), ForSession(s, traces)
    PROVE  Stored(s, traces)
<1>0. /\ recent \in Seq(Sessions) /\ Len(recent) <= Limit /\ IsInjective(recent)
      /\ feeds \in [Sessions -> Seq(Trace)] /\ evicted \subseteq Sessions
      /\ Limit \in Nat /\ Limit >= 1 /\ Len(recent) \in Nat
  BY LimitAssumption DEF TypeOK
<1>1. PICK n \in Abandoned :
         LET gone == ToSet(SubSeq(recent, 1, n))
             kept == SubSeq(recent, n + 1, Len(recent))
         IN  /\ recent' = Within(Append(Without(kept, s), s))
             /\ evicted' = evicted \cup (ToSet(kept) \ ToSet(recent'))
             /\ feeds' = [r \in Sessions |->
                   IF r \notin ToSet(recent') THEN <<>>
                   ELSE IF r = s THEN (IF s \in gone THEN <<>> ELSE feeds[s]) \o traces
                   ELSE feeds[r]]
  BY DEF ForSession
<1> DEFINE gone == ToSet(SubSeq(recent, 1, n))
           kept == SubSeq(recent, n + 1, Len(recent))
           used == Append(Without(kept, s), s)
<1>2. /\ recent' = Within(used)
      /\ evicted' = evicted \cup (ToSet(kept) \ ToSet(recent'))
      /\ feeds' = [r \in Sessions |->
            IF r \notin ToSet(recent') THEN <<>>
            ELSE IF r = s THEN (IF s \in gone THEN <<>> ELSE feeds[s]) \o traces
            ELSE feeds[r]]
  BY <1>1
<1>3. n \in 0 .. Len(recent) /\ \A i \in 1 .. n : ~Streamed(recent[i])
  BY DEF Abandoned
<1>4. /\ kept \in Seq(Sessions) /\ Len(kept) = Len(recent) - n
      /\ DOMAIN kept = 1 .. Len(recent) - n
      /\ \A i \in 1 .. Len(recent) - n : kept[i] = recent[i + n]
  BY <1>0, <1>3, Behind
<1>5. IsInjective(kept) /\ Len(kept) <= Limit
  <2>1. Len(kept) <= Limit
    BY <1>0, <1>3, <1>4
  <2>2. SUFFICES ASSUME NEW i \in DOMAIN kept, NEW j \in DOMAIN kept, kept[i] = kept[j]
                 PROVE  i = j
    BY <2>1 DEF IsInjective
  <2> HIDE DEF kept
  <2>0. n \in Nat /\ Len(recent) \in Nat /\ DOMAIN recent = 1 .. Len(recent)
    BY <1>0, <1>3
  <2>6. i \in 1 .. Len(recent) - n /\ j \in 1 .. Len(recent) - n
    BY <1>4
  <2>3. i \in Nat /\ j \in Nat /\ i + n \in DOMAIN recent /\ j + n \in DOMAIN recent
    BY <2>0, <2>6
  <2>4. recent[i + n] = recent[j + n]
    BY <1>4, <2>2
  <2>5. i + n = j + n
    BY <1>0, <2>3, <2>4 DEF IsInjective
  <2>. QED BY <1>3, <2>3, <2>5
<1>6. ToSet(kept) \subseteq Sessions
  <2> HIDE DEF kept
  <2>. QED BY <1>4 DEF ToSet
<1>7. \A r \in gone : ~Streamed(r)
  BY <1>0, <1>3 DEF ToSet
<1>8. \A r \in ToSet(recent) : Streamed(r) => r \in ToSet(kept) /\ r \notin gone
  <2> SUFFICES ASSUME NEW r \in ToSet(recent), Streamed(r) PROVE r \in ToSet(kept)
    BY <1>7
  <2>1. PICK i \in 1 .. Len(recent) : recent[i] = r
    BY <1>0 DEF ToSet
  <2>2. i > n
    BY <1>3, <2>1
  <2>3. i - n \in 1 .. Len(recent) - n /\ kept[i - n] = r
    BY <1>0, <1>3, <1>4, <2>1, <2>2
  <2> HIDE DEF kept
  <2>. QED BY <1>4, <2>3 DEF ToSet
<1> HIDE DEF gone, kept
<1>9. /\ Without(kept, s) \in Seq(Sessions) /\ IsInjective(Without(kept, s))
      /\ ToSet(Without(kept, s)) = ToSet(kept) \ {s}
      /\ Len(Without(kept, s)) <= Limit
  BY <1>0, <1>4, <1>5, WithoutFacts
<1>10. /\ used \in Seq(Sessions) /\ Len(used) <= Limit + 1 /\ Len(used) \in Nat
       /\ IsInjective(used) /\ Len(used) >= 1 /\ used[Len(used)] = s
  <2>1. \A i \in DOMAIN Without(kept, s) : Without(kept, s)[i] # s
    BY <1>9 DEF ToSet
  <2>. QED BY <1>0, <1>9, <2>1 DEF IsInjective
<1> HIDE DEF used
<1>11. /\ recent' \in Seq(Sessions) /\ Len(recent') <= Limit /\ IsInjective(recent')
       /\ s \in ToSet(recent')
  <2>1. CASE Len(used) > Limit
    <3>1. /\ recent' = Tail(used) /\ recent' \in Seq(Sessions)
          /\ Len(recent') = Len(used) - 1 /\ DOMAIN recent' = 1 .. Len(used) - 1
          /\ \A i \in 1 .. Len(used) - 1 : recent'[i] = used[i + 1]
      BY <1>0, <1>2, <1>10, <2>1 DEF Within
    <3>2. IsInjective(recent')
      BY <1>10, <3>1 DEF IsInjective
    <3>3. Len(used) - 1 \in DOMAIN recent' /\ recent'[Len(used) - 1] = s
      BY <1>0, <1>10, <2>1, <3>1
    <3>4. s \in ToSet(recent')
      BY <3>3 DEF ToSet
    <3>5. Len(recent') <= Limit
      BY <1>0, <1>10, <3>1
    <3>. QED BY <3>1, <3>2, <3>4, <3>5
  <2>2. CASE ~(Len(used) > Limit)
    <3>1. recent' = used
      BY <1>2, <2>2 DEF Within
    <3>. QED BY <1>0, <1>10, <2>2, <3>1 DEF ToSet
  <2>. QED BY <2>1, <2>2
<1>12. feeds' \in [Sessions -> Seq(Trace)]
  BY <1>0, <1>2
<1>13. evicted \subseteq evicted' /\ evicted' \subseteq Sessions
  BY <1>0, <1>2, <1>6
<1>14. <<>> \o traces = traces
  OBVIOUS
<1>15. /\ \A r \in Sessions : r \notin ToSet(recent') => feeds'[r] = <<>>
       /\ \A r \in Sessions : r # s => feeds'[r] \in {feeds[r], <<>>}
       /\ feeds'[s] \in {traces, feeds[s] \o traces}
  BY <1>2, <1>11, <1>14
<1>16. \A r \in ToSet(recent) : Streamed(r) /\ r \notin evicted' =>
          /\ r \in ToSet(recent')
          /\ feeds'[r] = IF r = s THEN feeds[s] \o traces ELSE feeds[r]
  BY <1>2, <1>6, <1>8
<1>. QED BY <1>11, <1>12, <1>13, <1>15, <1>16 DEF Stored

-----------------------------------------------------------------------------
(* What the invariant says of the traces *)

\* The traces of feeds and pages are known.
LEMMA InKnown ==
    ASSUME TypeOK
    PROVE  /\ \A s \in Sessions : ToSet(feeds[s]) \subseteq Known
           /\ \A t \in Tabs : ToSet(mirror[t]) \subseteq Known
           /\ \A x \in Known : /\ x.id \in Nat /\ x.eval \in Nat
                              /\ x.of \in Sessions /\ x \in Trace
<1>1. ASSUME NEW s \in Sessions PROVE ToSet(feeds[s]) \subseteq Known
  <2>1. feeds[s] \in Seq(Trace)
    BY DEF TypeOK
  <2>. QED BY <2>1 DEF Known, ToSet
<1>2. ASSUME NEW t \in Tabs PROVE ToSet(mirror[t]) \subseteq Known
  <2>1. mirror[t] \in Seq(Trace)
    BY DEF TypeOK
  <2>. QED BY <2>1 DEF Known, ToSet
<1>3. \A x \in Known : x \in Trace
  BY DEF Known
<1>4. \A x \in Trace : x.id \in Nat /\ x.eval \in Nat /\ x.of \in Sessions
  BY BoundsAssumption DEF Trace
<1>. QED BY <1>1, <1>2, <1>3, <1>4

\* Within a session an id names one trace.
LEMMA SameTrace ==
    ASSUME TypeOK, Numbered, NEW x \in Known, NEW y \in Known,
           x.of = y.of, x.id = y.id
    PROVE  x = y
<1>1. x.eval + y.id = y.eval + x.id
  BY DEF Numbered
<1>2. x.eval = y.eval
  BY <1>1, InKnown
<1>. QED BY <1>2 DEF Numbered

\* A feed has no more traces than there have been, all of its session, each once.
LEMMA FeedFacts ==
    ASSUME TypeOK, Numbered, FeedsOrdered, NEW s \in Sessions
    PROVE  /\ Len(feeds[s]) \in 0 .. done
           /\ \A x \in ToSet(feeds[s]) : x \in Known /\ x.of = s
           /\ \A x, y \in ToSet(feeds[s]) : x.id = y.id => x = y
<1>1. /\ feeds[s] \in Seq(Trace) /\ Len(feeds[s]) \in Nat /\ done \in Nat
      /\ DOMAIN feeds[s] = 1 .. Len(feeds[s])
  BY BoundsAssumption DEF TypeOK
<1>2. \A x \in ToSet(feeds[s]) : x \in Known /\ x.of = s
  BY InKnown DEF FeedsOrdered, ToSet
<1>3. Len(feeds[s]) <= done
  <2>1. CASE Len(feeds[s]) > 0
    <3> DEFINE last == feeds[s][Len(feeds[s])]
    <3>1. Len(feeds[s]) \in DOMAIN feeds[s]
      BY <1>1, <2>1
    <3>2. last \in ToSet(feeds[s]) /\ Len(feeds[s]) <= last.eval
      BY <3>1 DEF FeedsOrdered, ToSet
    <3>3. last.eval <= done /\ last.eval \in Nat
      BY <1>2, <3>2, InKnown DEF Numbered
    <3> HIDE DEF last
    <3>. QED BY <1>1, <3>2, <3>3
  <2>. QED BY <1>1, <2>1
<1>4. \A x, y \in ToSet(feeds[s]) : x.id = y.id => x = y
  BY <1>2, SameTrace
<1>. QED BY <1>1, <1>2, <1>3, <1>4

-----------------------------------------------------------------------------
(* The kinds of steps *)

\* The stream of t, which is one of s, sends the feed of s from `from` on.
Sends(t, s, from) ==
    /\ Stored(s, <<>>)
    /\ conn' = [conn EXCEPT ![t] = "open"]
    /\ sid' = [sid EXCEPT ![t] = s]
    /\ seen' = [seen EXCEPT ![t] = @ \cup {s}]
    /\ mirror' = [mirror EXCEPT ![t] = AllApplied(@, SubSeq(feeds'[s], from + 1, Len(feeds'[s])))]
    /\ lastSent' = [lastSent EXCEPT ![t] = Len(feeds'[s])]
    /\ from = 0 \/ (conn[t] = "open" /\ sid[t] = s /\ from = lastSent[t])
    /\ UNCHANGED <<server, provider, restarts>>

\* A trace is made for the session s.
Makes(s, new) ==
    /\ new = [id |-> seq + 1, eval |-> done + 1, of |-> s]
    /\ new \in Trace /\ s \in pending
    /\ Stored(s, <<new>>)
    /\ pending' = pending \ {s} /\ seq' = seq + 1 /\ done' = done + 1
    /\ UNCHANGED <<server, pages, restarts>>

\* Streams end, pages are loaded, sessions come and go.
Leaves ==
    /\ UNCHANGED <<store, seq, done, restarts>>
    /\ \/ created' = created /\ live' \subseteq live /\ pending' \subseteq pending \cup live
       \/ /\ created < MaxSessions /\ created' = created + 1
          /\ live' = live \cup {created'} /\ pending' = pending
    /\ cookie' \in {cookie, created'}
    /\ conn' \in [Tabs -> {"none", "connecting", "open"}]
    /\ sid' \in [Tabs -> Nat] /\ lastSent' \in [Tabs -> Nat]
    /\ mirror' \in [Tabs -> Seq(Trace)] /\ seen' \in [Tabs -> SUBSET Sessions]
    /\ \A t \in Tabs :
          \/ /\ conn'[t] = conn[t] /\ sid'[t] = sid[t] /\ lastSent'[t] = lastSent[t]
             /\ mirror'[t] = mirror[t] /\ seen'[t] = seen[t]
          \/ /\ conn'[t] # "open" /\ sid'[t] = 0 /\ lastSent'[t] = 0
             /\ \/ mirror'[t] = mirror[t] /\ seen'[t] = seen[t]
                \/ mirror'[t] = <<>> /\ seen'[t] = {}

\* Every step is of one of the kinds.
LEMMA Kinds ==
    ASSUME TypeOK, PagesDistinct, [Next]_vars
    PROVE  \/ \E t \in Tabs, s \in 1 .. created, from \in Nat : Sends(t, s, from)
           \/ \E s \in Sessions, new \in Trace : Makes(s, new)
           \/ Leaves
           \/ Restart
<1>0. /\ created \in 0 .. MaxSessions /\ live \subseteq 1 .. created
      /\ pending \subseteq 1 .. created /\ cookie \in 0 .. created
      /\ Sessions = 1 .. MaxSessions /\ MaxSessions \in Nat /\ MaxTraces \in Nat
      /\ feeds \in [Sessions -> Seq(Trace)]
      /\ conn \in [Tabs -> {"none", "connecting", "open"}]
      /\ sid \in [Tabs -> 0 .. created] /\ lastSent \in [Tabs -> 0 .. MaxTraces]
      /\ mirror \in [Tabs -> Seq(Trace)] /\ seen \in [Tabs -> SUBSET Sessions]
      /\ done \in 0 .. MaxTraces /\ seq \in 0 .. done
      /\ \A t \in Tabs : sid[t] # 0 <=> conn[t] = "open"
  BY BoundsAssumption DEF TypeOK, Sessions
<1>1. <<>> \in Seq(Trace)
  OBVIOUS
<1>2. ASSUME NEW t \in Tabs, Flush(t)
      PROVE  \E s \in 1 .. created, from \in Nat : Sends(t, s, from)
  <2>1. sid[t] \in 1 .. created /\ sid[t] \in Sessions /\ lastSent[t] \in Nat
    BY <1>0, <1>2 DEF Flush
  <2>2. Stored(sid[t], <<>>)
    BY <1>1, <1>2, <2>1, ForSessionStores DEF Flush
  <2>3. sid[t] \in seen[t]
    BY <2>1 DEF PagesDistinct
  <2>4. Sends(t, sid[t], lastSent[t])
    BY <1>0, <1>2, <2>2, <2>3 DEF Flush, Sends, Unsent, server, provider
  <2>. QED BY <2>1, <2>4
<1>3. ASSUME NEW t \in Tabs, Connect(t)
      PROVE  \/ \E s \in 1 .. created, from \in Nat : Sends(t, s, from)
             \/ Leaves
  <2>1. CASE Opens(t)
    <3>1. cookie \in 1 .. created /\ cookie \in Sessions
      BY <1>0, <2>1 DEF Opens
    <3>2. Stored(cookie, <<>>)
      BY <1>1, <2>1, <3>1, ForSessionStores DEF Opens
    <3>3. feeds'[cookie] \in Seq(Trace)
      BY <3>1, <3>2 DEF Stored
    <3>4. SubSeq(feeds'[cookie], 0 + 1, Len(feeds'[cookie])) = feeds'[cookie]
      BY <3>3
    <3>5. Sends(t, cookie, 0)
      BY <1>3, <2>1, <3>2, <3>4 DEF Opens, Connect, Sends, server, provider
    <3>. QED BY <3>1, <3>5
  <2>2. CASE ~Opens(t)
    <3>1. /\ conn' = [conn EXCEPT ![t] = "none"] /\ conn[t] = "connecting"
          /\ UNCHANGED <<server, provider, store, sid, lastSent, mirror, seen, restarts>>
      BY <1>3, <2>2 DEF Connect
    <3>2. sid[t] = 0 /\ lastSent[t] = 0
      BY <1>0, <3>1 DEF TypeOK
    <3>3. Leaves
      BY <1>0, <3>1, <3>2 DEF Leaves, server, provider, store
    <3>. QED BY <3>3
  <2>. QED BY <2>1, <2>2
<1>4. ASSUME NEW t \in Tabs, Load(t) \/ SignIn(t) \/ Break(t) PROVE Leaves
  <2>1. CASE Load(t)
    BY <1>0, <2>1 DEF Load, Fresh, Leaves, server, provider, store
  <2>2. CASE SignIn(t)
    BY <1>0, <2>2 DEF SignIn, Fresh, Leaves, provider, store
  <2>3. CASE Break(t)
    BY <1>0, <2>3 DEF Break, Leaves, server, provider, store
  <2>. QED BY <1>4, <2>1, <2>2, <2>3
<1>5. ASSUME NEW s \in Sessions, Answer(s)
      PROVE  \E new \in Trace : Makes(s, new)
  <2> DEFINE new == [id |-> seq + 1, eval |-> done + 1, of |-> s]
  <2>1. new \in Trace
    BY <1>0, <1>5 DEF Answer, Trace
  <2>2. <<new>> \in Seq(Trace) /\ ForSession(s, <<new>>)
    BY <1>5, <2>1 DEF Answer
  <2>3. Stored(s, <<new>>)
    BY <2>2, ForSessionStores
  <2> HIDE DEF new
  <2>4. Makes(s, new)
    BY <1>5, <2>1, <2>3 DEF Answer, Makes, new
  <2>. QED BY <2>1, <2>4
<1>6. ASSUME NEW s \in Sessions, Fail(s) \/ Expire(s) PROVE Leaves
  BY <1>0, <1>6 DEF Fail, Expire, Leaves, server, provider, store, pages
<1>7. CASE Evaluate \/ UNCHANGED vars
  BY <1>0, <1>7 DEF Evaluate, Leaves, vars, server, provider, store, pages
<1>. QED BY <1>2, <1>3, <1>4, <1>5, <1>6, <1>7 DEF Next

\* A use of a feed that adds nothing to it leaves each feed as it is, or drops it.
LEMMA StoredKeeps ==
    ASSUME TypeOK, NEW s \in Sessions, Stored(s, <<>>)
    PROVE  \A r \in Sessions : feeds'[r] \in {feeds[r], <<>>}
<1>1. feeds[s] \in Seq(Trace)
  BY DEF TypeOK
<1>2. feeds[s] \o <<>> = feeds[s]
  BY <1>1, ConcatEmptySeq
<1>. QED BY <1>2 DEF Stored

\* What a stream sends.
New(s, from) == SubSeq(feeds'[s], from + 1, Len(feeds'[s]))

LEMMA SendsNew ==
    ASSUME StreamInv, NEW t \in Tabs, NEW s \in 1 .. created, NEW from \in Nat,
           Sends(t, s, from)
    PROVE  /\ s \in Sessions /\ feeds'[s] \in Seq(Trace)
           /\ Len(feeds'[s]) \in 0 .. done /\ ToSet(feeds'[s]) \subseteq ToSet(feeds[s])
           /\ New(s, from) \in Seq(Trace)
           /\ ToSet(New(s, from)) \subseteq ToSet(feeds[s])
           /\ Ordered(feeds'[s]) /\ Ordered(New(s, from))
           /\ \A i \in DOMAIN feeds'[s] : i > from => feeds'[s][i] \in ToSet(New(s, from))
<1>0. /\ s \in Sessions /\ TypeOK /\ Numbered /\ FeedsOrdered /\ done \in Nat
      /\ feeds[s] \in Seq(Trace)
  <2>1. TypeOK /\ Numbered /\ FeedsOrdered
    BY DEF StreamInv
  <2>2. created \in 0 .. MaxSessions /\ done \in Nat /\ feeds \in [Sessions -> Seq(Trace)]
        /\ MaxSessions \in Nat
    BY <2>1, BoundsAssumption DEF TypeOK
  <2>3. s \in Sessions
    BY <2>2 DEF Sessions
  <2>. QED BY <2>1, <2>2, <2>3
<1>1. feeds'[s] \in Seq(Trace) /\ feeds'[s] \in {feeds[s], <<>>}
  BY <1>0, StoredKeeps DEF Sends, Stored
<1>2. ToSet(feeds'[s]) \subseteq ToSet(feeds[s]) /\ Ordered(feeds'[s])
  BY <1>0, <1>1 DEF FeedsOrdered, ToSet, Ordered
<1>3. Len(feeds'[s]) \in 0 .. done
  BY <1>0, <1>1, FeedFacts
<1> DEFINE feed == feeds'[s]
           new == New(s, from)
<1>4. CASE from + 1 <= Len(feed)
  <2>1. /\ new \in Seq(Trace) /\ Len(new) = Len(feed) - from
        /\ DOMAIN new = 1 .. Len(feed) - from
        /\ \A i \in 1 .. Len(feed) - from : new[i] = feed[i + from]
    <3> HIDE DEF feed
    <3>1. feed \in Seq(Trace) /\ from \in 0 .. Len(feed)
      BY <1>1, <1>3, <1>4 DEF feed
    <3>2. new = SubSeq(feed, from + 1, Len(feed))
      BY DEF New, feed
    <3>. QED BY <3>1, <3>2, Behind
  <2>2. Len(feed) \in Nat /\ DOMAIN feed = 1 .. Len(feed)
    BY <1>1
  <2> HIDE DEF new, feed
  <2>6. \A i \in 1 .. Len(feed) - from : i \in Nat /\ i + from \in DOMAIN feed
    BY <2>2
  <2>3. ToSet(new) \subseteq ToSet(feed)
    BY <2>1, <2>6 DEF ToSet
  <2>4. Ordered(new)
    <3>1. Ordered(feed)
      BY <1>2 DEF feed
    <3>2. SUFFICES ASSUME NEW i \in DOMAIN new, NEW j \in DOMAIN new, i < j
                   PROVE  new[i].eval < new[j].eval
      BY DEF Ordered
    <3>3. i + from < j + from /\ i + from \in DOMAIN feed /\ j + from \in DOMAIN feed
      BY <2>1, <2>6, <3>2
    <3>. QED BY <2>1, <3>1, <3>3 DEF Ordered
  <2>5. ASSUME NEW i \in DOMAIN feed, i > from PROVE feed[i] \in ToSet(new)
    <3>1. i - from \in 1 .. Len(feed) - from /\ new[i - from] = feed[i]
      BY <2>1, <2>2, <2>5
    <3>. QED BY <2>1, <3>1 DEF ToSet
  <2>. QED BY <1>0, <1>1, <1>2, <1>3, <2>1, <2>3, <2>4, <2>5 DEF feed, new
<1>5. CASE ~(from + 1 <= Len(feed))
  <2>1. new = <<>> /\ Len(feed) \in Nat /\ DOMAIN feed = 1 .. Len(feed)
    BY <1>1, <1>3, <1>5 DEF New
  <2>2. new \in Seq(Trace) /\ ToSet(new) = {} /\ Ordered(new)
    BY <2>1 DEF ToSet, Ordered
  <2> HIDE DEF new, feed
  <2>3. \A i \in DOMAIN feed : ~(i > from)
    BY <1>5, <2>1
  <2>. QED BY <1>0, <1>1, <1>2, <1>3, <2>2, <2>3 DEF feed, new
<1>. QED BY <1>4, <1>5

\* What comes of it on the page.
LEMMA SendsPage ==
    ASSUME StreamInv, NEW t \in Tabs, NEW s \in 1 .. created, NEW from \in Nat,
           Sends(t, s, from)
    PROVE  /\ mirror'[t] = AllApplied(mirror[t], New(s, from))
           /\ mirror'[t] \in Seq(Trace)
           /\ ToSet(mirror'[t]) \subseteq ToSet(mirror[t]) \cup ToSet(feeds[s])
           /\ DistinctIds(mirror'[t])
           /\ \A i \in DOMAIN feeds'[s] :
                 i > from \/ feeds'[s][i] \in ToSet(mirror[t])
                    => feeds'[s][i] \in ToSet(mirror'[t])
<1>0. /\ TypeOK /\ Numbered /\ FeedsOrdered /\ mirror \in [Tabs -> Seq(Trace)]
      /\ DistinctIds(mirror[t])
  BY DEF StreamInv, TypeOK, PagesDistinct
<1>1. mirror'[t] = AllApplied(mirror[t], New(s, from))
  BY <1>0 DEF Sends, New
<1>2. mirror[t] \in Seq(Trace)
  BY <1>0
<1>3. /\ New(s, from) \in Seq(Trace) /\ s \in Sessions
      /\ ToSet(feeds'[s]) \subseteq ToSet(feeds[s])
      /\ ToSet(New(s, from)) \subseteq ToSet(feeds[s])
      /\ \A i \in DOMAIN feeds'[s] : i > from => feeds'[s][i] \in ToSet(New(s, from))
  BY SendsNew
<1>4. /\ mirror'[t] \in Seq(Trace) /\ DistinctIds(mirror'[t])
      /\ ToSet(mirror'[t]) \subseteq ToSet(mirror[t]) \cup ToSet(New(s, from))
  BY <1>0, <1>1, <1>2, <1>3, AllAppliedFacts
<1>5. ASSUME NEW i \in DOMAIN feeds'[s],
             i > from \/ feeds'[s][i] \in ToSet(mirror[t])
      PROVE  feeds'[s][i] \in ToSet(mirror'[t])
  <2> DEFINE y == feeds'[s][i]
  <2>1. y \in ToSet(feeds[s])
    BY <1>3 DEF ToSet
  <2>2. y \in ToSet(mirror[t]) \cup ToSet(New(s, from))
    BY <1>3, <1>5
  <2>3. \A x \in ToSet(New(s, from)) : x.id = y.id => x = y
    BY <1>0, <1>3, <2>1, FeedFacts
  <2> HIDE DEF y
  <2>4. y \in ToSet(AllApplied(mirror[t], New(s, from)))
    BY <1>2, <1>3, <2>2, <2>3, AllAppliedKeeps
  <2>. QED BY <1>1, <2>4 DEF y
<1>. QED BY <1>1, <1>3, <1>4, <1>5

\* What a trace that is made has in it.
LEMMA MakesFacts ==
    ASSUME StreamInv, NEW s \in Sessions, NEW new \in Trace, Makes(s, new)
    PROVE  /\ new.of = s /\ new.eval = done + 1 /\ new.id = seq + 1
           /\ done \in Nat /\ seq \in Nat /\ s \in Current /\ s <= created
           /\ \A x \in Known : x.eval < new.eval
           /\ ToSet(feeds'[s]) \subseteq ToSet(feeds[s]) \cup {new}
           /\ \A r \in Sessions : r # s => feeds'[r] \in {feeds[r], <<>>}
           /\ feeds' \in [Sessions -> Seq(Trace)]
<1>1. /\ new.of = s /\ new.eval = done + 1 /\ new.id = seq + 1
      /\ s \in pending
  BY DEF Makes
<1>2. /\ done \in Nat /\ seq \in Nat /\ created \in Nat /\ pending \subseteq 1 .. created
      /\ TypeOK /\ feeds \in [Sessions -> Seq(Trace)]
  BY BoundsAssumption DEF StreamInv, TypeOK
<1>3. \A x \in Known : x.eval < new.eval
  BY <1>1, <1>2, InKnown DEF StreamInv, Numbered
<1>4. ToSet(feeds'[s]) \subseteq ToSet(feeds[s]) \cup {new}
  <2>1. feeds'[s] \in {<<new>>, feeds[s] \o <<new>>}
    BY DEF Makes, Stored
  <2>2. feeds[s] \o <<new>> = Append(feeds[s], new)
    BY <1>2
  <2>3. ToSet(<<new>>) \subseteq {new}
    BY DEF ToSet
  <2>4. ToSet(Append(feeds[s], new)) \subseteq ToSet(feeds[s]) \cup {new}
    <3>1. /\ DOMAIN Append(feeds[s], new) = 1 .. Len(feeds[s]) + 1
          /\ Append(feeds[s], new)[Len(feeds[s]) + 1] = new
          /\ DOMAIN feeds[s] = 1 .. Len(feeds[s]) /\ Len(feeds[s]) \in Nat
          /\ \A i \in DOMAIN feeds[s] : Append(feeds[s], new)[i] = feeds[s][i]
      BY <1>2
    <3>. QED BY <3>1 DEF ToSet
  <2>. QED BY <2>1, <2>2, <2>3, <2>4
<1>. QED BY <1>1, <1>2, <1>3, <1>4 DEF Makes, Stored, Current

-----------------------------------------------------------------------------
(* The invariant is inductive *)

LEMMA InitInv == Init => StreamInv
<1> SUFFICES ASSUME Init PROVE StreamInv
  OBVIOUS
<1>1. /\ feeds = [s \in Sessions |-> <<>>] /\ mirror = [t \in Tabs |-> <<>>]
      /\ <<>> \in Seq(Trace) /\ <<>> \in Seq(Sessions) /\ ToSet(<<>>) = {}
      /\ 0 .. 0 = {0} /\ Len(<<>>) = 0 /\ IsInjective(<<>>) /\ Limit \in Nat
  BY LimitAssumption DEF Init, ToSet, IsInjective
<1>2. TypeOK
  BY <1>1, BoundsAssumption DEF Init, TypeOK
<1>3. Known = {}
  BY <1>1 DEF Known
<1>4. Numbered
  BY <1>3 DEF Init, Numbered
<1>5. /\ \A s \in Sessions : feeds[s] = <<>>
      /\ \A t \in Tabs : mirror[t] = <<>> /\ sid[t] = 0 /\ conn[t] = "none"
  BY <1>1 DEF Init
<1>6. FeedsOrdered
  BY <1>5 DEF FeedsOrdered, Ordered
<1>7. PagesDistinct
  BY <1>5 DEF PagesDistinct, DistinctIds
<1>8. PagesOrdered
  BY <1>5 DEF PagesOrdered, Ordered
<1>9. StreamsKept /\ NothingSkipped
  BY <1>5 DEF StreamsKept, NothingSkipped, Kept
<1>. QED BY <1>2, <1>4, <1>6, <1>7, <1>8, <1>9 DEF StreamInv

LEMMA TypeStep ==
    ASSUME StreamInv, [Next]_vars
    PROVE  TypeOK'
<1>0. /\ created \in 0 .. MaxSessions /\ live \subseteq 1 .. created
      /\ cookie \in 0 .. created /\ pending \subseteq 1 .. created
      /\ done \in 0 .. MaxTraces /\ seq \in 0 .. done
      /\ recent \in Seq(Sessions) /\ Len(recent) <= Limit /\ IsInjective(recent)
      /\ feeds \in [Sessions -> Seq(Trace)]
      /\ \A s \in Sessions : s \notin ToSet(recent) => feeds[s] = <<>>
      /\ conn \in [Tabs -> {"none", "connecting", "open"}]
      /\ sid \in [Tabs -> 0 .. created] /\ lastSent \in [Tabs -> 0 .. MaxTraces]
      /\ mirror \in [Tabs -> Seq(Trace)] /\ seen \in [Tabs -> SUBSET Sessions]
      /\ evicted \subseteq Sessions /\ restarts \in 0 .. MaxRestarts
      /\ \A t \in Tabs : sid[t] # 0 <=> conn[t] = "open"
      /\ \A t \in Tabs : conn[t] # "open" => lastSent[t] = 0
  BY DEF StreamInv, TypeOK
<1>1. Sessions = 1 .. MaxSessions /\ MaxSessions \in Nat /\ MaxTraces \in Nat
      /\ MaxRestarts \in Nat /\ Limit \in Nat
  BY BoundsAssumption, LimitAssumption DEF Sessions
<1>2. ASSUME NEW t \in Tabs, NEW s \in 1 .. created, NEW from \in Nat, Sends(t, s, from)
      PROVE  TypeOK'
  <2>1. s \in Sessions /\ s # 0 /\ s \in 0 .. created
    BY <1>0, <1>1
  <2>2. /\ recent' \in Seq(Sessions) /\ Len(recent') <= Limit /\ IsInjective(recent')
        /\ feeds' \in [Sessions -> Seq(Trace)] /\ evicted' \subseteq Sessions
        /\ \A r \in Sessions : r \notin ToSet(recent') => feeds'[r] = <<>>
    BY <1>2 DEF Sends, Stored
  <2>3. mirror' \in [Tabs -> Seq(Trace)]
    <3>1. mirror'[t] \in Seq(Trace)
      BY <1>2, SendsPage
    <3>2. mirror' = [mirror EXCEPT ![t] = mirror'[t]]
      BY <1>0, <1>2 DEF Sends
    <3>. QED BY <1>0, <3>1, <3>2
  <2>4. Len(feeds'[s]) \in 0 .. MaxTraces
    BY <1>0, <1>1, <1>2, SendsNew
  <2>5. /\ conn' = [conn EXCEPT ![t] = "open"] /\ sid' = [sid EXCEPT ![t] = s]
        /\ seen' = [seen EXCEPT ![t] = @ \cup {s}]
        /\ lastSent' = [lastSent EXCEPT ![t] = Len(feeds'[s])]
        /\ UNCHANGED <<created, live, cookie, pending, seq, done, restarts>>
    BY <1>2 DEF Sends, server, provider
  <2>. QED BY <1>0, <2>1, <2>2, <2>3, <2>4, <2>5 DEF TypeOK
<1>3. ASSUME NEW s \in Sessions, NEW new \in Trace, Makes(s, new) PROVE TypeOK'
  <2>1. /\ recent' \in Seq(Sessions) /\ Len(recent') <= Limit /\ IsInjective(recent')
        /\ feeds' \in [Sessions -> Seq(Trace)] /\ evicted' \subseteq Sessions
        /\ \A r \in Sessions : r \notin ToSet(recent') => feeds'[r] = <<>>
    BY <1>3 DEF Makes, Stored
  <2>2. done + 1 \in 0 .. MaxTraces /\ seq + 1 \in 0 .. done + 1
    <3>1. new.eval = done + 1
      BY <1>3, MakesFacts
    <3>. QED BY <1>0, <1>1, <3>1 DEF Trace
  <2>3. /\ pending' = pending \ {s} /\ seq' = seq + 1 /\ done' = done + 1
        /\ UNCHANGED <<created, live, cookie, conn, sid, lastSent, mirror, seen, restarts>>
    BY <1>3 DEF Makes, server, pages
  <2>. QED BY <1>0, <2>1, <2>2, <2>3 DEF TypeOK
<1>4. CASE Leaves
  <2>1. /\ UNCHANGED <<recent, feeds, evicted, seq, done, restarts>>
        /\ cookie' \in {cookie, created'}
    BY <1>4 DEF Leaves, store
  <2>2. /\ created' \in 0 .. MaxSessions /\ 0 .. created \subseteq 0 .. created'
        /\ live' \subseteq 1 .. created' /\ pending' \subseteq 1 .. created'
    <3>1. CASE created' = created /\ live' \subseteq live /\ pending' \subseteq pending \cup live
      BY <1>0, <3>1
    <3>2. CASE /\ created < MaxSessions /\ created' = created + 1
               /\ live' = live \cup {created'} /\ pending' = pending
      <4>1. created + 1 \in 0 .. MaxSessions /\ 1 .. created \subseteq 1 .. created + 1
            /\ created + 1 \in 1 .. created + 1 /\ 0 .. created \subseteq 0 .. created + 1
        BY <1>0, <1>1, <3>2
      <4>. QED BY <1>0, <3>2, <4>1
    <3>. QED BY <1>4, <3>1, <3>2 DEF Leaves
  <2>3. cookie' \in 0 .. created'
    <3>1. created' \in 0 .. created'
      BY <1>1, <2>2
    <3>. QED BY <1>0, <2>1, <2>2, <3>1
  <2>4. \A t \in Tabs : /\ sid'[t] \in 0 .. created'
                        /\ lastSent'[t] \in 0 .. MaxTraces
                        /\ sid'[t] # 0 <=> conn'[t] = "open"
                        /\ conn'[t] # "open" => lastSent'[t] = 0
    <3> SUFFICES ASSUME NEW t \in Tabs
                 PROVE  /\ sid'[t] \in 0 .. created'
                        /\ lastSent'[t] \in 0 .. MaxTraces
                        /\ sid'[t] # 0 <=> conn'[t] = "open"
                        /\ conn'[t] # "open" => lastSent'[t] = 0
      OBVIOUS
    <3>0. sid[t] \in 0 .. created /\ lastSent[t] \in 0 .. MaxTraces
      BY <1>0
    <3>1. /\ sid[t] \in 0 .. created' /\ lastSent[t] \in 0 .. MaxTraces
          /\ 0 \in 0 .. created' /\ 0 \in 0 .. MaxTraces
      BY <1>1, <2>2, <3>0
    <3>2. \/ conn'[t] = conn[t] /\ sid'[t] = sid[t] /\ lastSent'[t] = lastSent[t]
          \/ conn'[t] # "open" /\ sid'[t] = 0 /\ lastSent'[t] = 0
      BY <1>4 DEF Leaves
    <3>. QED BY <1>0, <3>1, <3>2
  <2>5. /\ conn' \in [Tabs -> {"none", "connecting", "open"}]
        /\ mirror' \in [Tabs -> Seq(Trace)] /\ seen' \in [Tabs -> SUBSET Sessions]
        /\ sid' \in [Tabs -> Nat] /\ lastSent' \in [Tabs -> Nat]
    BY <1>4 DEF Leaves
  <2>6. sid' \in [Tabs -> 0 .. created'] /\ lastSent' \in [Tabs -> 0 .. MaxTraces]
    BY <2>4, <2>5
  <2>. QED BY <1>0, <2>1, <2>2, <2>3, <2>4, <2>5, <2>6 DEF TypeOK
<1>5. CASE Restart
  <2>1. /\ created' = created /\ cookie' = cookie /\ done' = done /\ evicted' = evicted
        /\ mirror' = mirror /\ seen' = seen /\ live' = {} /\ pending' = {} /\ seq' = 0
        /\ recent' = <<>> /\ feeds' = [s \in Sessions |-> <<>>]
        /\ conn' = [t \in Tabs |-> IF conn[t] = "open" THEN "connecting" ELSE conn[t]]
        /\ sid' = [t \in Tabs |-> 0] /\ lastSent' = [t \in Tabs |-> 0]
        /\ restarts' \in 0 .. MaxRestarts
    BY <1>0, <1>1, <1>5 DEF Restart
  <2>2. /\ <<>> \in Seq(Sessions) /\ Len(<<>>) <= Limit /\ IsInjective(<<>>)
        /\ <<>> \in Seq(Trace)
    BY <1>1 DEF IsInjective
  <2>. QED BY <1>0, <1>1, <2>1, <2>2 DEF TypeOK
<1>. QED BY <1>2, <1>3, <1>4, <1>5, Kinds DEF StreamInv

\* What becomes of a page when its stream ends, or when it is loaded.
LEMMA LeavesPages ==
    ASSUME TypeOK, Leaves, NEW t \in Tabs
    PROVE  \/ /\ conn'[t] = conn[t] /\ sid'[t] = sid[t] /\ lastSent'[t] = lastSent[t]
              /\ mirror'[t] = mirror[t] /\ seen'[t] = seen[t]
           \/ /\ conn'[t] # "open" /\ sid'[t] = 0 /\ lastSent'[t] = 0
              /\ \/ mirror'[t] = mirror[t] /\ seen'[t] = seen[t]
                 \/ mirror'[t] = <<>> /\ seen'[t] = {}
BY DEF Leaves

\* No step but an answer makes a trace.
LEMMA KnownSends ==
    ASSUME StreamInv, NEW t \in Tabs, NEW s \in 1 .. created, NEW from \in Nat,
           Sends(t, s, from)
    PROVE  Known' \subseteq Known /\ Current' \subseteq Current
<1>1. TypeOK /\ s \in Sessions /\ mirror \in [Tabs -> Seq(Trace)]
  BY SendsNew DEF StreamInv, TypeOK
<1>2. \A r \in Sessions : feeds'[r] \in {feeds[r], <<>>}
  BY <1>1, StoredKeeps DEF Sends
<1>3. \A u \in Tabs : u # t => mirror'[u] = mirror[u]
  BY <1>1 DEF Sends
<1>4. ToSet(mirror'[t]) \subseteq ToSet(mirror[t]) \cup ToSet(feeds[s])
  BY SendsPage
<1>5. ToSet(<<>>) = {}
  BY DEF ToSet
<1>6. Known' \subseteq Known
  <2> SUFFICES ASSUME NEW x \in Known' PROVE x \in Known
    OBVIOUS
  <2>1. /\ x \in Trace
        /\ \/ \E r \in Sessions : x \in ToSet(feeds'[r])
           \/ \E u \in Tabs : x \in ToSet(mirror'[u])
    BY DEF Known, ToSet, Trace
  <2>2. CASE \E r \in Sessions : x \in ToSet(feeds'[r])
    <3>1. \E r \in Sessions : x \in ToSet(feeds[r])
      BY <1>2, <1>5, <2>2
    <3>. QED BY <2>1, <3>1 DEF Known
  <2>3. CASE \E u \in Tabs : x \in ToSet(mirror'[u])
    <3>1. PICK u \in Tabs : x \in ToSet(mirror'[u])
      BY <2>3
    <3>2. x \in ToSet(mirror[u]) \/ x \in ToSet(feeds[s])
      BY <1>3, <1>4, <3>1
    <3>. QED BY <1>1, <2>1, <3>2 DEF Known
  <2>. QED BY <2>1, <2>2, <2>3
<1>7. Current' \subseteq Current
  BY <1>2 DEF Current, Sends, server, provider, Sessions
<1>. QED BY <1>6, <1>7

LEMMA KnownMakes ==
    ASSUME StreamInv, NEW s \in Sessions, NEW new \in Trace, Makes(s, new)
    PROVE  Known' \subseteq Known \cup {new} /\ Current' \subseteq Current
<1>1. mirror' = mirror /\ live' = live /\ pending' = pending \ {s}
  BY DEF Makes, pages, server
<1>2. /\ s \in Current /\ ToSet(feeds'[s]) \subseteq ToSet(feeds[s]) \cup {new}
      /\ \A r \in Sessions : r # s => feeds'[r] \in {feeds[r], <<>>}
  BY MakesFacts
<1>3. ToSet(<<>>) = {}
  BY DEF ToSet
<1>4. ASSUME NEW x \in Known' PROVE x \in Known \cup {new}
  <2>1. /\ x \in Trace
        /\ \/ \E r \in Sessions : x \in ToSet(feeds'[r])
           \/ \E u \in Tabs : x \in ToSet(mirror'[u])
    BY DEF Known, ToSet, Trace
  <2>2. CASE \E r \in Sessions : x \in ToSet(feeds'[r])
    <3>1. (\E r \in Sessions : x \in ToSet(feeds[r])) \/ x = new
      BY <1>2, <1>3, <2>2
    <3>. QED BY <2>1, <3>1 DEF Known
  <2>3. CASE \E u \in Tabs : x \in ToSet(mirror'[u])
    BY <1>1, <2>1, <2>3 DEF Known
  <2>. QED BY <2>1, <2>2, <2>3
<1>5. Current' \subseteq Current
  BY <1>1, <1>2 DEF Current, Sessions
<1>. QED BY <1>4, <1>5

LEMMA KnownLeaves ==
    ASSUME StreamInv, Leaves \/ Restart
    PROVE  Known' \subseteq Known
<1>1. TypeOK
  BY DEF StreamInv
<1>2. ToSet(<<>>) = {}
  BY DEF ToSet
<1>3. \A r \in Sessions : feeds'[r] \in {feeds[r], <<>>}
  BY DEF Leaves, Restart, store
<1>4. \A t \in Tabs : mirror'[t] \in {mirror[t], <<>>}
  BY <1>1, LeavesPages DEF Restart
<1>5. ASSUME NEW x \in Known' PROVE x \in Known
  <2>1. /\ x \in Trace
        /\ \/ \E r \in Sessions : x \in ToSet(feeds'[r])
           \/ \E u \in Tabs : x \in ToSet(mirror'[u])
    BY DEF Known, ToSet, Trace
  <2>2. \/ \E r \in Sessions : x \in ToSet(feeds[r])
        \/ \E u \in Tabs : x \in ToSet(mirror[u])
    BY <1>2, <1>3, <1>4, <2>1
  <2>. QED BY <2>1, <2>2 DEF Known
<1>. QED BY <1>5

LEMMA NumberedStep ==
    ASSUME StreamInv, [Next]_vars
    PROVE  Numbered'
<1>0. /\ TypeOK /\ PagesDistinct /\ created \in Nat /\ done \in Nat /\ seq \in Nat
      /\ MaxTraces \in Nat /\ restarts \in Nat
  BY BoundsAssumption DEF StreamInv, TypeOK
<1>1. /\ \A x \in Known : x.eval <= done /\ x.of <= created
      /\ \A x, y \in Known : x.eval = y.eval => x = y
      /\ \A x, y \in Known : x.of = y.of => x.eval + y.id = y.eval + x.id
      /\ \A x \in Known : x.of \in Current => x.eval + seq = done + x.id
      /\ restarts = 0 => seq = done /\ \A x \in Known : x.id = x.eval
      /\ \A x \in Known : x.id \in Nat /\ x.eval \in Nat /\ x.of \in Nat
  <2>1. \A x \in Known : x.id \in Nat /\ x.eval \in Nat /\ x.of \in Nat
    BY <1>0, InKnown DEF Sessions
  <2>. QED BY <2>1 DEF StreamInv, Numbered
<1>2. ASSUME Known' \subseteq Known, UNCHANGED <<done, seq, restarts>>,
             created' \in {created, created + 1},
             \A x \in Known' : x.of \in Current' => x.of \in Current
      PROVE  Numbered'
  BY <1>0, <1>1, <1>2 DEF Numbered
<1>3. ASSUME NEW t \in Tabs, NEW s \in 1 .. created, NEW from \in Nat, Sends(t, s, from)
      PROVE  Numbered'
  BY <1>2, <1>3, KnownSends DEF Sends, server, provider
<1>4. ASSUME NEW s \in Sessions, NEW new \in Trace, Makes(s, new) PROVE Numbered'
  <2>1. Known' \subseteq Known \cup {new} /\ Current' \subseteq Current
    BY <1>4, KnownMakes
  <2>2. /\ new.of = s /\ new.eval = done + 1 /\ new.id = seq + 1
        /\ s \in Current /\ s <= created
        /\ \A x \in Known : x.eval < new.eval
    BY <1>4, MakesFacts
  <2>3. seq' = seq + 1 /\ done' = done + 1 /\ created' = created /\ restarts' = restarts
    BY <1>4 DEF Makes, server
  <2>4. \A x \in Known' : x.eval <= done' /\ x.of <= created'
    BY <1>0, <1>1, <2>1, <2>2, <2>3
  <2>5. \A x, y \in Known' : x.eval = y.eval => x = y
    BY <1>0, <1>1, <2>1, <2>2
  <2>6. \A x \in Known : x.of = s => x.eval + new.id = new.eval + x.id
    BY <1>0, <1>1, <2>2
  <2>7. \A x, y \in Known' : x.of = y.of => x.eval + y.id = y.eval + x.id
    BY <1>0, <1>1, <2>1, <2>2, <2>6
  <2>8. \A x \in Known' : x.of \in Current' => x.eval + seq' = done' + x.id
    BY <1>0, <1>1, <2>1, <2>2, <2>3
  <2>9. restarts' = 0 => seq' = done' /\ \A x \in Known' : x.id = x.eval
    BY <1>0, <1>1, <2>1, <2>2, <2>3
  <2>. QED BY <2>4, <2>5, <2>7, <2>8, <2>9 DEF Numbered
<1>5. CASE Leaves
  <2>1. Known' \subseteq Known
    BY <1>5, KnownLeaves
  <2>2. UNCHANGED <<done, seq, restarts, feeds>> /\ created' \in {created, created + 1}
    BY <1>5 DEF Leaves, store
  <2>3. Current' \subseteq Current \cup {created + 1}
    BY <1>5, <2>2 DEF Leaves, Current, Sessions
  <2>4. \A x \in Known' : x.of # created + 1
    BY <1>0, <1>1, <2>1
  <2>. QED BY <1>2, <2>1, <2>2, <2>3, <2>4
<1>6. CASE Restart
  <2>1. Known' \subseteq Known
    BY <1>6, KnownLeaves
  <2>2. created' = created /\ done' = done /\ restarts' = restarts + 1
    BY <1>6 DEF Restart
  <2>3. Current' = {}
    BY <1>6 DEF Restart, Current, Sessions
  <2>. QED BY <1>0, <1>1, <2>1, <2>2, <2>3 DEF Numbered
<1>. QED BY <1>0, <1>3, <1>4, <1>5, <1>6, Kinds

LEMMA FeedsOrderedStep ==
    ASSUME StreamInv, [Next]_vars
    PROVE  FeedsOrdered'
<1>0. /\ TypeOK /\ PagesDistinct /\ FeedsOrdered /\ Numbered
      /\ feeds \in [Sessions -> Seq(Trace)]
  BY DEF StreamInv, TypeOK
<1>1. ASSUME NEW r \in Sessions, feeds'[r] \in {feeds[r], <<>>}
      PROVE  /\ Ordered(feeds'[r])
             /\ \A i \in DOMAIN feeds'[r] : feeds'[r][i].of = r /\ i <= feeds'[r][i].eval
  BY <1>0, <1>1 DEF FeedsOrdered, Ordered
<1>2. CASE \A r \in Sessions : feeds'[r] \in {feeds[r], <<>>}
  BY <1>1, <1>2 DEF FeedsOrdered, Sessions, Ordered
<1>3. ASSUME NEW s \in Sessions, NEW new \in Trace, Makes(s, new) PROVE FeedsOrdered'
  <2>1. /\ new.of = s /\ new.eval = done + 1 /\ done \in Nat
        /\ \A x \in Known : x.eval < new.eval
        /\ \A r \in Sessions : r # s => feeds'[r] \in {feeds[r], <<>>}
    BY <1>3, MakesFacts
  <2> DEFINE old == feeds[s]
  <2>2. /\ old \in Seq(Trace) /\ Ordered(old) /\ Len(old) \in 0 .. done
        /\ \A i \in DOMAIN old : old[i].of = s /\ i <= old[i].eval
    BY <1>0, FeedFacts DEF FeedsOrdered
  <2>3. \A i \in DOMAIN old : old[i].eval < new.eval
    BY <1>0, <2>1, <2>2, InKnown DEF ToSet
  <2>4. feeds'[s] \in {<<new>>, Append(old, new)}
    <3>1. feeds'[s] \in {<<new>>, old \o <<new>>}
      BY <1>3 DEF Makes, Stored
    <3>2. old \o <<new>> = Append(old, new)
      BY <2>2
    <3>. QED BY <3>1, <3>2
  <2> HIDE DEF old
  <2>5. /\ DOMAIN Append(old, new) = 1 .. Len(old) + 1 /\ DOMAIN old = 1 .. Len(old)
        /\ Len(old) \in Nat /\ Append(old, new)[Len(old) + 1] = new
        /\ \A i \in DOMAIN old : Append(old, new)[i] = old[i]
    BY <2>2
  <2>6. Ordered(Append(old, new))
    <3>1. SUFFICES ASSUME NEW i \in DOMAIN Append(old, new),
                          NEW j \in DOMAIN Append(old, new), i < j
                   PROVE  Append(old, new)[i].eval < Append(old, new)[j].eval
      BY DEF Ordered
    <3>2. i \in DOMAIN old
      BY <2>5, <3>1
    <3>3. CASE j \in DOMAIN old
      BY <2>2, <2>5, <3>1, <3>2, <3>3 DEF Ordered
    <3>4. CASE j = Len(old) + 1
      BY <2>3, <2>5, <3>2, <3>4
    <3>. QED BY <2>5, <3>3, <3>4
  <2>7. \A i \in DOMAIN Append(old, new) :
           Append(old, new)[i].of = s /\ i <= Append(old, new)[i].eval
    BY <2>1, <2>2, <2>5
  <2>8. /\ Ordered(<<new>>) /\ DOMAIN <<new>> = {1} /\ <<new>>[1] = new
        /\ 1 <= new.eval
    BY <2>1 DEF Ordered
  <2>9. /\ Ordered(feeds'[s])
        /\ \A i \in DOMAIN feeds'[s] : feeds'[s][i].of = s /\ i <= feeds'[s][i].eval
    BY <2>1, <2>4, <2>6, <2>7, <2>8
  <2>. QED BY <1>1, <2>1, <2>9 DEF FeedsOrdered, Sessions, Ordered
<1>4. ASSUME NEW t \in Tabs, NEW s \in 1 .. created, NEW from \in Nat, Sends(t, s, from)
      PROVE  FeedsOrdered'
  <2>1. s \in Sessions
    BY <1>4, SendsNew
  <2>. QED BY <1>0, <1>2, <1>4, <2>1, StoredKeeps DEF Sends
<1>5. CASE Leaves \/ Restart
  <2>1. \A r \in Sessions : feeds'[r] \in {feeds[r], <<>>}
    BY <1>5 DEF Leaves, Restart, store
  <2>. QED BY <1>2, <2>1
<1>. QED BY <1>0, <1>3, <1>4, <1>5, Kinds

LEMMA PagesDistinctStep ==
    ASSUME StreamInv, [Next]_vars
    PROVE  PagesDistinct'
<1>0. /\ TypeOK /\ PagesDistinct /\ FeedsOrdered /\ Numbered
      /\ mirror \in [Tabs -> Seq(Trace)] /\ seen \in [Tabs -> SUBSET Sessions]
      /\ sid \in [Tabs -> 0 .. created] /\ conn \in [Tabs -> {"none", "connecting", "open"}]
  BY DEF StreamInv, TypeOK
<1>1. ASSUME NEW t \in Tabs, NEW s \in 1 .. created, NEW from \in Nat, Sends(t, s, from)
      PROVE  PagesDistinct'
  <2>1. /\ mirror'[t] \in Seq(Trace) /\ DistinctIds(mirror'[t])
        /\ ToSet(mirror'[t]) \subseteq ToSet(mirror[t]) \cup ToSet(feeds[s])
    BY <1>1, SendsPage
  <2>2. s \in Sessions
    BY <1>1, SendsNew
  <2>3. /\ seen'[t] = seen[t] \cup {s} /\ sid'[t] = s
        /\ \A u \in Tabs : u # t =>
              seen'[u] = seen[u] /\ sid'[u] = sid[u] /\ mirror'[u] = mirror[u]
    BY <1>0, <1>1 DEF Sends
  <2>4. \A x \in ToSet(mirror'[t]) : x.of \in seen'[t]
    <3>1. \A x \in ToSet(mirror[t]) : x.of \in seen[t]
      BY <1>0 DEF PagesDistinct, ToSet
    <3>2. \A x \in ToSet(feeds[s]) : x.of = s
      BY <1>0, <2>2, FeedFacts
    <3>. QED BY <2>1, <2>3, <3>1, <3>2
  <2>5. \A i \in DOMAIN mirror'[t] : mirror'[t][i].of \in seen'[t]
    BY <2>4 DEF ToSet
  <2>. QED BY <1>0, <2>1, <2>3, <2>5 DEF PagesDistinct
<1>2. ASSUME NEW s \in Sessions, NEW new \in Trace, Makes(s, new) PROVE PagesDistinct'
  BY <1>0, <1>2 DEF Makes, pages, PagesDistinct
<1>3. CASE Leaves
  <2> SUFFICES ASSUME NEW t \in Tabs
               PROVE  /\ DistinctIds(mirror'[t])
                      /\ \A i \in DOMAIN mirror'[t] : mirror'[t][i].of \in seen'[t]
                      /\ sid'[t] # 0 => sid'[t] \in seen'[t]
    BY DEF PagesDistinct
  <2>1. DOMAIN <<>> = {}
    OBVIOUS
  <2>2. \/ sid'[t] = sid[t] /\ mirror'[t] = mirror[t] /\ seen'[t] = seen[t]
        \/ /\ sid'[t] = 0
           /\ \/ mirror'[t] = mirror[t] /\ seen'[t] = seen[t]
              \/ mirror'[t] = <<>> /\ seen'[t] = {}
    BY <1>0, <1>3, LeavesPages
  <2>. QED BY <1>0, <2>1, <2>2 DEF PagesDistinct, DistinctIds
<1>4. CASE Restart
  BY <1>0, <1>4 DEF Restart, PagesDistinct
<1>. QED BY <1>0, <1>1, <1>2, <1>3, <1>4, Kinds

\* A stream sends no less than its page lacks, if its feed was never dropped for the
\* limit.
LEMMA SentIsShown ==
    ASSUME StreamInv, NEW t \in Tabs, NEW s \in 1 .. created, NEW from \in Nat,
           Sends(t, s, from), s \notin evicted'
    PROVE  \A i \in DOMAIN feeds'[s] : feeds'[s][i] \in ToSet(mirror'[t])
<1>1. SUFFICES ASSUME NEW i \in DOMAIN feeds'[s]
               PROVE  i > from \/ feeds'[s][i] \in ToSet(mirror[t])
  BY SendsPage
<1>2. /\ s \in Sessions /\ feeds'[s] \in Seq(Trace) /\ TypeOK
      /\ s \notin evicted
  BY SendsNew DEF StreamInv, Sends, Stored
<1>3. feeds'[s] \in {feeds[s], <<>>}
  BY <1>2, StoredKeeps DEF Sends
<1>4. feeds'[s] = feeds[s] /\ i \in Nat /\ i >= 1
  BY <1>1, <1>2, <1>3
<1>5. CASE from = 0
  BY <1>4, <1>5
<1>6. CASE conn[t] = "open" /\ sid[t] = s /\ from = lastSent[t]
  <2>1. \A k \in 1 .. from : feeds[s][k] \in ToSet(mirror[t])
    BY <1>2, <1>6 DEF StreamInv, NothingSkipped, Kept
  <2>. QED BY <1>4, <2>1
<1>. QED BY <1>5, <1>6 DEF Sends

\* What the uses of a feed leave of the feeds of other streams.
LEMMA OtherStreams ==
    ASSUME StreamInv, NEW s \in Sessions, NEW traces \in Seq(Trace), Stored(s, traces),
           NEW u \in Tabs, conn[u] = "open", sid[u] \notin evicted'
    PROVE  /\ Kept(u) /\ sid[u] \in Sessions /\ sid[u] \in ToSet(recent')
           /\ feeds'[sid[u]] = IF sid[u] = s THEN feeds[s] \o traces ELSE feeds[sid[u]]
<1>1. /\ evicted \subseteq evicted' /\ recent \in Seq(Sessions)
  BY DEF Stored, StreamInv, TypeOK
<1>2. Kept(u) /\ Streamed(sid[u])
  BY <1>1 DEF Kept, Streamed
<1>3. sid[u] \in ToSet(recent)
  BY <1>2 DEF StreamInv, StreamsKept
<1>4. sid[u] \in Sessions
  BY <1>1, <1>3 DEF ToSet
<1>. QED BY <1>2, <1>3, <1>4 DEF Stored

LEMMA PagesOrderedStep ==
    ASSUME StreamInv, [Next]_vars
    PROVE  PagesOrdered'
<1>0. /\ TypeOK /\ PagesDistinct /\ FeedsOrdered /\ Numbered /\ PagesOrdered
      /\ mirror \in [Tabs -> Seq(Trace)] /\ seen \in [Tabs -> SUBSET Sessions]
      /\ feeds \in [Sessions -> Seq(Trace)]
  BY DEF StreamInv, TypeOK
<1> SUFFICES ASSUME NEW u \in Tabs, NEW r \in Sessions,
                    seen'[u] \subseteq {r}, r \notin evicted'
             PROVE  /\ Ordered(mirror'[u])
                    /\ \A i \in DOMAIN feeds'[r] :
                          \/ feeds'[r][i] \in ToSet(mirror'[u])
                          \/ \A j \in DOMAIN mirror'[u] :
                                mirror'[u][j].eval < feeds'[r][i].eval
  BY DEF PagesOrdered, Sessions, Ordered, ToSet
<1>1. ASSUME seen[u] \subseteq {r}, r \notin evicted
      PROVE  /\ Ordered(mirror[u])
             /\ \A i \in DOMAIN feeds[r] :
                   \/ feeds[r][i] \in ToSet(mirror[u])
                   \/ \A j \in DOMAIN mirror[u] : mirror[u][j].eval < feeds[r][i].eval
  BY <1>0, <1>1 DEF PagesOrdered
<1>2. ASSUME NEW t \in Tabs, NEW s \in 1 .. created, NEW from \in Nat, Sends(t, s, from)
      PROVE  /\ Ordered(mirror'[u])
             /\ \A i \in DOMAIN feeds'[r] :
                   \/ feeds'[r][i] \in ToSet(mirror'[u])
                   \/ \A j \in DOMAIN mirror'[u] :
                         mirror'[u][j].eval < feeds'[r][i].eval
  <2>1. s \in Sessions /\ r \notin evicted
    BY <1>2, SendsNew DEF Sends, Stored
  <2>2. CASE u # t
    <3>1. mirror'[u] = mirror[u] /\ seen'[u] = seen[u]
      BY <1>0, <1>2, <2>2 DEF Sends
    <3>2. feeds'[r] \in {feeds[r], <<>>}
      BY <1>0, <1>2, <2>1, StoredKeeps DEF Sends
    <3>3. DOMAIN <<>> = {}
      OBVIOUS
    <3>. QED BY <1>1, <2>1, <3>1, <3>2, <3>3
  <2>3. CASE u = t
    <3>1. seen'[t] = seen[t] \cup {s}
      BY <1>0, <1>2 DEF Sends
    <3>2. s = r /\ seen[t] \subseteq {s} /\ s \notin evicted
      BY <2>1, <2>3, <3>1
    <3>3. \A i \in DOMAIN feeds'[s] : feeds'[s][i] \in ToSet(mirror'[t])
      BY <1>2, <3>2, SentIsShown
    <3> DEFINE shown == mirror[t]
               new == New(s, from)
    <3>4. /\ new \in Seq(Trace) /\ Ordered(new)
          /\ ToSet(new) \subseteq ToSet(feeds[s])
      BY <1>2, SendsNew
    <3>5. /\ mirror'[t] = AllApplied(shown, new) /\ shown \in Seq(Trace)
      BY <1>0, <1>2, SendsPage
    <3>6. /\ \A x \in ToSet(new) : x \in Known /\ x.of = s
          /\ \A x \in ToSet(shown) : x \in Known /\ x.of = s
      <4>1. \A x \in ToSet(shown) : x.of \in seen[t]
        BY <1>0 DEF PagesDistinct, ToSet
      <4>2. \A x \in ToSet(shown) : x \in Known
        BY <1>0, InKnown
      <4>3. \A x \in ToSet(feeds[s]) : x \in Known /\ x.of = s
        BY <1>0, <2>1, FeedFacts
      <4>. QED BY <3>2, <3>4, <4>1, <4>2, <4>3
    <3>7. Agree(shown, new)
      BY <1>0, <3>6, SameTrace DEF Agree
    <3>8. Ordered(shown)
      BY <1>1, <2>3, <3>2
    <3>9. \A x \in ToSet(feeds[s]) :
             x \in ToSet(shown) \/ \A j \in DOMAIN shown : shown[j].eval < x.eval
      <4>1. \A i \in DOMAIN feeds[s] :
               \/ feeds[s][i] \in ToSet(shown)
               \/ \A j \in DOMAIN shown : shown[j].eval < feeds[s][i].eval
        BY <1>1, <2>3, <3>2
      <4>. QED BY <4>1 DEF ToSet
    <3> HIDE DEF shown, new
    <3>10. \A i \in DOMAIN new :
              new[i] \in ToSet(shown) \/ \A j \in DOMAIN shown : shown[j].eval < new[i].eval
      BY <3>4, <3>9 DEF ToSet
    <3>11. Ordered(AllApplied(shown, new))
      BY <3>4, <3>5, <3>7, <3>8, <3>10, AllAppliedOrdered
    <3>. QED BY <2>3, <3>2, <3>3, <3>5, <3>11
  <2>. QED BY <2>2, <2>3
<1>3. ASSUME NEW s \in Sessions, NEW new \in Trace, Makes(s, new)
      PROVE  /\ Ordered(mirror'[u])
             /\ \A i \in DOMAIN feeds'[r] :
                   \/ feeds'[r][i] \in ToSet(mirror'[u])
                   \/ \A j \in DOMAIN mirror'[u] :
                         mirror'[u][j].eval < feeds'[r][i].eval
  <2>1. mirror' = mirror /\ seen' = seen /\ r \notin evicted
    BY <1>3 DEF Makes, pages, Stored
  <2>2. /\ \A x \in Known : x.eval < new.eval
        /\ ToSet(feeds'[s]) \subseteq ToSet(feeds[s]) \cup {new}
        /\ \A q \in Sessions : q # s => feeds'[q] \in {feeds[q], <<>>}
    BY <1>3, MakesFacts
  <2>3. ToSet(feeds'[r]) \subseteq ToSet(feeds[r]) \cup {new}
    <3>1. ToSet(<<>>) = {}
      BY DEF ToSet
    <3>. QED BY <2>2, <3>1
  <2>4. /\ Ordered(mirror[u])
        /\ \A i \in DOMAIN feeds[r] :
              \/ feeds[r][i] \in ToSet(mirror[u])
              \/ \A j \in DOMAIN mirror[u] : mirror[u][j].eval < feeds[r][i].eval
    BY <1>1, <2>1
  <2>5. \A x \in ToSet(feeds[r]) :
           x \in ToSet(mirror[u]) \/ \A j \in DOMAIN mirror[u] : mirror[u][j].eval < x.eval
    BY <2>4 DEF ToSet
  <2>6. \A j \in DOMAIN mirror[u] : mirror[u][j].eval < new.eval
    BY <1>0, <2>2, InKnown DEF ToSet
  <2>7. \A x \in ToSet(feeds'[r]) :
           x \in ToSet(mirror[u]) \/ \A j \in DOMAIN mirror[u] : mirror[u][j].eval < x.eval
    BY <2>3, <2>5, <2>6
  <2>. QED BY <2>1, <2>4, <2>7 DEF ToSet
<1>4. CASE Leaves
  <2>1. /\ feeds' = feeds /\ r \notin evicted
    BY <1>4 DEF Leaves, store
  <2>2. \/ mirror'[u] = mirror[u] /\ seen'[u] = seen[u]
        \/ mirror'[u] = <<>>
    BY <1>0, <1>4, LeavesPages
  <2>3. DOMAIN <<>> = {}
    OBVIOUS
  <2>. QED BY <1>1, <2>1, <2>2, <2>3 DEF Ordered
<1>5. CASE Restart
  <2>1. mirror' = mirror /\ seen' = seen /\ evicted' = evicted /\ feeds'[r] = <<>>
    BY <1>5 DEF Restart
  <2>2. DOMAIN <<>> = {}
    OBVIOUS
  <2>. QED BY <1>1, <2>1, <2>2
<1>. QED BY <1>0, <1>2, <1>3, <1>4, <1>5, Kinds

LEMMA StreamsStep ==
    ASSUME StreamInv, [Next]_vars
    PROVE  StreamsKept' /\ NothingSkipped'
<1>0. /\ TypeOK /\ PagesDistinct /\ feeds \in [Sessions -> Seq(Trace)]
      /\ conn \in [Tabs -> {"none", "connecting", "open"}]
      /\ sid \in [Tabs -> 0 .. created] /\ lastSent \in [Tabs -> 0 .. MaxTraces]
      /\ mirror \in [Tabs -> Seq(Trace)] /\ MaxTraces \in Nat
  BY BoundsAssumption DEF StreamInv, TypeOK
<1> SUFFICES ASSUME NEW u \in Tabs, conn'[u] = "open", sid'[u] \notin evicted'
             PROVE  /\ sid'[u] \in ToSet(recent')
                    /\ lastSent'[u] <= Len(feeds'[sid'[u]])
                    /\ \A i \in 1 .. lastSent'[u] :
                          feeds'[sid'[u]][i] \in ToSet(mirror'[u])
  BY DEF StreamsKept, NothingSkipped, Kept, ToSet
<1>1. ASSUME Kept(u)
      PROVE  /\ sid[u] \in ToSet(recent)
             /\ lastSent[u] <= Len(feeds[sid[u]])
             /\ \A i \in 1 .. lastSent[u] : feeds[sid[u]][i] \in ToSet(mirror[u])
  BY <1>1 DEF StreamInv, StreamsKept, NothingSkipped
<1>2. ASSUME NEW t \in Tabs, NEW s \in 1 .. created, NEW from \in Nat, Sends(t, s, from)
      PROVE  /\ sid'[u] \in ToSet(recent')
             /\ lastSent'[u] <= Len(feeds'[sid'[u]])
             /\ \A i \in 1 .. lastSent'[u] : feeds'[sid'[u]][i] \in ToSet(mirror'[u])
  <2>0. <<>> \in Seq(Trace)
    OBVIOUS
  <2>1. s \in Sessions /\ feeds'[s] \in Seq(Trace) /\ Stored(s, <<>>)
    BY <1>2, SendsNew DEF Sends
  <2>2. CASE u = t
    <3>1. sid'[u] = s /\ lastSent'[u] = Len(feeds'[s])
      BY <1>0, <1>2, <2>2 DEF Sends
    <3>2. \A i \in DOMAIN feeds'[s] : feeds'[s][i] \in ToSet(mirror'[u])
      BY <1>2, <2>2, <3>1, SentIsShown
    <3>3. s \in ToSet(recent')
      BY <2>1 DEF Stored
    <3>. QED BY <2>1, <3>1, <3>2, <3>3
  <2>3. CASE u # t
    <3>1. /\ sid'[u] = sid[u] /\ conn'[u] = conn[u] /\ lastSent'[u] = lastSent[u]
          /\ mirror'[u] = mirror[u]
      BY <1>0, <1>2, <2>3 DEF Sends
    <3> DEFINE none == <<>>
    <3>2. conn[u] = "open" /\ sid[u] \notin evicted' /\ none \in Seq(Trace)
          /\ Stored(s, none)
      BY <2>0, <2>1, <3>1
    <3>3. feeds[s] \o none = feeds[s]
      BY <1>0, <2>1, ConcatEmptySeq
    <3> HIDE DEF none
    <3>4. /\ Kept(u) /\ sid[u] \in Sessions /\ sid[u] \in ToSet(recent')
          /\ feeds'[sid[u]] = IF sid[u] = s THEN feeds[s] \o none ELSE feeds[sid[u]]
      BY <2>1, <3>2, OtherStreams
    <3>. QED BY <1>1, <3>1, <3>3, <3>4
  <2>. QED BY <2>2, <2>3
<1>3. ASSUME NEW s \in Sessions, NEW new \in Trace, Makes(s, new)
      PROVE  /\ sid'[u] \in ToSet(recent')
             /\ lastSent'[u] <= Len(feeds'[sid'[u]])
             /\ \A i \in 1 .. lastSent'[u] : feeds'[sid'[u]][i] \in ToSet(mirror'[u])
  <2>1. /\ sid' = sid /\ conn' = conn /\ lastSent' = lastSent /\ mirror' = mirror
        /\ Stored(s, <<new>>) /\ <<new>> \in Seq(Trace)
    BY <1>3 DEF Makes, pages
  <2>2. /\ Kept(u) /\ sid[u] \in Sessions /\ sid[u] \in ToSet(recent')
        /\ feeds'[sid[u]] = IF sid[u] = s THEN feeds[s] \o <<new>> ELSE feeds[sid[u]]
    BY <2>1, OtherStreams
  <2>3. /\ feeds[s] \o <<new>> = Append(feeds[s], new)
        /\ feeds[s] \in Seq(Trace)
    BY <1>0
  <2>4. /\ Len(Append(feeds[s], new)) = Len(feeds[s]) + 1 /\ Len(feeds[s]) \in Nat
        /\ \A i \in 1 .. Len(feeds[s]) : Append(feeds[s], new)[i] = feeds[s][i]
    BY <2>3
  <2>5. lastSent[u] \in Nat
    BY <1>0
  <2>6. CASE sid[u] = s
    <3>1. feeds'[sid[u]] = Append(feeds[s], new)
      BY <2>2, <2>3, <2>6
    <3>. QED BY <1>1, <2>1, <2>2, <2>4, <2>5, <2>6, <3>1
  <2>7. CASE sid[u] # s
    BY <1>1, <2>1, <2>2, <2>7
  <2>. QED BY <2>6, <2>7
<1>4. CASE Leaves
  <2>1. /\ conn'[u] = conn[u] /\ sid'[u] = sid[u] /\ lastSent'[u] = lastSent[u]
        /\ mirror'[u] = mirror[u]
    BY <1>0, <1>4, LeavesPages
  <2>2. feeds' = feeds /\ recent' = recent /\ evicted' = evicted
    BY <1>4 DEF Leaves, store
  <2>. QED BY <1>1, <2>1, <2>2 DEF Kept
<1>5. CASE Restart
  BY <1>0, <1>5 DEF Restart
<1>. QED BY <1>0, <1>2, <1>3, <1>4, <1>5, Kinds

LEMMA StreamInvStep ==
    ASSUME StreamInv, [Next]_vars
    PROVE  StreamInv'
BY TypeStep, NumberedStep, FeedsOrderedStep, PagesDistinctStep, PagesOrderedStep,
   StreamsStep DEF StreamInv

-----------------------------------------------------------------------------
(* The theorems *)

\* The invariant that the others follow from: however traces are numbered and feeds
\* dropped, what a page shows and what its stream has sent go together.
THEOREM StreamInvHolds == Spec => []StreamInv
<1>1. Init => StreamInv
  BY InitInv
<1>2. StreamInv /\ [Next]_vars => StreamInv'
  BY StreamInvStep
<1>. QED BY <1>1, <1>2, PTL DEF Spec

\* The variables are of their types: the store keeps no more feeds than it may and
\* none twice, a stream is of a session that there is, and there is one for each
\* open connection.
THEOREM ProofStreamTypeOK == Spec => []TypeOK
<1>1. StreamInv => TypeOK
  BY DEF StreamInv
<1>. QED BY <1>1, StreamInvHolds, PTL

\* A stream whose feed was never dropped for the limit has passed over nothing.
THEOREM ProofStreamNothingSkipped == Spec => []NothingSkipped
<1>1. StreamInv => NothingSkipped
  BY DEF StreamInv
<1>. QED BY <1>1, StreamInvHolds, PTL

\* A page that has had one session's stream only shows that session's traces, each
\* once, and in their order unless the feed was dropped for the limit.
THEOREM ProofStreamSteadyMirror == Spec => []SteadyMirror
<1>1. StreamInv => SteadyMirror
  <2>0. SUFFICES ASSUME StreamInv, NEW t \in Tabs, Cardinality(seen[t]) <= 1
                 PROVE  /\ \A i \in DOMAIN mirror[t] : mirror[t][i].of \in seen[t]
                        /\ \A i, j \in DOMAIN mirror[t] : i < j =>
                              /\ mirror[t][i].eval # mirror[t][j].eval
                              /\ seen[t] \cap evicted = {} =>
                                    mirror[t][i].eval < mirror[t][j].eval
    BY DEF SteadyMirror
  <2>1. /\ TypeOK /\ Numbered /\ PagesDistinct /\ PagesOrdered
        /\ mirror[t] \in Seq(Trace) /\ seen[t] \subseteq 1 .. MaxSessions
        /\ MaxSessions \in Nat
    BY <2>0, BoundsAssumption DEF StreamInv, TypeOK, Sessions
  <2>2. \A i \in DOMAIN mirror[t] : mirror[t][i].of \in seen[t]
    BY <2>1 DEF PagesDistinct
  <2>3. seen[t] = {} \/ \E s \in Sessions : seen[t] = {s}
    <3>1. IsFiniteSet(1 .. MaxSessions)
      BY <2>1, FS_Interval
    <3>2. IsFiniteSet(seen[t])
      BY <2>1, <3>1, FS_Subset
    <3>3. Cardinality(seen[t]) \in {0, 1}
      BY <2>0, <3>2, FS_CardinalityType
    <3>4. CASE Cardinality(seen[t]) = 0
      BY <3>2, <3>4, FS_EmptySet
    <3>5. CASE Cardinality(seen[t]) = 1
      <4>1. PICK s : seen[t] = {s}
        BY <3>2, <3>5, FS_Singleton
      <4>. QED BY <2>1, <4>1 DEF Sessions
    <3>. QED BY <3>3, <3>4, <3>5
  <2>4. ASSUME NEW i \in DOMAIN mirror[t], NEW j \in DOMAIN mirror[t], i < j
        PROVE  mirror[t][i].eval # mirror[t][j].eval
    <3>1. mirror[t][i] \in Known /\ mirror[t][j] \in Known
      BY <2>1, InKnown DEF ToSet
    <3>2. mirror[t][i].id # mirror[t][j].id
      BY <2>1, <2>4 DEF PagesDistinct, DistinctIds
    <3>. QED BY <2>1, <3>1, <3>2 DEF Numbered
  <2>5. seen[t] \cap evicted = {} => Ordered(mirror[t])
    <3>1. CASE seen[t] = {}
      BY <2>2, <3>1 DEF Ordered
    <3>2. CASE \E s \in Sessions : seen[t] = {s}
      BY <2>1, <3>2 DEF PagesOrdered
    <3>. QED BY <2>3, <3>1, <3>2
  <2>. QED BY <2>2, <2>4, <2>5 DEF Ordered
<1>. QED BY <1>1, StreamInvHolds, PTL

\* Until the server is restarted a page only grows.
THEOREM ProofStreamMirrorOnlyGrows == Spec => MirrorOnlyGrows
<1> DEFINE Grows == \A t \in Tabs : \/ restarts' > 0
                                    \/ mirror'[t] = <<>>
                                    \/ IsPrefix(mirror[t], mirror'[t])
<1>1. StreamInv /\ [Next]_vars => Grows
  <2>0. SUFFICES ASSUME StreamInv, [Next]_vars, NEW u \in Tabs, ~(restarts' > 0)
                 PROVE  mirror'[u] = <<>> \/ IsPrefix(mirror[u], mirror'[u])
    OBVIOUS
  <2>1. /\ TypeOK /\ Numbered /\ PagesDistinct /\ restarts \in Nat
        /\ mirror \in [Tabs -> Seq(Trace)] /\ mirror[u] \in Seq(Trace)
    BY <2>0, BoundsAssumption DEF StreamInv, TypeOK
  <2>2. mirror'[u] = mirror[u] => IsPrefix(mirror[u], mirror'[u])
    BY <2>1 DEF IsPrefix
  <2>3. ASSUME NEW t \in Tabs, NEW s \in 1 .. created, NEW from \in Nat,
               Sends(t, s, from)
        PROVE  IsPrefix(mirror[u], mirror'[u])
    <3>1. CASE u # t
      BY <2>1, <2>2, <2>3, <3>1 DEF Sends
    <3>2. CASE u = t
      <4> DEFINE shown == mirror[u]
                 new == New(s, from)
      <4>1. /\ new \in Seq(Trace) /\ s \in Sessions
            /\ ToSet(new) \subseteq ToSet(feeds[s])
        BY <2>0, <2>3, SendsNew
      <4>2. mirror'[u] = AllApplied(shown, new) /\ mirror'[u] \in Seq(Trace)
        BY <2>0, <2>3, <3>2, SendsPage
      <4>3. ToSet(new) \subseteq Known /\ ToSet(shown) \subseteq Known
        BY <2>1, <4>1, InKnown
      <4>4. restarts = 0
        BY <2>0, <2>1, <2>3 DEF Sends
      <4>5. \A x, y \in Known : x.id = y.id => x = y
        BY <2>1, <4>4 DEF Numbered
      <4>6. Agree(shown, new)
        BY <4>3, <4>5 DEF Agree
      <4>7. shown \in Seq(Trace)
        BY <2>1
      <4> HIDE DEF shown, new
      <4>8. Grown(shown, AllApplied(shown, new))
        BY <4>1, <4>6, <4>7, AllAppliedGrows
      <4>9. IsPrefix(shown, AllApplied(shown, new))
        BY <4>2, <4>7, <4>8 DEF Grown, IsPrefix
      <4>. QED BY <4>2, <4>9 DEF shown
    <3>. QED BY <3>1, <3>2
  <2>4. ASSUME NEW s \in Sessions, NEW new \in Trace, Makes(s, new)
        PROVE  mirror'[u] = mirror[u]
    BY <2>4 DEF Makes, pages
  <2>5. CASE Leaves
    BY <2>1, <2>2, <2>5, LeavesPages
  <2>6. CASE Restart
    BY <2>0, <2>1, <2>6 DEF Restart
  <2>. QED BY <2>0, <2>1, <2>2, <2>3, <2>4, <2>5, <2>6, Kinds
<1>. QED BY <1>1, StreamInvHolds, PTL DEF Spec, MirrorOnlyGrows

=============================================================================
