-------------------------- MODULE PathWalkProofs --------------------------
(***************************************************************************)
(* Proofs about PathWalk, for paths of every length on every image the     *)
(* handlers of Storage leave.  First what slist_explode makes of a text,   *)
(* then what walking the first n components of such a list finds, then     *)
(* the invariant: a call is at the directory the components behind it      *)
(* lead to, and still has the others.                                      *)
(***************************************************************************)
EXTENDS PathWalk, StorageProofs

(***************************************************************************)
(* The names among the elements of a list, up to every element.            *)
(***************************************************************************)
NamesBody(q, gap, k, h) ==
  IF k = 0 THEN <<>> ELSE IF q[k] = gap THEN h[k - 1] ELSE Append(h[k - 1], q[k])
NamesFcn(q, gap) ==
  CHOOSE h : h = [k \in 0 .. Len(q) |->
                    IF k = 0 THEN <<>>
                    ELSE IF q[k] = gap THEN h[k - 1]
                    ELSE Append(h[k - 1], q[k])]

LEMMA NamesInIs == \A t : NamesIn(t) = NamesFcn(t, Delim)[Len(t)]
  BY DEF NamesIn, NamesFcn

LEMMA NamesFcnExists ==
  ASSUME NEW q, NEW gap, Len(q) \in Nat
  PROVE  \E h : h = [k \in 0 .. Len(q) |-> NamesBody(q, gap, k, h)]
<1> DEFINE Solves(m, h) == h = [k \in 0 .. m |-> NamesBody(q, gap, k, h)]
           S == {m \in 0 .. Len(q) : \E h : Solves(m, h)}
<1>1. 0 \in S
  <2> DEFINE h == [k \in 0 .. 0 |-> <<>>]
  <2>1. h = [k \in 0 .. 0 |-> NamesBody(q, gap, k, h)]
    <3>1. \A k \in 0 .. 0 : NamesBody(q, gap, k, h) = <<>>
      BY DEF NamesBody
    <3> QED
      BY <3>1
  <2>2. Solves(0, h) /\ 0 \in 0 .. Len(q)
    BY <2>1
  <2> HIDE DEF Solves, h
  <2> QED
    BY <2>2
<1>2. ASSUME NEW m \in 0 .. Len(q) - 1, m \in S PROVE m + 1 \in S
  <2>1. PICK g : Solves(m, g)
    BY <1>2
  <2> DEFINE h == [k \in 0 .. m + 1 |-> IF k = m + 1 THEN NamesBody(q, gap, m + 1, g) ELSE g[k]]
             e == [k \in 0 .. m + 1 |-> NamesBody(q, gap, k, h)]
  <2>2. ASSUME NEW k \in 0 .. m + 1 PROVE h[k] = e[k]
    <3>1. k # 0 => k - 1 \in 0 .. m /\ h[k - 1] = g[k - 1]
      OBVIOUS
    <3>2. NamesBody(q, gap, k, h) = NamesBody(q, gap, k, g)
      BY <3>1 DEF NamesBody
    <3>3. h[k] = NamesBody(q, gap, k, g)
      <4>1. CASE k = m + 1
        BY <4>1
      <4>2. CASE k # m + 1
        <5>1. k \in 0 .. m
          BY <4>2
        <5> QED
          BY <4>2, <5>1, <2>1
      <4> QED
        BY <4>1, <4>2
    <3> QED
      BY <3>2, <3>3
  <2>3. h = e
    BY <2>2
  <2>4. Solves(m + 1, h) /\ m + 1 \in 0 .. Len(q)
    BY <2>3
  <2> HIDE DEF Solves, h
  <2> QED
    BY <2>4
<1>3. Len(q) \in S
  <2>1. Len(q) \in 0 .. Len(q)
    OBVIOUS
  <2> HIDE DEF S
  <2>2. 0 .. Len(q) \subseteq S
    BY <1>1, <1>2, UpToLength
  <2> QED
    BY <2>1, <2>2
<1> QED
  BY <1>3

LEMMA NamesFacts ==
  ASSUME NEW gap, NEW q \in Seq(Names \cup {gap})
  PROVE  /\ NamesFcn(q, gap)[0] = <<>>
         /\ \A k \in 1 .. Len(q) :
              NamesFcn(q, gap)[k] = IF q[k] = gap THEN NamesFcn(q, gap)[k - 1]
                                    ELSE Append(NamesFcn(q, gap)[k - 1], q[k])
         /\ \A k \in 0 .. Len(q) : NamesFcn(q, gap)[k] \in Seq(Names)
<1> DEFINE h == NamesFcn(q, gap)
           S == {k \in 0 .. Len(q) : h[k] \in Seq(Names)}
<1>1. Len(q) \in Nat
  OBVIOUS
<1>2. h = [k \in 0 .. Len(q) |-> NamesBody(q, gap, k, h)]
  <2>1. \E g : g = [k \in 0 .. Len(q) |-> NamesBody(q, gap, k, g)]
    BY <1>1, NamesFcnExists
  <2>2. h = CHOOSE g : g = [k \in 0 .. Len(q) |-> NamesBody(q, gap, k, g)]
    BY DEF NamesFcn, NamesBody
  <2> HIDE DEF h
  <2> QED
    BY <2>1, <2>2
<1> HIDE DEF h
<1>3. \A k \in 0 .. Len(q) : h[k] = NamesBody(q, gap, k, h)
  BY <1>2
<1>4. h[0] = <<>>
  BY <1>1, <1>3 DEF NamesBody
<1>5. \A k \in 1 .. Len(q) : h[k] = IF q[k] = gap THEN h[k - 1] ELSE Append(h[k - 1], q[k])
  <2> SUFFICES ASSUME NEW k \in 1 .. Len(q)
               PROVE  h[k] = IF q[k] = gap THEN h[k - 1] ELSE Append(h[k - 1], q[k])
    OBVIOUS
  <2>1. k \in 0 .. Len(q) /\ k # 0
    OBVIOUS
  <2>2. h[k] = NamesBody(q, gap, k, h)
    BY <1>3, <2>1
  <2> QED
    BY <2>1, <2>2 DEF NamesBody
<1>6. 0 \in S
  <2>1. 0 \in 0 .. Len(q) /\ <<>> \in Seq(Names)
    BY <1>1
  <2> QED
    BY <1>4, <2>1
<1>7. ASSUME NEW k \in 0 .. Len(q) - 1, k \in S PROVE k + 1 \in S
  <2>1. k + 1 \in 1 .. Len(q) /\ k + 1 \in 0 .. Len(q) /\ (k + 1) - 1 = k
    BY <1>1
  <2>2. h[k] \in Seq(Names)
    BY <1>7
  <2>3. q[k + 1] \in Names \cup {gap}
    BY <2>1
  <2>4. h[k + 1] = IF q[k + 1] = gap THEN h[k] ELSE Append(h[k], q[k + 1])
    BY <1>5, <2>1
  <2>5. h[k + 1] \in Seq(Names)
    BY <2>2, <2>3, <2>4
  <2> QED
    BY <2>1, <2>5
<1>8. \A k \in 0 .. Len(q) : h[k] \in Seq(Names)
  <2> HIDE DEF S
  <2>1. 0 .. Len(q) \subseteq S
    BY <1>1, <1>6, <1>7, UpToLength
  <2> QED
    BY <2>1 DEF S
<1> QED
  BY <1>4, <1>5, <1>8 DEF h

(***************************************************************************)
(* slist_explode.                                                          *)
(***************************************************************************)
RestBody(t, k, h) ==
  IF k > Len(t) THEN <<>>
  ELSE IF t[k] = Delim THEN <<Empty>> \o h[k + 1]
  ELSE <<t[k]>> \o h[k + 2]
RestFcn(t) ==
  CHOOSE h : h = [k \in 1 .. Len(t) + 2 |->
                    IF k > Len(t) THEN <<>>
                    ELSE IF t[k] = Delim THEN <<Empty>> \o h[k + 1]
                    ELSE <<t[k]>> \o h[k + 2]]

LEMMA ExplodeIs == \A t : Explode(t) = RestFcn(t)[1]
  BY DEF Explode, RestFcn

LEMMA RestFcnExists ==
  ASSUME NEW t, Len(t) \in Nat
  PROVE  \E h : h = [k \in 1 .. Len(t) + 2 |-> RestBody(t, k, h)]
<1> DEFINE N == Len(t) + 2
           Solves(m, h) == h = [k \in N - m .. N |-> RestBody(t, k, h)]
           S == {m \in 0 .. N - 1 : \E h : Solves(m, h)}
<1>0. N \in Nat /\ N - 1 \in Nat /\ N - 1 > Len(t) /\ N > Len(t) /\ 0 \in 0 .. N - 1 /\ 1 \in 0 .. N - 1
  OBVIOUS
<1>1. 0 \in S
  <2> DEFINE h == [k \in N - 0 .. N |-> <<>>]
  <2>1. \A k \in N - 0 .. N : RestBody(t, k, h) = <<>>
    BY DEF RestBody
  <2>2. h = [k \in N - 0 .. N |-> RestBody(t, k, h)]
    BY <2>1
  <2>3. Solves(0, h)
    BY <2>2
  <2> HIDE DEF Solves, h
  <2> QED
    BY <1>0, <2>3
<1>2. ASSUME NEW m \in 0 .. (N - 1) - 1, m \in S PROVE m + 1 \in S
  <2>0. m + 1 \in 0 .. N - 1 /\ m \in Nat /\ m + 1 <= N - 1
    BY <1>0
  <2>1. PICK g : Solves(m, g)
    BY <1>2
  <2> DEFINE j == N - (m + 1)
             h == [k \in j .. N |-> IF k = j THEN RestBody(t, j, g) ELSE g[k]]
             e == [k \in j .. N |-> RestBody(t, k, h)]
  <2>2. ASSUME NEW k \in j .. N PROVE h[k] = e[k]
    <3>1. j \in Int /\ j + 1 = N - m
      BY <2>0
    <3>2. ~(k > Len(t)) => /\ k + 1 \in N - m .. N /\ k + 2 \in N - m .. N
                           /\ k + 1 \in j .. N /\ k + 2 \in j .. N /\ k + 1 # j /\ k + 2 # j
      BY <2>0, <3>1
    <3>3. ~(k > Len(t)) => h[k + 1] = g[k + 1] /\ h[k + 2] = g[k + 2]
      BY <3>2
    <3> HIDE DEF h
    <3>4. RestBody(t, k, h) = RestBody(t, k, g)
      <4>1. CASE k > Len(t)
        BY <4>1 DEF RestBody
      <4>2. CASE ~(k > Len(t))
        BY <3>3, <4>2 DEF RestBody
      <4> QED
        BY <4>1, <4>2
    <3> USE DEF h
    <3>5. h[k] = RestBody(t, k, g)
      <4>1. CASE k = j
        BY <4>1
      <4>2. CASE k # j
        <5>1. k \in N - m .. N
          BY <3>1, <4>2
        <5>2. g = [i \in N - m .. N |-> RestBody(t, i, g)]
          BY <2>1
        <5>3. g[k] = RestBody(t, k, g)
          BY <5>1, <5>2
        <5> QED
          BY <4>2, <5>3
      <4> QED
        BY <4>1, <4>2
    <3> QED
      BY <3>4, <3>5
  <2>3. h = e
    BY <2>2
  <2>4. Solves(m + 1, h)
    BY <2>3
  <2> HIDE DEF Solves, h
  <2> QED
    BY <2>0, <2>4
<1>3. N - 1 \in S
  <2>1. N - 1 \in 0 .. N - 1
    BY <1>0
  <2> HIDE DEF S, N
  <2>2. 0 .. N - 1 \subseteq S
    BY <1>0, <1>1, <1>2, UpToLength
  <2> QED
    BY <2>1, <2>2
<1>4. N - (N - 1) = 1
  BY <1>0
<1>5. PICK h : Solves(N - 1, h)
  BY <1>3
<1>6. h = [k \in 1 .. N |-> RestBody(t, k, h)]
  BY <1>4, <1>5
<1> QED
  BY <1>6

LEMMA RestFacts ==
  ASSUME NEW t, Len(t) \in Nat
  PROVE  \A k \in 1 .. Len(t) + 2 :
           RestFcn(t)[k] = IF k > Len(t) THEN <<>>
                           ELSE IF t[k] = Delim THEN <<Empty>> \o RestFcn(t)[k + 1]
                           ELSE <<t[k]>> \o RestFcn(t)[k + 2]
<1> DEFINE h == RestFcn(t)
<1>1. h = [k \in 1 .. Len(t) + 2 |-> RestBody(t, k, h)]
  <2>1. \E g : g = [k \in 1 .. Len(t) + 2 |-> RestBody(t, k, g)]
    BY RestFcnExists
  <2>2. h = CHOOSE g : g = [k \in 1 .. Len(t) + 2 |-> RestBody(t, k, g)]
    BY DEF RestFcn, RestBody
  <2> HIDE DEF h
  <2> QED
    BY <2>1, <2>2
<1> HIDE DEF h
<1>2. \A k \in 1 .. Len(t) + 2 : h[k] = RestBody(t, k, h)
  BY <1>1
<1> QED
  BY <1>2 DEF RestBody, h

Components == Seq(Names \cup {Empty})

LEMMA TextFacts ==
  ASSUME NEW t \in Texts
  PROVE  /\ t \in Seq(Names \cup {Delim}) /\ Len(t) \in Nat \ {0}
         /\ \A k \in 1 .. Len(t) : t[k] \in Names \cup {Delim}
         /\ t[1] = Delim
         /\ \A k \in 1 .. Len(t) - 1 : t[k] # Delim => t[k + 1] = Delim
<1>1. PICK n \in 1 .. MaxText : t \in [1 .. n -> Names \cup {Delim}]
  BY DEF Texts
<1>2. n \in Nat \ {0}
  BY TextAssumption
<1>3. t \in Seq(Names \cup {Delim}) /\ Len(t) = n
  BY <1>1, <1>2
<1>4. t[1] = Delim /\ \A k \in 1 .. Len(t) - 1 : Delim \in {t[k], t[k + 1]}
  BY DEF Texts
<1>5. \A k \in 1 .. Len(t) : t[k] \in Names \cup {Delim}
  BY <1>3
<1> QED
  BY <1>2, <1>3, <1>4, <1>5

LEMMA RestTyped ==
  ASSUME NEW t \in Texts
  PROVE  \A k \in 1 .. Len(t) + 2 : RestFcn(t)[k] \in Components
<1> DEFINE h == RestFcn(t)
           M == Len(t) + 1
           S == {m \in 0 .. M : \A k \in M + 1 - m .. M + 1 : h[k] \in Components}
<1>1. /\ Len(t) \in Nat \ {0} /\ \A k \in 1 .. Len(t) : t[k] \in Names \cup {Delim}
  BY TextFacts
<1>2. \A k \in 1 .. M + 1 : h[k] = IF k > Len(t) THEN <<>>
                                   ELSE IF t[k] = Delim THEN <<Empty>> \o h[k + 1]
                                   ELSE <<t[k]>> \o h[k + 2]
  <2>1. M + 1 = Len(t) + 2 /\ Len(t) \in Nat
    BY <1>1
  <2> QED
    BY <2>1, RestFacts
<1> HIDE DEF h
<1>3. 0 \in S
  <2>1. 0 \in 0 .. M /\ M + 1 > Len(t) /\ M + 1 \in 1 .. M + 1 /\ M + 1 - 0 .. M + 1 = {M + 1}
    BY <1>1
  <2>2. h[M + 1] = <<>>
    BY <1>2, <2>1
  <2>3. <<>> \in Components
    BY DEF Components
  <2> QED
    BY <2>1, <2>2, <2>3
<1>4. ASSUME NEW m \in 0 .. M - 1, m \in S PROVE m + 1 \in S
  <2> DEFINE k == M - m
  <2>1. /\ m + 1 \in 0 .. M /\ k \in 1 .. M + 1 /\ M + 1 - (m + 1) = k
        /\ M + 1 - m = k + 1
        /\ \A i \in k .. M + 1 : i = k \/ i \in k + 1 .. M + 1
        /\ ~(k > Len(t)) => k \in 1 .. Len(t) /\ k + 1 \in k + 1 .. M + 1 /\ k + 2 \in k + 1 .. M + 1
    BY <1>1
  <2>2. \A i \in k + 1 .. M + 1 : h[i] \in Components
    BY <1>4, <2>1
  <2> HIDE DEF k
  <2>3. h[k] \in Components
    <3>1. CASE k > Len(t)
      <4>1. h[k] = <<>>
        BY <1>2, <2>1, <3>1
      <4>2. <<>> \in Components
        BY DEF Components
      <4> QED
        BY <4>1, <4>2
    <3>2. CASE ~(k > Len(t)) /\ t[k] = Delim
      <4>1. h[k] = <<Empty>> \o h[k + 1] /\ h[k + 1] \in Components
        BY <1>2, <2>1, <2>2, <3>2
      <4> QED
        BY <4>1 DEF Components
    <3>3. CASE ~(k > Len(t)) /\ t[k] # Delim
      <4>1. h[k] = <<t[k]>> \o h[k + 2] /\ h[k + 2] \in Components /\ t[k] \in Names
        BY <1>1, <1>2, <2>1, <2>2, <3>3
      <4> QED
        BY <4>1 DEF Components
    <3> QED
      BY <3>1, <3>2, <3>3
  <2>4. \A i \in k .. M + 1 : h[i] \in Components
    BY <2>1, <2>2, <2>3
  <2> QED
    BY <2>1, <2>4
<1>5. \A k \in 1 .. M + 1 : h[k] \in Components
  <2>1. M \in Nat /\ M \in 0 .. M /\ M + 1 - M = 1
    BY <1>1
  <2> HIDE DEF S, M
  <2>2. 0 .. M \subseteq S
    BY <1>3, <1>4, <2>1, UpToLength
  <2> QED
    BY <2>1, <2>2 DEF S
<1>6. M + 1 = Len(t) + 2
  BY <1>1
<1> QED
  BY <1>5, <1>6 DEF h

(* r is the part of a list of components from the j-th to the e-th.        *)
Part(sl, j, e, r) ==
  /\ r \in Components
  /\ Len(r) = e + 1 - j
  /\ \A m \in 1 .. Len(r) : r[m] = sl[j - 1 + m]

LEMMA ComponentNames ==
  ASSUME NEW sl \in Components
  PROVE  /\ NamesFcn(sl, Empty)[0] = <<>>
         /\ \A k \in 1 .. Len(sl) :
              NamesFcn(sl, Empty)[k] = IF sl[k] = Empty THEN NamesFcn(sl, Empty)[k - 1]
                                       ELSE Append(NamesFcn(sl, Empty)[k - 1], sl[k])
         /\ \A k \in 0 .. Len(sl) : NamesFcn(sl, Empty)[k] \in Seq(Names)
  BY NamesFacts DEF Components

LEMMA ConsComponents ==
  ASSUME NEW x \in Names \cup {Empty}, NEW r \in Components
  PROVE  /\ <<x>> \o r \in Components /\ Len(<<x>> \o r) = Len(r) + 1 /\ Len(r) \in Nat
         /\ (<<x>> \o r)[1] = x
         /\ \A m \in 1 .. Len(r) : (<<x>> \o r)[m + 1] = r[m]
  BY DEF Components

LEMMA PartCons ==
  ASSUME NEW sl, NEW e \in Int, NEW j \in Int,
         NEW x \in Names \cup {Empty}, NEW r \in Components, Part(sl, j, e, <<x>> \o r)
  PROVE  j <= e /\ sl[j] = x /\ Part(sl, j + 1, e, r)
<1> DEFINE q == <<x>> \o r
<1>1. /\ Len(q) = Len(r) + 1 /\ Len(r) \in Nat /\ q[1] = x
      /\ \A m \in 1 .. Len(r) : q[m + 1] = r[m]
  BY ConsComponents
<1>2. Len(q) = e + 1 - j /\ \A m \in 1 .. Len(q) : q[m] = sl[j - 1 + m]
  BY DEF Part
<1> HIDE DEF q
<1>3. j <= e /\ Len(r) = e + 1 - (j + 1) /\ 1 \in 1 .. Len(q) /\ j - 1 + 1 = j
  BY <1>1, <1>2
<1>4. sl[j] = x
  BY <1>1, <1>2, <1>3
<1>5. \A m \in 1 .. Len(r) : r[m] = sl[(j + 1) - 1 + m]
  <2> SUFFICES ASSUME NEW m \in 1 .. Len(r) PROVE r[m] = sl[(j + 1) - 1 + m]
    OBVIOUS
  <2>1. m + 1 \in 1 .. Len(q) /\ j - 1 + (m + 1) = (j + 1) - 1 + m
    BY <1>1
  <2>2. q[m + 1] = sl[j - 1 + (m + 1)]
    BY <1>2, <2>1
  <2> QED
    BY <1>1, <2>1, <2>2
<1> QED
  BY <1>3, <1>4, <1>5 DEF Part

LEMMA PartHead ==
  ASSUME NEW sl, NEW e \in Int, NEW j \in Int, NEW r, Part(sl, j, e, r), j <= e
  PROVE  /\ r # <<>> /\ Head(r) = sl[j] /\ Len(r) = e + 1 - j
         /\ Part(sl, j + 1, e, Tail(r))
<1>1. r \in Components /\ Len(r) = e + 1 - j /\ \A m \in 1 .. Len(r) : r[m] = sl[j - 1 + m]
  BY DEF Part
<1>2. Len(r) \in Nat /\ Len(r) >= 1 /\ 1 \in 1 .. Len(r) /\ j - 1 + 1 = j
  BY <1>1
<1>3. r # <<>>
  BY <1>2
<1>4. /\ Head(r) = r[1] /\ Tail(r) \in Components /\ Len(Tail(r)) = Len(r) - 1
      /\ \A m \in 1 .. Len(r) - 1 : Tail(r)[m] = r[m + 1]
  BY <1>1, <1>3 DEF Components
<1>5. \A m \in 1 .. Len(Tail(r)) : Tail(r)[m] = sl[(j + 1) - 1 + m]
  <2> SUFFICES ASSUME NEW m \in 1 .. Len(Tail(r)) PROVE Tail(r)[m] = sl[(j + 1) - 1 + m]
    OBVIOUS
  <2>1. m \in 1 .. Len(r) - 1 /\ m + 1 \in 1 .. Len(r) /\ j - 1 + (m + 1) = (j + 1) - 1 + m
    BY <1>2, <1>4
  <2>2. Tail(r)[m] = r[m + 1] /\ r[m + 1] = sl[j - 1 + (m + 1)]
    BY <1>1, <1>4, <2>1
  <2> QED
    BY <2>1, <2>2
<1>6. Len(Tail(r)) = e + 1 - (j + 1)
  BY <1>1, <1>4
<1> QED
  BY <1>1, <1>2, <1>3, <1>4, <1>5, <1>6 DEF Part

(* The components of a text have the names that are in the text, in that   *)
(* order.  The first is empty, because the text starts with a delimiter,   *)
(* and the last is empty exactly when a second delimiter ends the text.    *)
EndsTwice(t, m) == t[m] = Delim /\ (m = 1 \/ t[m - 1] = Delim)

\* position k of the text starts component j, or is beyond the end
StartsAt(t, k, j) ==
  LET sl == Explode(t)
      m == IF k = Len(t) + 2 THEN Len(t) ELSE k - 1 IN
  /\ j \in 1 .. Len(sl) + 1
  /\ Part(sl, j, Len(sl), RestFcn(t)[k])
  /\ NamesFcn(sl, Empty)[j - 1] = NamesFcn(t, Delim)[m]
  /\ k \in 2 .. Len(t) => t[k - 1] = Delim
  /\ k = 1 => j = 1
  /\ k > 1 => j > 1 /\ (sl[j - 1] = Empty <=> EndsTwice(t, m))

LEMMA StartsFirst ==
  ASSUME NEW t \in Texts
  PROVE  StartsAt(t, 1, 1)
<1> DEFINE sl == Explode(t)
<1>1. /\ t \in Seq(Names \cup {Delim}) /\ Len(t) \in Nat \ {0}
  BY TextFacts
<1>2. RestFcn(t)[1] = sl /\ sl \in Components
  <2>1. 1 \in 1 .. Len(t) + 2
    BY <1>1
  <2> QED
    BY <2>1, ExplodeIs, RestTyped
<1> HIDE DEF sl
<1>3. Len(sl) \in Nat /\ 1 \in 1 .. Len(sl) + 1 /\ Len(sl) = Len(sl) + 1 - 1
      /\ \A m \in 1 .. Len(sl) : sl[m] = sl[1 - 1 + m]
  BY <1>2 DEF Components
<1>4. Part(sl, 1, Len(sl), RestFcn(t)[1])
  BY <1>2, <1>3 DEF Part
<1>5. NamesFcn(sl, Empty)[0] = <<>> /\ NamesFcn(t, Delim)[0] = <<>>
  BY <1>1, <1>2, NamesFacts DEF Components
<1>6. 1 # Len(t) + 2 /\ 1 - 1 = 0 /\ 1 \notin 2 .. Len(t) /\ ~(1 > 1)
  BY <1>1
<1> QED
  BY <1>3, <1>4, <1>5, <1>6 DEF StartsAt, sl

\* a delimiter where a component should start makes an empty one
LEMMA StartsAfterEmpty ==
  ASSUME NEW t \in Texts, NEW k \in 1 .. Len(t), t[k] = Delim, NEW j, StartsAt(t, k, j)
  PROVE  StartsAt(t, k + 1, j + 1)
<1> DEFINE sl == Explode(t)
           P == NamesFcn(sl, Empty)
           N == NamesFcn(t, Delim)
           r == RestFcn(t)[k + 1]
<1>1. /\ t \in Seq(Names \cup {Delim}) /\ Len(t) \in Nat \ {0}
  BY TextFacts
<1>2. sl \in Components /\ Len(sl) \in Nat
  <2>1. 1 \in 1 .. Len(t) + 2
    BY <1>1
  <2>2. sl \in Components
    BY <2>1, ExplodeIs, RestTyped
  <2> QED
    BY <2>2 DEF Components
<1>3. /\ k \in Nat /\ k # Len(t) + 2 /\ k \in 1 .. Len(t) + 2 /\ ~(k > Len(t)) /\ k + 1 \in 1 .. Len(t) + 2
      /\ k + 1 # Len(t) + 2 /\ (k + 1) - 1 = k /\ k + 1 # 1 /\ k + 1 > 1
  BY <1>1
<1>4. RestFcn(t)[k] = <<Empty>> \o r /\ r \in Components
  <2>1. r \in Components
    BY <1>3, RestTyped
  <2> QED
    BY <1>1, <1>3, <2>1, RestFacts
<1>5. /\ j \in 1 .. Len(sl) + 1 /\ Part(sl, j, Len(sl), <<Empty>> \o r)
      /\ P[j - 1] = N[k - 1] /\ (k \in 2 .. Len(t) => t[k - 1] = Delim)
  BY <1>3, <1>4 DEF StartsAt
<1>6. N[k] = N[k - 1]
  BY <1>1, NamesFacts
<1>7. \A i \in 1 .. Len(sl) : P[i] = IF sl[i] = Empty THEN P[i - 1] ELSE Append(P[i - 1], sl[i])
  BY <1>2, NamesFacts DEF Components
<1> HIDE DEF sl, P, N, r
<1>8. j \in Int /\ Len(sl) \in Int
  BY <1>2, <1>5
<1>9. j <= Len(sl) /\ sl[j] = Empty /\ Part(sl, j + 1, Len(sl), r)
  BY <1>4, <1>5, <1>8, PartCons
<1>10. j \in 1 .. Len(sl) /\ j + 1 \in 1 .. Len(sl) + 1 /\ (j + 1) - 1 = j /\ j + 1 > 1
  BY <1>2, <1>5, <1>9
<1>11. P[j] = N[k]
  BY <1>5, <1>6, <1>7, <1>9, <1>10
<1>12. EndsTwice(t, k)
  <2>1. k # 1 => k \in 2 .. Len(t)
    BY <1>3
  <2> QED
    BY <1>5, <2>1 DEF EndsTwice
<1> QED
  BY <1>3, <1>9, <1>10, <1>11, <1>12 DEF StartsAt, sl, P, N, r

\* a name is a component, and the delimiter after it is skipped
LEMMA StartsAfterName ==
  ASSUME NEW t \in Texts, NEW k \in 1 .. Len(t), t[k] # Delim, NEW j, StartsAt(t, k, j)
  PROVE  StartsAt(t, k + 2, j + 1)
<1> DEFINE sl == Explode(t)
           P == NamesFcn(sl, Empty)
           N == NamesFcn(t, Delim)
           r == RestFcn(t)[k + 2]
           m == IF k + 2 = Len(t) + 2 THEN Len(t) ELSE (k + 2) - 1
<1>1. /\ t \in Seq(Names \cup {Delim}) /\ Len(t) \in Nat \ {0} /\ t[k] \in Names
      /\ \A i \in 1 .. Len(t) - 1 : t[i] # Delim => t[i + 1] = Delim
  BY TextFacts
<1>2. sl \in Components /\ Len(sl) \in Nat
  <2>1. 1 \in 1 .. Len(t) + 2
    BY <1>1
  <2>2. sl \in Components
    BY <2>1, ExplodeIs, RestTyped
  <2> QED
    BY <2>2 DEF Components
<1>3. /\ k \in Nat /\ k # Len(t) + 2 /\ k \in 1 .. Len(t) + 2 /\ ~(k > Len(t)) /\ k + 2 \in 1 .. Len(t) + 2
      /\ k + 2 # 1 /\ k + 2 > 1
  BY <1>1
<1>4. RestFcn(t)[k] = <<t[k]>> \o r /\ r \in Components
  <2>1. r \in Components
    BY <1>3, RestTyped
  <2> QED
    BY <1>1, <1>3, <2>1, RestFacts
<1>5. /\ j \in 1 .. Len(sl) + 1 /\ Part(sl, j, Len(sl), <<t[k]>> \o r) /\ P[j - 1] = N[k - 1]
  BY <1>3, <1>4 DEF StartsAt
<1>6. \A i \in 1 .. Len(t) : N[i] = IF t[i] = Delim THEN N[i - 1] ELSE Append(N[i - 1], t[i])
  BY <1>1, NamesFacts
<1>7. \A i \in 1 .. Len(sl) : P[i] = IF sl[i] = Empty THEN P[i - 1] ELSE Append(P[i - 1], sl[i])
  BY <1>2, NamesFacts DEF Components
<1>8. /\ m = k \/ (m = k + 1 /\ k + 1 \in 1 .. Len(t) /\ k \in 1 .. Len(t) - 1)
      /\ k + 2 \in 2 .. Len(t) => k \in 1 .. Len(t) - 1 /\ (k + 2) - 1 = k + 1
      /\ (k + 1) - 1 = k /\ k + 1 # 1
  BY <1>1
<1> HIDE DEF sl, P, N, r
<1>9. j \in Int /\ Len(sl) \in Int
  BY <1>2, <1>5
<1>10. j <= Len(sl) /\ sl[j] = t[k] /\ Part(sl, j + 1, Len(sl), r)
  BY <1>1, <1>4, <1>5, <1>9, PartCons
<1>11. j \in 1 .. Len(sl) /\ j + 1 \in 1 .. Len(sl) + 1 /\ (j + 1) - 1 = j /\ j + 1 > 1
  BY <1>2, <1>5, <1>10
<1>12. t[k] # Empty
  BY <1>1, TextAssumption
<1>13. P[j] = Append(N[k - 1], t[k]) /\ N[k] = Append(N[k - 1], t[k])
  BY <1>5, <1>6, <1>7, <1>10, <1>11, <1>12
<1> HIDE DEF m
<1>14. N[m] = N[k]
  <2>1. CASE m = k
    BY <2>1
  <2>2. CASE m = k + 1 /\ k + 1 \in 1 .. Len(t) /\ k \in 1 .. Len(t) - 1
    <3>1. t[k + 1] = Delim
      BY <1>1, <2>2
    <3> QED
      BY <1>6, <1>8, <2>2, <3>1
  <2> QED
    BY <1>8, <2>1, <2>2
<1>15. ~EndsTwice(t, m)
  BY <1>8 DEF EndsTwice
<1>16. k + 2 \in 2 .. Len(t) => t[(k + 2) - 1] = Delim
  BY <1>1, <1>8
<1>17. P[(j + 1) - 1] = N[m] /\ sl[(j + 1) - 1] # Empty
  BY <1>10, <1>11, <1>12, <1>13, <1>14
<1> QED
  BY <1>3, <1>10, <1>11, <1>15, <1>16, <1>17 DEF StartsAt, sl, P, N, r, m

LEMMA ExplodeFacts ==
  ASSUME NEW t \in Texts
  PROVE  /\ Explode(t) \in Components /\ Len(Explode(t)) \in Nat \ {0}
         /\ Explode(t)[1] = Empty
         /\ NamesFcn(Explode(t), Empty)[Len(Explode(t))] = NamesIn(t)
         /\ Explode(t)[Len(Explode(t))] = Empty <=> EndsTwice(t, Len(t))
<1> DEFINE sl == Explode(t)
           G == {k \in 1 .. Len(t) + 2 : \E j : StartsAt(t, k, j)}
<1>1. Len(t) \in Nat \ {0} /\ t[1] = Delim
  BY TextFacts
<1>2. sl \in Components /\ Len(sl) \in Nat
  <2>1. 1 \in 1 .. Len(t) + 2
    BY <1>1
  <2>2. sl \in Components
    BY <2>1, ExplodeIs, RestTyped
  <2> QED
    BY <2>2 DEF Components
<1>3. 1 \in G
  BY <1>1, StartsFirst
<1>4. PICK k \in G : \A i \in G : i <= k
  <2>1. G \subseteq 0 .. Len(t) + 2 /\ Len(t) + 2 \in Nat /\ G # {}
    BY <1>1, <1>3
  <2> HIDE DEF G
  <2> QED
    BY <2>1, MaxFacts
<1>5. PICK j : StartsAt(t, k, j)
  OBVIOUS
<1>6. k \in 1 .. Len(t) + 2
  OBVIOUS
<1>7. k > Len(t)
  <2> SUFFICES ASSUME ~(k > Len(t)) PROVE FALSE
    OBVIOUS
  <2>1. /\ k \in 1 .. Len(t) /\ k + 1 \in 1 .. Len(t) + 2 /\ k + 2 \in 1 .. Len(t) + 2
        /\ ~(k + 1 <= k) /\ ~(k + 2 <= k)
    BY <1>1, <1>6
  <2>2. CASE t[k] = Delim
    <3>1. k + 1 \in G
      BY <1>5, <2>1, <2>2, StartsAfterEmpty
    <3> QED
      BY <1>4, <2>1, <3>1
  <2>3. CASE t[k] # Delim
    <3>1. k + 2 \in G
      BY <1>5, <2>1, <2>3, StartsAfterName
    <3> QED
      BY <1>4, <2>1, <3>1
  <2> QED
    BY <2>2, <2>3
<1> DEFINE m == IF k = Len(t) + 2 THEN Len(t) ELSE k - 1
<1>8. m = Len(t) /\ k > 1
  BY <1>1, <1>6, <1>7
<1>9. RestFcn(t)[k] = <<>>
  BY <1>1, <1>6, <1>7, RestFacts
<1>10. /\ j \in 1 .. Len(sl) + 1 /\ Part(sl, j, Len(sl), <<>>)
       /\ NamesFcn(sl, Empty)[j - 1] = NamesFcn(t, Delim)[Len(t)]
       /\ j > 1 /\ (sl[j - 1] = Empty <=> EndsTwice(t, Len(t)))
  <2> HIDE DEF sl
  <2> QED
    BY <1>5, <1>8, <1>9 DEF StartsAt, sl
<1>11. j - 1 = Len(sl) /\ Len(sl) # 0
  <2>1. Len(sl) + 1 - j = 0
    BY <1>10 DEF Part
  <2> HIDE DEF sl
  <2> QED
    BY <1>2, <1>10, <2>1
<1>12. sl[1] = Empty
  <2>1. 1 \in 1 .. Len(t) /\ 1 + 1 \in 1 .. Len(t) + 2 /\ 1 \in 1 .. Len(t) + 2 /\ ~(1 > Len(t))
    BY <1>1
  <2>2. sl = <<Empty>> \o RestFcn(t)[1 + 1] /\ RestFcn(t)[1 + 1] \in Components
    BY <1>1, <2>1, ExplodeIs, RestFacts, RestTyped
  <2> HIDE DEF sl
  <2> QED
    BY <2>2, ConsComponents
<1> HIDE DEF sl
<1> QED
  BY <1>2, <1>10, <1>11, <1>12, NamesInIs DEF sl

(***************************************************************************)
(* Where the first k components of a list lead.                            *)
(***************************************************************************)
Led(s, sl, k) == Resolve(s, NamesFcn(sl, Empty)[k])

(* What a walk of the first e components must answer: what they lead to,   *)
(* but a file is no directory where an empty component follows its name.   *)
Ended(s, sl, e) ==
  IF Led(s, sl, e) >= 0 /\ ~IsDir(s, Led(s, sl, e)) /\ sl[e] = Empty
    THEN ENOTDIR ELSE Led(s, sl, e)

LEMMA LedFacts ==
  ASSUME NEW s \in Images, UniqueTables(s), NEW sl \in Components
  PROVE  /\ Led(s, sl, 0) = ROOT_INUM
         /\ \A k \in 1 .. Len(sl) :
              Led(s, sl, k) = IF sl[k] = Empty THEN Led(s, sl, k - 1)
                              ELSE InumIn(s, Led(s, sl, k - 1), sl[k])
         /\ \A k \in 0 .. Len(sl) : Led(s, sl, k) \in Inums \cup Errors
<1> DEFINE P == NamesFcn(sl, Empty)
<1>1. /\ P[0] = <<>>
      /\ \A k \in 1 .. Len(sl) : P[k] = IF sl[k] = Empty THEN P[k - 1] ELSE Append(P[k - 1], sl[k])
      /\ \A k \in 0 .. Len(sl) : P[k] \in Seq(Names)
  BY NamesFacts DEF Components
<1>2. \A k \in 1 .. Len(sl) : sl[k] \in Names \cup {Empty} /\ k - 1 \in 0 .. Len(sl)
  BY DEF Components
<1> HIDE DEF P
<1>3. \A k : Led(s, sl, k) = Resolve(s, P[k])
  BY DEF Led, P
<1>4. Led(s, sl, 0) = ROOT_INUM
  <2>1. <<>> \in Seq(Names)
    OBVIOUS
  <2>2. Resolve(s, <<>>) = ROOT_INUM
    BY <2>1, ResolveUnfold
  <2> QED
    BY <1>1, <1>3, <2>2
<1>5. ASSUME NEW k \in 1 .. Len(sl)
      PROVE  Led(s, sl, k) = IF sl[k] = Empty THEN Led(s, sl, k - 1)
                             ELSE InumIn(s, Led(s, sl, k - 1), sl[k])
  <2>1. CASE sl[k] = Empty
    <3>1. P[k] = P[k - 1]
      BY <1>1, <2>1
    <3> QED
      BY <1>3, <2>1, <3>1
  <2>2. CASE sl[k] # Empty
    <3> DEFINE p == P[k - 1]
               n == sl[k]
    <3>1. P[k] = Append(p, n) /\ p \in Seq(Names) /\ n \in Names
      BY <1>1, <1>2, <2>2
    <3> HIDE DEF p, n
    <3>2. /\ Append(p, n) \in Seq(Names) /\ Append(p, n) # <<>>
          /\ Front(Append(p, n)) = p /\ Last(Append(p, n)) = n
      BY <3>1, AppendPath
    <3>3. Resolve(s, Append(p, n)) = InumIn(s, Resolve(s, p), n)
      BY <3>2, ResolveUnfold
    <3> QED
      BY <1>3, <2>2, <3>1, <3>3 DEF p, n
  <2> QED
    BY <2>1, <2>2
<1>6. \A k \in 0 .. Len(sl) : Led(s, sl, k) \in Inums \cup Errors
  BY <1>1, <1>3, ResolveFacts
<1> QED
  BY <1>4, <1>5, <1>6

\* an error ends the walk
LEMMA ErrorStays ==
  ASSUME NEW s \in Images, UniqueTables(s), NEW sl \in Components,
         NEW k \in 0 .. Len(sl), Led(s, sl, k) \in Errors, NEW e \in k .. Len(sl)
  PROVE  Led(s, sl, e) = Led(s, sl, k)
<1> DEFINE S == {m \in 0 .. Len(sl) - k : Led(s, sl, k + m) = Led(s, sl, k)}
           N == Len(sl) - k
<1>1. Len(sl) \in Nat /\ N \in Nat /\ k + 0 = k
  BY DEF Components
<1>2. 0 \in S
  BY <1>1
<1>3. ASSUME NEW m \in 0 .. N - 1, m \in S PROVE m + 1 \in S
  <2>1. /\ m + 1 \in 0 .. N /\ k + (m + 1) \in 1 .. Len(sl) /\ (k + (m + 1)) - 1 = k + m
    BY <1>1
  <2>2. Led(s, sl, k + m) = Led(s, sl, k)
    BY <1>3
  <2>3. Led(s, sl, k + (m + 1)) = IF sl[k + (m + 1)] = Empty THEN Led(s, sl, k + m)
                                  ELSE InumIn(s, Led(s, sl, k + m), sl[k + (m + 1)])
    BY <2>1, LedFacts
  <2>4. \A n : InumIn(s, Led(s, sl, k), n) = Led(s, sl, k)
    BY ErrorFacts DEF InumIn
  <2> QED
    BY <2>1, <2>2, <2>3, <2>4
<1>4. 0 .. N \subseteq S
  <2> HIDE DEF S, N
  <2> QED
    BY <1>1, <1>2, <1>3, UpToLength
<1>5. e - k \in 0 .. N /\ k + (e - k) = e
  BY <1>1
<1>6. Led(s, sl, k + (e - k)) = Led(s, sl, k)
  BY <1>4, <1>5
<1> QED
  BY <1>5, <1>6

\* nothing but empty components leads to a file once one has led to it
LEMMA FileStays ==
  ASSUME NEW s \in Images, UniqueTables(s), NEW sl \in Components,
         NEW k \in 0 .. Len(sl), Led(s, sl, k) \in Inums, ~IsDir(s, Led(s, sl, k)),
         NEW e \in k + 1 .. Len(sl)
  PROVE  Led(s, sl, e) = ENOTDIR \/ (Led(s, sl, e) = Led(s, sl, k) /\ sl[e] = Empty)
<1> DEFINE Holds(j) == \/ Led(s, sl, j) = ENOTDIR
                       \/ Led(s, sl, j) = Led(s, sl, k) /\ (j > k => sl[j] = Empty)
           S == {m \in 0 .. Len(sl) - k : Holds(k + m)}
           N == Len(sl) - k
<1>1. Len(sl) \in Nat /\ N \in Nat /\ k + 0 = k /\ ~(k > k)
  BY DEF Components
<1>2. 0 \in S
  BY <1>1
<1>3. ASSUME NEW m \in 0 .. N - 1, m \in S PROVE m + 1 \in S
  <2> DEFINE j == k + (m + 1)
  <2>1. m + 1 \in 0 .. N /\ j \in 1 .. Len(sl) /\ j - 1 = k + m
    BY <1>1
  <2>2. Led(s, sl, j - 1) = ENOTDIR \/ Led(s, sl, j - 1) = Led(s, sl, k)
    BY <1>3, <2>1
  <2> HIDE DEF j
  <2>3. Led(s, sl, j) = IF sl[j] = Empty THEN Led(s, sl, j - 1)
                        ELSE InumIn(s, Led(s, sl, j - 1), sl[j])
    BY <2>1, LedFacts
  <2>4. \A n : InumIn(s, ENOTDIR, n) = ENOTDIR /\ InumIn(s, Led(s, sl, k), n) = ENOTDIR
    <3>1. Led(s, sl, k) \in Nat /\ ENOTDIR < 0
      <4>1. Led(s, sl, k) \in Nat
        BY InumFacts
      <4>2. ENOTDIR < 0
        BY DEF ENOTDIR
      <4> QED
        BY <4>1, <4>2
    <3>2. \A n : InumIn(s, ENOTDIR, n) = ENOTDIR
      BY <3>1 DEF InumIn
    <3>3. \A i \in Nat : \A n : ~IsDir(s, i) => InumIn(s, i, n) = ENOTDIR
      BY DEF InumIn
    <3> QED
      BY <3>1, <3>2, <3>3
  <2>5. Holds(j)
    BY <2>2, <2>3, <2>4
  <2> QED
    BY <2>1, <2>5 DEF j
<1>4. 0 .. N \subseteq S
  <2> HIDE DEF S, N
  <2> QED
    BY <1>1, <1>2, <1>3, UpToLength
<1>5. e - k \in 0 .. N /\ k + (e - k) = e /\ e > k
  BY <1>1
<1> QED
  BY <1>4, <1>5

(* The last named component, which path_comps_pop finds and before which   *)
(* slist_copy stops.                                                       *)
LastNamed(sl, e, n) ==
  /\ e \in 1 .. Len(sl) - 1 /\ n \in Names /\ sl[e + 1] = n
  /\ \A k \in e + 2 .. Len(sl) : sl[k] = Empty

LEMMA PopFacts ==
  ASSUME NEW sl \in Components, sl[1] = Empty, Pop(sl) >= 0
  PROVE  /\ LastNamed(sl, Pop(sl), sl[Pop(sl) + 1])
         /\ Part(sl, 1, Pop(sl), Copy(sl, Pop(sl)))
<1> DEFINE K == {k \in DOMAIN sl : sl[k] # Empty}
           m == Max(K \cup {0})
           e == Pop(sl)
           l == Min({e, Len(sl)})
<1>1. Len(sl) \in Nat /\ DOMAIN sl = 1 .. Len(sl) /\ \A k \in 1 .. Len(sl) : sl[k] \in Names \cup {Empty}
  BY DEF Components
<1>2. m \in K \cup {0} /\ \A k \in K : k <= m
  <2>1. K \cup {0} \subseteq 0 .. Len(sl) /\ K \cup {0} # {}
    BY <1>1
  <2> HIDE DEF K
  <2> QED
    BY <1>1, <2>1, MaxFacts
<1>3. e = m - 1
  BY DEF Pop
<1> HIDE DEF m, e
<1>4. m \in Int /\ m >= 1
  <2>1. m \in Int
    BY <1>1, <1>2
  <2>2. e >= 0
    BY DEF e
  <2> QED
    BY <1>3, <2>1, <2>2
<1>5. m \in 1 .. Len(sl) /\ sl[m] \in Names /\ m # 1
  BY <1>1, <1>2, <1>4
<1>6. e \in 1 .. Len(sl) - 1 /\ e + 1 = m /\ e \in Nat
  BY <1>1, <1>3, <1>5
<1>7. \A k \in e + 2 .. Len(sl) : sl[k] = Empty
  <2> SUFFICES ASSUME NEW k \in e + 2 .. Len(sl), sl[k] # Empty PROVE FALSE
    OBVIOUS
  <2>1. k \in 1 .. Len(sl) /\ ~(k <= m)
    BY <1>1, <1>6
  <2> QED
    BY <1>1, <1>2, <2>1
<1> HIDE DEF K
<1>8. l = e
  <2> DEFINE S == {e, Len(sl)}
  <2>1. S \subseteq Nat /\ S # {} /\ e \in S
    BY <1>1, <1>6
  <2>2. l \in S /\ l <= e
    <3> HIDE DEF S
    <3>1. Min(S) \in S /\ Min(S) <= e
      BY <2>1, MinFacts
    <3> QED
      BY <3>1 DEF S
  <2> HIDE DEF l
  <2>3. ~(Len(sl) <= e)
    BY <1>1, <1>6
  <2> QED
    BY <2>2, <2>3
<1> HIDE DEF l
<1>9. Copy(sl, e) = SubSeq(sl, 1, e)
  BY <1>8 DEF Copy, l
<1>10. Part(sl, 1, e, SubSeq(sl, 1, e))
  <2>1. /\ SubSeq(sl, 1, e) \in Components /\ Len(SubSeq(sl, 1, e)) = e
        /\ \A k \in 1 .. e : SubSeq(sl, 1, e)[k] = sl[k]
    <3>1. \A k \in 1 .. e : sl[k] \in Names \cup {Empty}
      BY <1>1, <1>6
    <3>2. /\ SubSeq(sl, 1, e) \in Seq(Names \cup {Empty})
          /\ Len(SubSeq(sl, 1, e)) = IF 1 <= e THEN e - 1 + 1 ELSE 0
          /\ \A k \in 1 .. e - 1 + 1 : SubSeq(sl, 1, e)[k] = sl[1 + k - 1]
      BY <1>6, <3>1, SubSeqProperties
    <3> QED
      BY <1>6, <3>2 DEF Components
  <2> DEFINE r == SubSeq(sl, 1, e)
  <2> HIDE DEF r
  <2>2. r \in Components /\ Len(r) = e + 1 - 1 /\ \A k \in 1 .. Len(r) : r[k] = sl[1 - 1 + k]
    BY <1>6, <2>1 DEF r
  <2> QED
    BY <2>2 DEF Part, r
<1> QED
  BY <1>5, <1>6, <1>7, <1>9, <1>10 DEF LastNamed, e

(***************************************************************************)
(* The invariant.                                                          *)
(***************************************************************************)

(* How many components a call walks, the name it has split off, and the    *)
(* state of the walk: c the call, l the components left, a the directory   *)
(* reached, f what it found.                                               *)
ToWalk(t, c) == IF c = Empty THEN Len(Explode(t)) ELSE Pop(Explode(t))

Asked(t, c) ==
  t \in Texts /\ (c # Empty => LastNamed(Explode(t), Pop(Explode(t)), c))

Underway(s, t, c, l, a) ==
  \E j \in 1 .. ToWalk(t, c) :
    /\ Part(Explode(t), j, ToWalk(t, c), l)
    /\ a = Led(s, Explode(t), j - 1)
    /\ IsDir(s, a)

WalkOK(s, v, p, t, c, l, a, f) ==
  /\ p \in {"idle", "walk", "done"}
  /\ p # "idle" => v # "abort" /\ Asked(t, c)
  /\ p = "walk" => Underway(s, t, c, l, a)
  /\ p = "done" => f = Ended(s, Explode(t), ToWalk(t, c))

WalkInv == IInv /\ WalkOK(fs, rv, pc, text, child, comps, at, found)

LEMMA AskedFacts ==
  ASSUME NEW t, NEW c, Asked(t, c)
  PROVE  /\ t \in Texts /\ Explode(t) \in Components /\ Len(Explode(t)) \in Nat \ {0}
         /\ ToWalk(t, c) \in 1 .. Len(Explode(t))
<1> DEFINE sl == Explode(t)
<1>1. t \in Texts /\ sl \in Components /\ Len(sl) \in Nat \ {0}
  BY ExplodeFacts DEF Asked
<1>2. c # Empty => Pop(sl) \in 1 .. Len(sl) - 1
  BY DEF Asked, LastNamed
<1>3. ToWalk(t, c) = IF c = Empty THEN Len(sl) ELSE Pop(sl)
  BY DEF ToWalk
<1> HIDE DEF sl
<1>4. ToWalk(t, c) \in 1 .. Len(sl)
  BY <1>1, <1>2, <1>3
<1> QED
  BY <1>1, <1>4 DEF sl

LEMMA StartKeeps ==
  ASSUME WalkInv, NEW t \in Texts, InumForPath(t) \/ ParentChild(t)
  PROVE  WalkOK(fs', rv', pc', text', child', comps', at', found')
<1> DEFINE sl == Explode(t)
<1>1. /\ sl \in Components /\ Len(sl) \in Nat \ {0} /\ sl[1] = Empty
  BY ExplodeFacts
<1>2. /\ fs' = fs /\ rv' = rv /\ rv # "abort" /\ pc' = "walk" /\ text' = t /\ at' = ROOT_INUM
  BY DEF InumForPath, ParentChild, Start
<1>3. Sane(fs)
  BY <1>2 DEF WalkInv, IInv
<1>4. IsDir(fs, ROOT_INUM)
  BY <1>3, InumFacts DEF Sane, Rooted, IsDir
<1>5. ROOT_INUM = Led(fs, sl, 1 - 1)
  <2>1. Led(fs, sl, 0) = ROOT_INUM
    BY <1>1, <1>3, SaneTables, LedFacts
  <2> QED
    BY <2>1
<1>6. Asked(t, child') /\ Part(sl, 1, ToWalk(t, child'), comps')
  <2>1. CASE InumForPath(t)
    <3>1. child' = Empty /\ comps' = sl
      BY <2>1 DEF InumForPath, Start
    <3>2. ToWalk(t, child') = Len(sl)
      BY <3>1 DEF ToWalk
    <3> HIDE DEF sl
    <3>3. Part(sl, 1, Len(sl), sl)
      <4>1. Len(sl) = Len(sl) + 1 - 1 /\ \A k \in 1 .. Len(sl) : sl[k] = sl[1 - 1 + k]
        BY <1>1
      <4> QED
        BY <1>1, <4>1 DEF Part
    <3> QED
      BY <3>1, <3>2, <3>3 DEF Asked
  <2>2. CASE ParentChild(t)
    <3>1. Pop(sl) >= 0 /\ child' = sl[Pop(sl) + 1] /\ comps' = Copy(sl, Pop(sl))
      BY <2>2 DEF ParentChild, Start
    <3>2. /\ LastNamed(sl, Pop(sl), child')
          /\ Part(sl, 1, Pop(sl), comps')
      BY <1>1, <3>1, PopFacts
    <3>3. child' # Empty
      BY <3>2, TextAssumption DEF LastNamed
    <3> QED
      BY <3>2, <3>3 DEF Asked, ToWalk
  <2> QED
    BY <2>1, <2>2
<1>7. ToWalk(t, child') \in 1 .. Len(sl)
  BY <1>6, AskedFacts
<1>8. 1 \in 1 .. ToWalk(t, child')
  BY <1>1, <1>7
<1>9. Underway(fs, t, child', comps', ROOT_INUM)
  BY <1>4, <1>5, <1>6, <1>8 DEF Underway
<1> QED
  BY <1>2, <1>6, <1>9 DEF WalkOK

LEMMA HopKeeps ==
  ASSUME WalkInv, Hop
  PROVE  WalkOK(fs', rv', pc', text', child', comps', at', found')
<1> DEFINE sl == Explode(text)
           e == ToWalk(text, child)
<1>1. /\ pc = "walk" /\ rv # "abort" /\ Asked(text, child) /\ Underway(fs, text, child, comps, at)
  BY DEF WalkInv, WalkOK, Hop
<1>2. Sane(fs)
  BY <1>1 DEF WalkInv, IInv
<1>3. fs \in Images /\ UniqueTables(fs)
  BY <1>2, SaneTables
<1>4. sl \in Components /\ Len(sl) \in Nat /\ e \in 1 .. Len(sl)
  BY <1>1, AskedFacts
<1>5. PICK j \in 1 .. e : Part(sl, j, e, comps) /\ at = Led(fs, sl, j - 1) /\ IsDir(fs, at)
  BY <1>1 DEF Underway
<1>6. /\ fs' = fs /\ rv' = rv /\ text' = text /\ child' = child
  BY DEF Hop, SkipEmpty, LastEmpty, Missing, LastName, ThroughFile, Enter, GoOn, Return
<1> HIDE DEF sl, e
<1>7. j \in Nat /\ e \in Nat /\ j <= e /\ j \in 1 .. Len(sl)
  BY <1>4, <1>5
<1>8. /\ comps # <<>> /\ Head(comps) = sl[j] /\ Len(comps) = e + 1 - j
      /\ Part(sl, j + 1, e, Tail(comps))
  BY <1>5, <1>7, PartHead
<1>9. Led(fs, sl, j) = IF sl[j] = Empty THEN at ELSE InumIn(fs, at, sl[j])
  BY <1>3, <1>4, <1>5, <1>7, LedFacts
<1>10. at \in Nat /\ at \in Inums
  BY <1>5, InumFacts DEF IsDir
<1>11. sl[j] # Empty =>
         /\ Entered < 0 => Led(fs, sl, j) = ENOENT
         /\ Entered >= 0 => Led(fs, sl, j) = Entered
  <2> SUFFICES ASSUME sl[j] # Empty
               PROVE  /\ Entered < 0 => Led(fs, sl, j) = ENOENT
                      /\ Entered >= 0 => Led(fs, sl, j) = Entered
    OBVIOUS
  <2>1. Led(fs, sl, j) = InumIn(fs, at, sl[j]) /\ Entered = LookupInum(fs.table[at], sl[j])
    BY <1>8, <1>9 DEF Entered
  <2> DEFINE i == LookupInum(fs.table[at], sl[j])
  <2>2. i \in Nat \cup {Unused}
    <3>1. fs.table[at] \in Tables /\ Unique(fs.table[at])
      BY <1>3, <1>10, ImageFacts DEF UniqueTables
    <3> QED
      BY <3>1, LookupBound
  <2>3. InumIn(fs, at, sl[j]) = IF i < 0 THEN ENOENT ELSE i
    BY <1>5, <1>10 DEF InumIn
  <2> HIDE DEF i
  <2>4. i < 0 \/ i >= 0
    BY <2>2 DEF Unused
  <2>5. ~(i < 0 /\ i >= 0)
    BY <2>2 DEF Unused
  <2> QED
    BY <2>1, <2>3, <2>5 DEF i
<1>12. Len(comps) > 1 <=> j + 1 \in 1 .. e
  BY <1>7, <1>8
<1>13. Len(comps) = 1 <=> j = e
  BY <1>7, <1>8
<1>14. ASSUME pc' = "walk", comps' = Tail(comps), at' = Led(fs, sl, j), IsDir(fs, at'), j + 1 \in 1 .. e
       PROVE  WalkOK(fs', rv', pc', text', child', comps', at', found')
  <2>1. (j + 1) - 1 = j
    BY <1>7
  <2>2. Underway(fs, text, child, comps', at')
    BY <1>8, <1>14, <2>1 DEF Underway, sl, e
  <2> QED
    BY <1>1, <1>6, <1>14, <2>2 DEF WalkOK
<1>15. ASSUME pc' = "done", found' = Ended(fs, sl, e)
       PROVE  WalkOK(fs', rv', pc', text', child', comps', at', found')
  BY <1>1, <1>6, <1>15 DEF WalkOK, sl, e
<1>16. CASE SkipEmpty
  <2>1. /\ Head(comps) = Empty /\ Len(comps) > 1 /\ comps' = Tail(comps) /\ at' = at /\ pc' = "walk"
    BY <1>1, <1>16 DEF SkipEmpty, GoOn
  <2> QED
    BY <1>5, <1>8, <1>9, <1>12, <1>14, <2>1
<1>17. CASE LastEmpty
  <2>1. comps = <<Empty>> /\ pc' = "done" /\ found' = at
    BY <1>17 DEF LastEmpty, Return
  <2>2. Len(comps) = 1 /\ Head(comps) = Empty
    BY <2>1
  <2>3. Led(fs, sl, e) = at
    BY <1>8, <1>9, <1>13, <2>2
  <2>4. Ended(fs, sl, e) = at
    BY <1>5, <2>3 DEF Ended
  <2> QED
    BY <1>15, <2>1, <2>4
<1>18. CASE Missing
  <2>1. Head(comps) # Empty /\ Entered < 0 /\ pc' = "done" /\ found' = ENOENT
    BY <1>8, <1>18 DEF Missing, Return
  <2>2. Led(fs, sl, j) = ENOENT /\ ENOENT \in Errors
    BY <1>8, <1>11, <2>1 DEF Errors
  <2>3. j \in 0 .. Len(sl) /\ e \in j .. Len(sl)
    BY <1>4, <1>7
  <2>4. Led(fs, sl, e) = ENOENT
    BY <1>3, <1>4, <2>2, <2>3, ErrorStays
  <2>5. ~(ENOENT >= 0)
    BY DEF ENOENT
  <2>6. Ended(fs, sl, e) = ENOENT
    BY <2>4, <2>5 DEF Ended
  <2> QED
    BY <1>15, <2>1, <2>6
<1>19. CASE LastName
  <2>1. /\ Len(comps) = 1 /\ Head(comps) # Empty /\ Entered >= 0 /\ pc' = "done" /\ found' = Entered
    BY <1>19 DEF LastName, Return
  <2>2. Led(fs, sl, e) = Entered /\ sl[e] # Empty
    BY <1>8, <1>11, <1>13, <2>1
  <2>3. Ended(fs, sl, e) = Entered
    BY <2>2 DEF Ended
  <2> QED
    BY <1>15, <2>1, <2>3
<1>20. CASE ThroughFile
  <2>1. /\ Len(comps) > 1 /\ Head(comps) # Empty /\ Entered >= 0 /\ ~IsDir(fs, Entered)
        /\ pc' = "done" /\ found' = ENOTDIR
    BY <1>20 DEF ThroughFile, Return
  <2>2. Led(fs, sl, j) = Entered /\ ~IsDir(fs, Led(fs, sl, j)) /\ Led(fs, sl, j) >= 0
    BY <1>8, <1>11, <2>1
  <2>3. Led(fs, sl, j) \in Inums
    <3>1. j \in 0 .. Len(sl)
      BY <1>7
    <3>2. Led(fs, sl, j) \in Inums \cup Errors
      BY <1>3, <1>4, <3>1, LedFacts
    <3>3. \A x \in Errors : ~(x >= 0)
      BY ErrorFacts
    <3> QED
      BY <2>2, <3>2, <3>3
  <2>4. j \in 0 .. Len(sl) /\ e \in j + 1 .. Len(sl)
    BY <1>4, <1>7, <1>12, <2>1
  <2>5. Led(fs, sl, e) = ENOTDIR \/ (Led(fs, sl, e) = Led(fs, sl, j) /\ sl[e] = Empty)
    BY <1>3, <1>4, <2>2, <2>3, <2>4, FileStays
  <2>6. Ended(fs, sl, e) = ENOTDIR
    BY <2>2, <2>5 DEF Ended
  <2> QED
    BY <1>15, <2>1, <2>6
<1>21. CASE Enter
  <2>1. /\ Len(comps) > 1 /\ Head(comps) # Empty /\ Entered >= 0 /\ IsDir(fs, Entered)
        /\ comps' = Tail(comps) /\ at' = Entered /\ pc' = "walk"
    BY <1>1, <1>21 DEF Enter, GoOn
  <2> QED
    BY <1>8, <1>11, <1>12, <1>14, <2>1
<1> QED
  BY <1>16, <1>17, <1>18, <1>19, <1>20, <1>21 DEF Hop

(* The invariant of a lookup holds on every image the handlers leave.      *)
THEOREM WalkInvariant == WalkSpec => []WalkInv
<1>1. WalkInit => WalkInv
  <2> SUFFICES ASSUME WalkInit PROVE WalkInv
    OBVIOUS
  <2>1. Init /\ pc = "idle"
    BY DEF WalkInit
  <2>2. IInv
    BY <2>1, InitSane
  <2> QED
    BY <2>1, <2>2 DEF WalkInv, WalkOK
<1>2. WalkInv /\ [WalkNext]_<<vars, walk>> => WalkInv'
  <2> SUFFICES ASSUME WalkInv, [WalkNext]_<<vars, walk>> PROVE WalkInv'
    OBVIOUS
  <2>0. IInv /\ WalkOK(fs, rv, pc, text, child, comps, at, found)
    BY DEF WalkInv
  <2>1. CASE \E t \in Texts : InumForPath(t) \/ ParentChild(t)
    <3>1. PICK t \in Texts : InumForPath(t) \/ ParentChild(t)
      BY <2>1
    <3>2. WalkOK(fs', rv', pc', text', child', comps', at', found')
      BY <3>1, StartKeeps
    <3>3. UNCHANGED vars
      BY <3>1 DEF InumForPath, ParentChild, Start, vars
    <3> QED
      BY <2>0, <3>2, <3>3, NextIInv DEF WalkInv
  <2>2. CASE Hop
    <3>1. WalkOK(fs', rv', pc', text', child', comps', at', found')
      BY <2>2, HopKeeps
    <3>2. UNCHANGED vars
      BY <2>2 DEF Hop, SkipEmpty, LastEmpty, Missing, LastName, ThroughFile, Enter, GoOn, Return, vars
    <3> QED
      BY <2>0, <3>1, <3>2, NextIInv DEF WalkInv
  <2>3. CASE Forget
    <3>1. pc' = "idle" /\ UNCHANGED vars
      BY <2>3 DEF Forget, vars
    <3> QED
      BY <2>0, <3>1, NextIInv DEF WalkInv, WalkOK
  <2>4. CASE Handler
    <3>1. pc' = "idle" /\ Next
      BY <2>4 DEF Handler, walk
    <3> QED
      BY <2>0, <3>1, NextIInv DEF WalkInv, WalkOK
  <2>5. CASE UNCHANGED <<vars, walk>>
    <3>1. UNCHANGED vars /\ UNCHANGED walk
      BY <2>5
    <3>2. /\ fs' = fs /\ rv' = rv /\ pc' = pc /\ text' = text /\ child' = child
          /\ comps' = comps /\ at' = at /\ found' = found
      BY <3>1 DEF vars, walk
    <3>3. IInv'
      BY <2>0, <3>1, NextIInv
    <3> QED
      BY <2>0, <3>2, <3>3 DEF WalkInv
  <2> QED
    BY <2>1, <2>2, <2>3, <2>4, <2>5 DEF WalkNext
<1> QED
  BY <1>1, <1>2, PTL DEF WalkSpec

(* The assertions of inum_for_path_comps_in hold at every level of its     *)
(* recursion, for every text and every tree.                               *)
THEOREM WalksStayInDirs == WalkSpec => []WalkInDirs
<1>1. WalkInv => WalkInDirs
  BY DEF WalkInv, WalkOK, Underway, WalkInDirs
<1> QED
  BY <1>1, WalkInvariant, PTL

(* The recursion over the components, with its special cases for empty     *)
(* ones, finds what walking the names of the path finds: what Storage      *)
(* takes the lookup of a path to be is what path.c computes.               *)
THEOREM LookupsResolve == WalkSpec => []LookupIsResolve
<1>1. ASSUME WalkInv, pc = "done", child = Empty PROVE found = ToFind(text)
  <2> DEFINE sl == Explode(text)
             i == Led(fs, sl, Len(sl))
             n == Len(text)
  <2>1. Asked(text, child) /\ found = Ended(fs, sl, Len(sl)) /\ rv # "abort"
    BY <1>1 DEF WalkInv, WalkOK, ToWalk
  <2>2. text \in Texts /\ n \in Nat \ {0}
    BY <2>1, TextFacts DEF Asked
  <2>3. /\ sl \in Components /\ Len(sl) \in Nat \ {0}
        /\ NamesFcn(sl, Empty)[Len(sl)] = NamesIn(text)
        /\ sl[Len(sl)] = Empty <=> EndsTwice(text, n)
    BY <2>2, ExplodeFacts
  <2>4. i = Resolve(fs, NamesIn(text))
    BY <2>3 DEF Led
  <2>5. found = IF i >= 0 /\ ~IsDir(fs, i) /\ sl[Len(sl)] = Empty THEN ENOTDIR ELSE i
    BY <2>1 DEF Ended
  <2>6. n = 1 => IsDir(fs, i)
    <3> SUFFICES ASSUME n = 1 PROVE IsDir(fs, i)
      OBVIOUS
    <3>1. /\ NamesFcn(text, Delim)[0] = <<>>
          /\ NamesFcn(text, Delim)[1] = IF text[1] = Delim THEN NamesFcn(text, Delim)[1 - 1]
                                        ELSE Append(NamesFcn(text, Delim)[1 - 1], text[1])
      <4>1. text \in Seq(Names \cup {Delim}) /\ 1 \in 1 .. Len(text)
        BY <2>2, TextFacts
      <4> HIDE DEF sl, i, n
      <4>2. /\ NamesFcn(text, Delim)[0] = <<>>
            /\ \A k \in 1 .. Len(text) :
                 NamesFcn(text, Delim)[k] = IF text[k] = Delim THEN NamesFcn(text, Delim)[k - 1]
                                            ELSE Append(NamesFcn(text, Delim)[k - 1], text[k])
        BY <4>1, NamesFacts
      <4> QED
        BY <4>1, <4>2
    <3>2. NamesFcn(text, Delim)[1] = <<>>
      <4>1. text[1] = Delim /\ 1 - 1 = 0
        BY <2>2, TextFacts
      <4> QED
        BY <3>1, <4>1
    <3>3. NamesIn(text) = <<>>
      BY <3>2, NamesInIs
    <3>4. i = ROOT_INUM
      <4>1. <<>> \in Seq(Names)
        OBVIOUS
      <4>2. Resolve(fs, <<>>) = ROOT_INUM
        BY <4>1, ResolveUnfold
      <4> QED
        BY <2>4, <3>3, <4>2
    <3>5. Sane(fs)
      BY <1>1, <2>1 DEF WalkInv, IInv
    <3> QED
      BY <3>4, <3>5, InumFacts DEF Sane, Rooted, IsDir
  <2> HIDE DEF i
  <2>7. n > 1 <=> n # 1
    <3> HIDE DEF n
    <3> QED
      BY <2>2
  <2>8. ToFind(text) = IF i >= 0 /\ ~IsDir(fs, i) /\ n > 1 /\ text[n] = Delim /\ text[n - 1] = Delim
                         THEN ENOTDIR ELSE i
    BY <2>4 DEF ToFind
  <2> HIDE DEF n, sl
  <2> QED
    BY <2>3, <2>5, <2>6, <2>7, <2>8 DEF EndsTwice
<1>2. WalkInv => LookupIsResolve
  BY <1>1 DEF LookupIsResolve
<1> QED
  BY <1>2, WalkInvariant, PTL

(* path_parent_child_in answers the directory in which the name it splits  *)
(* off is the last name of the path, however many delimiters stand around  *)
(* that name: the entry a handler adds or removes by name is the one its   *)
(* lookup by path has found.                                               *)
THEOREM ParentsHoldChildren == WalkSpec => []ParentHoldsChild
<1>1. ASSUME WalkInv, pc = "done", child # Empty
      PROVE  LET d == Parent(fs, NamesIn(text))
                 i == Resolve(fs, NamesIn(text)) IN
             IF IsDir(fs, d)
               THEN found = d /\ LookupInum(fs.table[d], child) = IF i < 0 THEN Unused ELSE i
               ELSE ~IsDir(fs, found)
  <2> DEFINE sl == Explode(text)
             e == Pop(sl)
             d == Parent(fs, NamesIn(text))
             i == Resolve(fs, NamesIn(text))
             P == NamesFcn(sl, Empty)
             L == Len(sl)
  <2>1. /\ Asked(text, child) /\ found = Ended(fs, sl, e) /\ rv # "abort"
    BY <1>1 DEF WalkInv, WalkOK, ToWalk
  <2>2. Sane(fs)
    BY <1>1, <2>1 DEF WalkInv, IInv
  <2>3. fs \in Images /\ UniqueTables(fs)
    BY <2>2, SaneTables
  <2>4. text \in Texts /\ LastNamed(sl, e, child)
    BY <1>1, <2>1 DEF Asked
  <2>5. sl \in Components /\ L \in Nat \ {0} /\ P[L] = NamesIn(text)
    BY <2>4, ExplodeFacts
  <2>6. /\ e \in 1 .. L - 1 /\ child \in Names /\ sl[e + 1] = child
        /\ \A k \in e + 2 .. L : sl[k] = Empty
    BY <2>4 DEF LastNamed
  <2>7. /\ \A k \in 1 .. L : P[k] = IF sl[k] = Empty THEN P[k - 1] ELSE Append(P[k - 1], sl[k])
        /\ \A k \in 0 .. L : P[k] \in Seq(Names)
    BY <2>5, ComponentNames
  <2>8. Led(fs, sl, e) = Resolve(fs, P[e]) /\ Led(fs, sl, e) \in Inums \cup Errors
    <3>1. e \in 0 .. L
      BY <2>5, <2>6
    <3> QED
      BY <2>3, <2>5, <3>1, LedFacts DEF Led
  <2> HIDE DEF P, sl, e, L
  <2>9. /\ e \in Nat /\ e + 1 \in 1 .. L /\ e \in 0 .. L /\ (e + 1) - 1 = e /\ L - (e + 1) \in Nat
        /\ e + 1 + (L - (e + 1)) = L
    BY <2>5, <2>6
  <2>10. P[e + 1] = Append(P[e], child) /\ P[e] \in Seq(Names)
    <3>1. sl[e + 1] # Empty
      BY <2>6, TextAssumption
    <3> QED
      BY <2>6, <2>7, <2>9, <3>1
  <2>11. P[L] = P[e + 1]
    <3> DEFINE N == L - (e + 1)
               S == {m \in 0 .. N : P[e + 1 + m] = P[e + 1]}
    <3>1. 0 \in S
      <4>1. 0 \in 0 .. N /\ e + 1 + 0 = e + 1
        BY <2>9
      <4> QED
        BY <4>1
    <3>2. ASSUME NEW m \in 0 .. N - 1, m \in S PROVE m + 1 \in S
      <4>1. /\ m + 1 \in 0 .. N /\ e + 1 + (m + 1) \in 1 .. L /\ e + 1 + (m + 1) \in e + 2 .. L
            /\ (e + 1 + (m + 1)) - 1 = e + 1 + m
        BY <2>5, <2>9
      <4>2. P[e + 1 + (m + 1)] = P[e + 1 + m]
        BY <2>6, <2>7, <4>1
      <4>3. P[e + 1 + m] = P[e + 1]
        BY <3>2
      <4> QED
        BY <4>1, <4>2, <4>3
    <3>3. 0 .. N \subseteq S
      <4> HIDE DEF S
      <4>1. N \in Nat
        BY <2>9
      <4> HIDE DEF N
      <4> QED
        BY <3>1, <3>2, <4>1, UpToLength
    <3>4. N \in 0 .. N
      BY <2>9
    <3>5. P[e + 1 + N] = P[e + 1]
      BY <3>3, <3>4
    <3> QED
      BY <2>9, <3>5
  <2>12. /\ NamesIn(text) = Append(P[e], child)
         /\ Front(NamesIn(text)) = P[e] /\ Last(NamesIn(text)) = child
         /\ NamesIn(text) \in Seq(Names) /\ NamesIn(text) # <<>>
    BY <2>5, <2>6, <2>10, <2>11, AppendPath
  <2>13. d = Led(fs, sl, e)
    BY <2>8, <2>12 DEF Parent
  <2>14. i = InumIn(fs, d, child)
    BY <2>12, ResolveUnfold DEF Parent
  <2> HIDE DEF d, i
  <2>15. found = IF d >= 0 /\ ~IsDir(fs, d) /\ sl[e] = Empty THEN ENOTDIR ELSE d
    BY <2>1, <2>13 DEF Ended
  <2>16. ENOTDIR \notin Inums
    BY ErrorFacts DEF Errors
  <2>17. CASE IsDir(fs, d)
    <3>1. d \in Inums /\ d \in Nat /\ found = d
      BY <2>15, <2>17, InumFacts DEF IsDir
    <3>2. fs.table[d] \in Tables /\ Unique(fs.table[d])
      BY <2>3, <3>1, ImageFacts DEF UniqueTables
    <3> DEFINE l == LookupInum(fs.table[d], child)
    <3>3. l \in Nat \cup {Unused}
      BY <3>2, LookupBound
    <3>4. i = IF l < 0 THEN ENOENT ELSE l
      BY <2>14, <2>17, <3>1 DEF InumIn
    <3> HIDE DEF l
    <3>5. l = IF i < 0 THEN Unused ELSE i
      BY <3>3, <3>4 DEF Unused, ENOENT
    <3> QED
      BY <2>17, <3>1, <3>5 DEF d, i, l
  <2>18. CASE ~IsDir(fs, d)
    <3>1. ~IsDir(fs, found)
      BY <2>15, <2>16, <2>18 DEF IsDir
    <3> QED
      BY <2>18, <3>1 DEF d
  <2> QED
    BY <2>17, <2>18
<1>2. WalkInv => ParentHoldsChild
  BY <1>1 DEF ParentHoldsChild
<1> QED
  BY <1>2, WalkInvariant, PTL
=============================================================================
