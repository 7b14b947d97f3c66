---------------------------- MODULE TenancyProofs ----------------------------
(***************************************************************************)
(* When two tenants can meet on one full name.                             *)
(***************************************************************************)
EXTENDS Tenancy, SequenceTheorems, TLAPS

\* s is made of the parts of the full name of an organisation.
Layout(s, a, x) ==
    /\ s \in Seq(Char) /\ Len(s) = Len(a) + 3 + Len(x)
    /\ s[1] = "e"
    /\ \A i \in 1 .. Len(a) : s[i + 2] = a[i]
    /\ s[Len(a) + 3] = ":"
    /\ \A i \in 1 .. Len(x) : s[Len(a) + 3 + i] = x[i]

\* Concatenation of strings is associative.
LEMMA ConcatAssoc ==
    ASSUME NEW s \in Seq(Char), NEW t \in Seq(Char), NEW u \in Seq(Char)
    PROVE  (s \o t) \o u = s \o (t \o u)
BY ConcatAssociative

\* Where the characters of a concatenation are.
LEMMA Concat ==
    ASSUME NEW s \in Seq(Char), NEW t \in Seq(Char)
    PROVE  /\ s \o t \in Seq(Char) /\ Len(s \o t) = Len(s) + Len(t)
           /\ \A i \in 1 .. Len(s) : (s \o t)[i] = s[i]
           /\ \A i \in 1 .. Len(t) : (s \o t)[Len(s) + i] = t[i]
<1>1. /\ s \o t \in Seq(Char) /\ Len(s \o t) = Len(s) + Len(t)
      /\ \A i \in 1 .. Len(s) + Len(t) :
            (s \o t)[i] = IF i <= Len(s) THEN s[i] ELSE t[i - Len(s)]
  BY ConcatProperties, Zenon
<1>2. Len(s) \in Nat /\ Len(t) \in Nat
  OBVIOUS
<1>3. ASSUME NEW i \in 1 .. Len(s) PROVE (s \o t)[i] = s[i]
  BY <1>1, <1>2
<1>4. ASSUME NEW i \in 1 .. Len(t) PROVE (s \o t)[Len(s) + i] = t[i]
  <2>1. Len(s) + i \in 1 .. Len(s) + Len(t) /\ ~(Len(s) + i <= Len(s))
        /\ Len(s) + i - Len(s) = i
    BY <1>2
  <2>2. (s \o t)[Len(s) + i] = IF Len(s) + i <= Len(s) THEN s[Len(s) + i]
                              ELSE t[Len(s) + i - Len(s)]
    BY <1>1, <2>1
  <2>3. QED
    BY <2>1, <2>2
<1>5. QED
  BY <1>1, <1>3, <1>4

\* Where the parts of a name are in the full name of an organisation.
LEMMA NameLayout ==
    ASSUME NEW a \in Seq(Char), NEW x \in Seq(Char)
    PROVE  Layout(FullName(Enterprise(a), x), a, x)
<1> DEFINE s == FullName(Enterprise(a), x)
<1>1. PICK l \in Seq(Char) : l = <<"e", ":">> /\ Len(l) = 2 /\ l[1] = "e"
  <2>1. "e" \in Char /\ ":" \in Char
    BY DEF Char
  <2>2. <<"e", ":">> \in Seq(Char)
    BY <2>1
  <2>3. QED
    BY <2>2
<1>2. PICK c \in Seq(Char) : c = <<":">> /\ Len(c) = 1 /\ c[1] = ":"
  <2>1. ":" \in Char
    BY DEF Char
  <2>2. <<":">> \in Seq(Char)
    BY <2>1
  <2>3. QED
    BY <2>2
<1>3. s = ((l \o a) \o c) \o x
  BY <1>1, <1>2 DEF FullName, CachePrefix, Enterprise
<1>4. Len(a) \in Nat /\ Len(x) \in Nat
  OBVIOUS
<1>5. PICK m \in Seq(Char) : m = l \o a
  BY Concat
<1>6. Len(m) = 2 + Len(a) /\ m[1] = "e" /\ \A i \in 1 .. Len(a) : m[2 + i] = a[i]
  <2>1. m[1] = l[1]
    BY <1>1, <1>5, Concat
  <2>2. /\ Len(l \o a) = Len(l) + Len(a)
        /\ \A i \in 1 .. Len(a) : (l \o a)[Len(l) + i] = a[i]
    BY Concat, Zenon
  <2>3. QED
    BY <1>1, <1>5, <2>1, <2>2
<1>7. PICK n \in Seq(Char) : n = m \o c
  BY Concat
<1>8. /\ Len(n) = 3 + Len(a) /\ n[3 + Len(a)] = ":"
      /\ \A i \in 1 .. 2 + Len(a) : n[i] = m[i]
  <2>1. Len(n) = Len(m) + 1 /\ \A i \in 1 .. Len(m) : n[i] = m[i]
    BY <1>2, <1>7, Concat
  <2>2. n[Len(m) + 1] = c[1]
    BY <1>2, <1>7, Concat
  <2>3. QED
    BY <1>2, <1>4, <1>6, <2>1, <2>2
<1> HIDE DEF s
<1>9. s = n \o x
  BY <1>3, <1>5, <1>7
<1>10. /\ s \in Seq(Char) /\ Len(s) = Len(n) + Len(x)
       /\ \A i \in 1 .. Len(n) : s[i] = n[i]
       /\ \A i \in 1 .. Len(x) : s[Len(n) + i] = x[i]
  BY <1>9, Concat
<1>11. \A i \in 1 .. Len(a) : i + 2 = 2 + i /\ 2 + i \in 1 .. 2 + Len(a) /\ 2 + i \in 1 .. Len(n)
  BY <1>4, <1>8
<1>12. \A i \in 1 .. Len(a) : s[i + 2] = a[i]
  BY <1>6, <1>8, <1>10, <1>11
<1>13. s[1] = "e" /\ s[Len(a) + 3] = ":"
  BY <1>4, <1>6, <1>8, <1>10
<1>14. Layout(s, a, x)
  BY <1>4, <1>8, <1>10, <1>12, <1>13 DEF Layout
<1>15. QED
  BY <1>14 DEF s

\* Of two organisations that share a full name, the second has no shorter id if the
\* id of the first is plain: the colon behind the shorter id would be in the longer.
LEMMA PlainNotLonger ==
    ASSUME NEW a \in Seq(Char), NEW x \in Seq(Char), Plain(Enterprise(a)),
           NEW b \in Seq(Char), NEW y \in Seq(Char),
           FullName(Enterprise(a), x) = FullName(Enterprise(b), y)
    PROVE  Len(a) <= Len(b)
<1>0. PICK s : Layout(s, a, x) /\ Layout(s, b, y)
  BY NameLayout
<1>1. Len(a) \in Nat /\ Len(b) \in Nat
  OBVIOUS
<1>2. s[Len(b) + 3] = ":"
  BY <1>0 DEF Layout
<1>3. \A i \in 1 .. Len(a) : s[i + 2] = a[i] /\ a[i] # ":"
  <2>1. \A i \in 1 .. Len(a) : s[i + 2] = a[i]
    BY <1>0 DEF Layout
  <2>2. QED
    BY <2>1 DEF Plain, Enterprise
<1>4. SUFFICES ASSUME Len(b) < Len(a) PROVE FALSE
  BY <1>1
<1>5. Len(b) + 1 \in 1 .. Len(a) /\ Len(b) + 1 + 2 = Len(b) + 3
  BY <1>1, <1>4
<1>6. QED
  BY <1>2, <1>3, <1>5

\* TenantCtx::cache_prefix keeps tenants apart as long as no id contains a colon: the
\* full name tells the tenant and the name.
THEOREM PrefixInjective ==
    ASSUME NEW t \in TenantIds, NEW u \in TenantIds, Plain(t), Plain(u),
           NEW x \in Seq(Char), NEW y \in Seq(Char),
           FullName(t, x) = FullName(u, y)
    PROVE  t = u /\ x = y
<1>1. ASSUME NEW z \in Seq(Char)
      PROVE  /\ FullName(Personal, z) = <<"p", ":">> \o z
             /\ FullName(Personal, z)[1] = "p"
  <2>1. FullName(Personal, z) = <<"p", ":">> \o z
    BY DEF FullName, CachePrefix, Personal
  <2>2. <<"p", ":">> \in Seq(Char) /\ Len(<<"p", ":">>) = 2 /\ <<"p", ":">>[1] = "p"
    BY DEF Char
  <2>3. QED
    BY <2>1, <2>2, ConcatProperties
<1>2. CASE t = Personal /\ u = Personal
  <2>1. <<"p", ":">> \in Seq(Char)
    BY DEF Char
  <2>2. x = y
    <3>1. <<"p", ":">> \o x = <<"p", ":">> \o y
      BY <1>1, <1>2
    <3>2. QED
      BY <2>1, <3>1, ConcatSimplifications
  <2>3. QED
    BY <1>2, <2>2
<1>3. ASSUME NEW v \in TenantIds, v # Personal, NEW z \in Seq(Char)
      PROVE  FullName(v, z)[1] = "e"
  <2>1. PICK a \in Seq(Char) : v = Enterprise(a)
    BY <1>3 DEF TenantIds
  <2>2. Layout(FullName(Enterprise(a), z), a, z)
    BY NameLayout
  <2>3. QED
    BY <2>1, <2>2 DEF Layout
<1>4. CASE (t = Personal) # (u = Personal)
  <2>1. FullName(t, x)[1] # FullName(u, y)[1]
    BY <1>1, <1>3, <1>4
  <2>2. QED
    BY <2>1
<1>5. CASE t # Personal /\ u # Personal
  <2>1. PICK a \in Seq(Char) : t = Enterprise(a)
    BY <1>5 DEF TenantIds
  <2>2. PICK b \in Seq(Char) : u = Enterprise(b)
    BY <1>5 DEF TenantIds
  <2>3. PICK s : /\ s = FullName(Enterprise(a), x) /\ s = FullName(Enterprise(b), y)
                 /\ Layout(s, a, x) /\ Layout(s, b, y)
    BY <2>1, <2>2, NameLayout
  <2>4. Len(a) \in Nat /\ Len(b) \in Nat /\ Len(x) \in Nat /\ Len(y) \in Nat
    OBVIOUS
  <2>5. Len(a) <= Len(b) /\ Len(b) <= Len(a)
    BY <2>1, <2>2, <2>3, PlainNotLonger
  <2>6. Len(a) = Len(b)
    BY <2>4, <2>5
  <2>7. Len(x) = Len(y)
    BY <2>3, <2>4, <2>6 DEF Layout
  <2>8. \A i \in 1 .. Len(a) : a[i] = b[i]
    BY <2>3, <2>6 DEF Layout
  <2>9. \A i \in 1 .. Len(x) : x[i] = y[i]
    BY <2>3, <2>6, <2>7 DEF Layout
  <2>10. a = b /\ x = y
    BY <2>6, <2>7, <2>8, <2>9, SeqEqual
  <2>11. QED
    BY <2>1, <2>2, <2>10
<1>6. QED
  BY <1>2, <1>4, <1>5

\* The condition is needed: an organisation whose id goes on behind a colon meets, on a
\* name of its own, the one whose id ends there.
THEOREM ColonsMeet ==
    ASSUME NEW a \in Seq(Char), NEW b \in Seq(Char), NEW x \in Seq(Char)
    PROVE  FullName(Enterprise(a \o <<":">> \o b), x) = FullName(Enterprise(a), b \o <<":">> \o x)
<1> DEFINE l == <<"e", ":">>
           c == <<":">>
<1>1. l \in Seq(Char) /\ c \in Seq(Char)
  BY DEF Char
<1>2. /\ FullName(Enterprise((a \o c) \o b), x) = ((l \o ((a \o c) \o b)) \o c) \o x
      /\ FullName(Enterprise(a), (b \o c) \o x) = ((l \o a) \o c) \o ((b \o c) \o x)
  BY DEF FullName, CachePrefix, Enterprise
<1> HIDE DEF l, c
<1>3. /\ l \o a \in Seq(Char) /\ a \o c \in Seq(Char) /\ b \o c \in Seq(Char)
      /\ (l \o a) \o c \in Seq(Char)
  BY <1>1, ConcatProperties
<1>4. l \o ((a \o c) \o b) = ((l \o a) \o c) \o b
  <2>1. l \o ((a \o c) \o b) = (l \o (a \o c)) \o b
    <3> DEFINE k == a \o c
    <3>1. k \in Seq(Char)
      BY <1>3
    <3> HIDE DEF k
    <3>2. (l \o k) \o b = l \o (k \o b)
      BY <1>1, <3>1, ConcatAssoc
    <3>3. QED
      BY <3>2 DEF k
  <2>2. l \o (a \o c) = (l \o a) \o c
    BY <1>1, ConcatAssoc
  <2>3. QED
    BY <2>1, <2>2
<1>5. ((((l \o a) \o c) \o b) \o c) \o x = ((l \o a) \o c) \o ((b \o c) \o x)
  <2> DEFINE m == (l \o a) \o c
  <2>1. m \in Seq(Char)
    BY <1>3
  <2> HIDE DEF m
  <2>2. (m \o b) \o c = m \o (b \o c)
    BY <1>1, <2>1, ConcatAssoc
  <2>3. (m \o (b \o c)) \o x = m \o ((b \o c) \o x)
    BY <1>3, <2>1, ConcatAssoc
  <2>4. QED
    BY <2>2, <2>3 DEF m
<1>6. QED
  BY <1>2, <1>4, <1>5 DEF c
=============================================================================
