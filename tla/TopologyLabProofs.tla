------------------------- MODULE TopologyLabProofs --------------------------
(***************************************************************************)
(* Proofs about TopologyLab, for every set of documents and every number   *)
(* of operations: what a failed apply leaves behind, what a successful one *)
(* builds, and that what the document refers to is there.  Most of it      *)
(* rests on which calls a try block makes: the first lemmas say what the   *)
(* sequences of calls contain.  Two facts are about their order: links are *)
(* made before bridges, and of two routes to one destination the last      *)
(* stays.                                                                  *)
(***************************************************************************)
EXTENDS TopologyLab, WellFoundedInduction, TLAPS

-----------------------------------------------------------------------------
(* The calls of the try blocks, as sets                                    *)

\* The ends of the links.
Ends(d) == {l.a : l \in Elements(d.links)} \cup {l.b : l \in Elements(d.links)}

\* The bridge every member belongs to.
Members(d) == {<<VethIn(d), BrIn(d)>>, <<TapNames(d)[1], BrIn(d)>>,
               <<TapNames(d)[2], BrOut(d)>>, <<VethOut(d), BrOut(d)>>}

BuildSet(d) ==
    {<<"netns_add", n>> : n \in Elements(d.namespaces)}
      \cup {<<"veth", l.a, l.b>> : l \in Elements(d.links)}
      \cup {<<"address", l.a, l.net_a>> :
              l \in {x \in Elements(d.links) : x.net_a # "none"}}
      \cup {<<"address", l.b, l.net_b>> :
              l \in {x \in Elements(d.links) : x.net_b # "none"}}
      \cup {<<"bridge", b>> : b \in {BrIn(d), BrOut(d)}}
      \cup {<<"start", d>>}
      \cup {<<"await", t>> : t \in Elements(TapNames(d))}
      \cup {<<"attach", m[1], m[2]>> : m \in Members(d)}
      \cup {<<"up", i>> : i \in Wanted(d)
                                 \cup {VethIn(d), VethOut(d)}}
      \cup {<<"route", r.ns, r.dst, r.via>> : r \in Elements(d.routes)}

LinkSet(d) == {<<"link_del", i>> : i \in Wanted(d)}

NamespaceSet(d) == {<<"netns_del", n>> : n \in Elements(d.namespaces)}

-----------------------------------------------------------------------------
(* The inductive invariant                                                 *)

\* Whose lab the call in progress works on, and with which calls.
CallInv ==
    /\ current # NoDocument => Valid(current)
    /\ op \in {"apply", "undo"} => doc \in Documents /\ Valid(doc)
    /\ stage = "build" => op = "apply" /\ current = NoDocument
                            /\ todo \in Seq(BuildSet(doc))
    /\ stage \in {"stop", "links", "namespaces"} =>
          /\ victim \in Documents
          /\ IF op = "undo" THEN victim = doc /\ current = NoDocument
             ELSE victim = current
    /\ stage = "stop" => todo \in Seq({<<"stop", victim>>})
    /\ stage = "links" => todo \in Seq(LinkSet(victim))
    /\ stage = "namespaces" => todo \in Seq(NamespaceSet(victim))
    /\ stage = "idle" => todo = <<>>

IsKernel(k) ==
    k = [ns |-> k.ns, ifs |-> k.ifs, veth |-> k.veth, bridges |-> k.bridges,
         master |-> k.master, up |-> k.up, addr |-> k.addr, route |-> k.route]

KernelIs(k, ns, ifs, veth, bridges, master, up, addr, route) ==
    /\ IsKernel(k)
    /\ k.ns = ns /\ k.ifs = ifs /\ k.veth = veth /\ k.bridges = bridges
    /\ k.master = master /\ k.up = up /\ k.addr = addr /\ k.route = route

\* An interface lives in a namespace, and everything else on interfaces.
WellFormed(k) ==
    /\ IsKernel(k)
    /\ \A i \in k.ifs : i[1] \in k.ns
    /\ \A pair \in k.veth : pair # {} /\ pair \subseteq k.ifs
    /\ k.bridges \subseteq k.ifs
    /\ \A m \in k.master : m[1] \in k.ifs
    /\ k.up \subseteq k.ifs
    /\ \A x \in k.addr : x[1] \in k.ifs
    /\ \A r \in k.route : \E x \in k.addr : x[1] \in k.up

KernelInv == WellFormed(kernel)

\* A lab that was sound has only namespaces of its document; while they are
\* deleted, only those whose turn has not come.
OwnedInv ==
    sound =>
       /\ stage = "build" => kernel.ns \subseteq Elements(doc.namespaces)
       /\ stage \in {"stop", "links"} =>
             kernel.ns \subseteq Elements(victim.namespaces)
       /\ stage = "namespaces" =>
             \A n \in kernel.ns : <<"netns_del", n>> \in Elements(todo)

\* FailedApplyLeavesNothing.
FailedInv ==
    op = "none" /\ result = "error" /\ sound /\ current = NoDocument
      /\ ~undoFault => kernel = EmptyKernel

\* The two ends of a link are joined, or are loopbacks.
Joins(k, a, b) == \/ {a, b} \in k.veth
                  \/ a = Loopback(a[1]) /\ b = Loopback(b[1])

\* The effect of a call of apply; of routes Installed speaks.
Done(k, c) ==
    /\ c[1] = "netns_add" => c[2] \in k.ns
    /\ c[1] = "veth" => Joins(k, c[2], c[3])
    /\ c[1] = "address" => <<c[2], c[3]>> \in k.addr
    /\ c[1] = "attach" => <<c[2], c[3]>> \in k.master
    /\ c[1] = "up" => c[2] \in k.up

\* The routes a namespace has after the first n of a document.
Installed(d, n) ==
    {<<d.routes[i].ns, d.routes[i].dst, d.routes[i].via>> :
       i \in LastRoutes(d, n)}

\* How many routes have been installed when the calls of s are left.
RoutesMade(d, s) == IF Len(s) >= Len(d.routes) THEN 0
                    ELSE Len(d.routes) - Len(s)

\* s is what is left of t.
Ending(s, t) ==
    /\ Len(s) <= Len(t)
    /\ \A i \in 1..Len(s) : s[i] = t[(Len(t) - Len(s)) + i]

\* An attachment that a later one may undo: a port with the name of a
\* bridge-side interface is attached twice.
Unsettled(d, c) == c[1] = "attach" /\ ~SidesAreLinks(d)

\* Nothing is there that the document does not ask for, and what an interface
\* is can be told from the pairs and the bridges.
Bounded(k, d) ==
    /\ \A n \in k.ns : Loopback(n) \in k.ifs
    /\ k.ifs \subseteq Wanted(d)
                         \cup {Loopback(n) : n \in Elements(d.namespaces)}
    /\ k.up \subseteq Wanted(d)
    /\ k.master \subseteq Members(d)
    /\ \A pair \in k.veth : \E l \in Elements(d.links) : pair = {l.a, l.b}
    /\ \A i \in k.ifs : \/ i = Loopback(i[1]) \/ i \in UNION k.veth
                        \/ i \in k.bridges \/ i \in Elements(TapNames(d))

\* While a lab is built it holds what the calls so far are for, and nothing
\* else; the calls left are the last ones of apply, so that no link is made
\* after a bridge, and the routes are those of the calls made.
BuildInv ==
    sound /\ stage = "build" =>
       /\ Bounded(kernel, doc)
       /\ \A c \in BuildSet(doc) : \/ c \in Elements(todo) \/ Done(kernel, c)
                                   \/ Unsettled(doc, c)
       /\ Ending(todo, ApplyCalls(doc))
       /\ kernel.bridges # {} => \A c \in Elements(todo) : c[1] # "veth"
       /\ kernel.route = Installed(doc, RoutesMade(doc, todo))

\* SuccessIsComplete.
SuccessInv == op = "none" /\ result = "ok" /\ sound => Consistent

-----------------------------------------------------------------------------
(* Sequences of calls                                                      *)

\* What induction rests on here: a set of numbers has a least element.
LEMMA Least ==
    ASSUME NEW T \in SUBSET Nat, T # {}
    PROVE  \E n \in T : \A m \in T : n <= m
<1> DEFINE R == {ss \in Nat \X Nat : ss[1] < ss[2]}
<1>1. IsWellFoundedOn(R, Nat)
  BY NatLessThanWellFounded DEF OpToRel
<1>2. PICK n \in T : \A m \in T : ~(<<m, n>> \in R)
  BY <1>1, WFMin, Zenon
<1>3. ASSUME NEW m \in T PROVE n <= m
  <2>1. n \in Nat /\ m \in Nat /\ ~(<<m, n>> \in R)
    BY <1>2
  <2>2. ~(m < n)
    BY <2>1
  <2>3. QED
    BY <2>1, <2>2
<1>4. QED
  BY <1>3

\* f is the function with which FlattenSeq joins the first n sequences.
Flattens(f, seqs, n) ==
    f = [i \in 1..n |-> IF i = 1 THEN seqs[i] ELSE f[i - 1] \o seqs[i]]

\* There is one, although it is defined by itself.
LEMMA FlattensExists ==
    ASSUME NEW seqs, NEW n \in Nat
    PROVE  \E f : Flattens(f, seqs, n)
<1> DEFINE T == {m \in Nat : ~\E f : Flattens(f, seqs, m)}
<1>1. SUFFICES ASSUME T # {} PROVE FALSE
  OBVIOUS
<1>2. PICK m \in T : \A l \in T : m <= l
  BY <1>1, Least
<1>3. m \in Nat /\ ~\E f : Flattens(f, seqs, m)
  OBVIOUS
<1>4. m # 0
  <2>1. Flattens([i \in 1..0 |-> 0], seqs, 0)
    BY DEF Flattens
  <2>2. QED
    BY <1>3, <2>1
<1>5. m - 1 \in Nat /\ m - 1 \notin T
  BY <1>2, <1>3, <1>4
<1>6. PICK g : Flattens(g, seqs, m - 1)
  BY <1>5
<1> DEFINE last == IF m = 1 THEN seqs[m] ELSE g[m - 1] \o seqs[m]
           f == [i \in 1..m |-> IF i < m THEN g[i] ELSE last]
<1>7. ASSUME NEW i \in 1..m
      PROVE  f[i] = IF i = 1 THEN seqs[i] ELSE f[i - 1] \o seqs[i]
  <2>1. CASE i = m
    BY <1>3, <2>1
  <2>2. CASE i # m
    <3>1. i \in 1..(m - 1)
      BY <1>3, <2>2
    <3>2. g[i] = IF i = 1 THEN seqs[i] ELSE g[i - 1] \o seqs[i]
      BY <1>6, <3>1 DEF Flattens
    <3>3. QED
      BY <1>3, <3>1, <3>2
  <2>3. QED
    BY <2>1, <2>2
<1>8. Flattens(f, seqs, m)
  BY <1>7, Zenon DEF Flattens
<1>9. QED
  BY <1>3, <1>8

LEMMA Joined ==
    ASSUME NEW S, NEW s \in Seq(S), NEW t \in Seq(S)
    PROVE  /\ s \o t \in Seq(S)
           /\ Elements(s \o t) = Elements(s) \cup Elements(t)
<1>1. /\ s \o t \in Seq(S) /\ Len(s \o t) = Len(s) + Len(t)
      /\ DOMAIN s = 1..Len(s) /\ DOMAIN t = 1..Len(t)
      /\ DOMAIN (s \o t) = 1..(Len(s) + Len(t))
      /\ Len(s) \in Nat /\ Len(t) \in Nat
      /\ \A i \in DOMAIN s : (s \o t)[i] = s[i]
      /\ \A i \in DOMAIN t : (s \o t)[i + Len(s)] = t[i]
  OBVIOUS
<1>2. ASSUME NEW x \in Elements(s \o t)
      PROVE  x \in Elements(s) \cup Elements(t)
  <2>1. PICK i \in 1..(Len(s) + Len(t)) : x = (s \o t)[i]
    BY <1>1 DEF Elements
  <2>2. CASE i <= Len(s)
    BY <1>1, <2>1, <2>2 DEF Elements
  <2>3. CASE i > Len(s)
    <3>1. i - Len(s) \in DOMAIN t /\ i = (i - Len(s)) + Len(s)
      BY <1>1, <2>3
    <3>2. x = t[i - Len(s)]
      BY <1>1, <2>1, <3>1
    <3>3. QED
      BY <3>1, <3>2 DEF Elements
  <2>4. QED
    BY <1>1, <2>2, <2>3
<1>3. ASSUME NEW x \in Elements(s)
      PROVE  x \in Elements(s \o t)
  BY <1>1 DEF Elements
<1>4. ASSUME NEW x \in Elements(t)
      PROVE  x \in Elements(s \o t)
  <2>1. PICK i \in DOMAIN t : x = t[i]
    BY DEF Elements
  <2>2. i + Len(s) \in DOMAIN (s \o t) /\ x = (s \o t)[i + Len(s)]
    BY <1>1, <2>1
  <2>3. QED
    BY <2>2 DEF Elements
<1>5. QED
  BY <1>1, <1>2, <1>3, <1>4

\* FlattenSeq joins the elements of all sequences, and of no others.
LEMMA FlattenElements ==
    ASSUME NEW S, NEW seqs \in Seq(Seq(S))
    PROVE  /\ FlattenSeq(seqs) \in Seq(S)
           /\ \A x : x \in Elements(FlattenSeq(seqs)) <=>
                        \E i \in DOMAIN seqs : x \in Elements(seqs[i])
<1> DEFINE n == Len(seqs)
<1>1. n \in Nat /\ DOMAIN seqs = 1..n /\ \A i \in 1..n : seqs[i] \in Seq(S)
  OBVIOUS
<1>2. CASE n = 0
  BY <1>1, <1>2 DEF FlattenSeq, Elements
<1>3. CASE n # 0
  <2> DEFINE f == CHOOSE g : g = [i \in 1..n |->
                    IF i = 1 THEN seqs[i] ELSE g[i - 1] \o seqs[i]]
             Right(i) ==
               /\ f[i] \in Seq(S)
               /\ \A x : x \in Elements(f[i]) <=>
                            \E j \in 1..i : x \in Elements(seqs[j])
             T == {i \in 1..n : ~Right(i)}
  <2>1. FlattenSeq(seqs) = f[n]
    BY <1>3 DEF FlattenSeq
  <2>2. f = [i \in 1..n |-> IF i = 1 THEN seqs[i] ELSE f[i - 1] \o seqs[i]]
    <3>1. \E g : g = [i \in 1..n |->
                        IF i = 1 THEN seqs[i] ELSE g[i - 1] \o seqs[i]]
      BY <1>1, FlattensExists DEF Flattens
    <3>2. QED
      BY <3>1, Zenon
  <2> HIDE DEF f
  <2>3. T = {}
    <3>1. SUFFICES ASSUME T # {} PROVE FALSE
      OBVIOUS
    <3>2. T \in SUBSET Nat
      BY <1>1
    <3> HIDE DEF Right
    <3>3. PICK i \in T : \A l \in T : i <= l
      BY <3>1, <3>2, Least, Zenon
    <3>4. i \in 1..n /\ ~Right(i)
      BY <3>3
    <3>5. CASE i = 1
      <4>1. f[1] = seqs[1] /\ seqs[1] \in Seq(S)
        BY <1>1, <2>2, <3>4, <3>5
      <4>2. Right(1)
        BY <4>1 DEF Right
      <4>3. QED
        BY <3>4, <3>5, <4>2
    <3>6. CASE i # 1
      <4>1. i - 1 \in 1..n /\ i - 1 \notin T
        BY <1>1, <3>3, <3>4, <3>6
      <4>2. Right(i - 1)
        BY <4>1
      <4>3. f[i] = f[i - 1] \o seqs[i] /\ seqs[i] \in Seq(S)
        BY <1>1, <2>2, <3>4, <3>6
      <4>4. f[i - 1] \in Seq(S)
        BY <4>2 DEF Right
      <4>5. /\ f[i] \in Seq(S)
            /\ Elements(f[i]) = Elements(f[i - 1]) \cup Elements(seqs[i])
        BY <4>3, <4>4, Joined
      <4>6. 1..i = (1..(i - 1)) \cup {i}
        BY <3>4, <1>1
      <4>7. \A x : x \in Elements(f[i]) <=>
                      \E j \in 1..i : x \in Elements(seqs[j])
        BY <4>2, <4>5, <4>6 DEF Right
      <4>8. Right(i)
        BY <4>5, <4>7 DEF Right
      <4>9. QED
        BY <3>4, <4>8
    <3>7. QED
      BY <3>5, <3>6
  <2>4. Right(n)
    <3> HIDE DEF Right
    <3>1. n \in 1..n /\ n \notin T
      BY <1>1, <1>3, <2>3
    <3>2. QED
      BY <3>1
  <2>5. QED
    BY <1>1, <2>1, <2>4
<1>4. QED
  BY <1>2, <1>3

LEMMA Listed ==
    ASSUME NEW S, NEW n \in Nat, NEW f \in [1..n -> S]
    PROVE  f \in Seq(S)
OBVIOUS

LEMMA HeadAndTail ==
    ASSUME NEW S, NEW s \in Seq(S), s # <<>>
    PROVE  /\ Head(s) \in S /\ Tail(s) \in Seq(S)
           /\ Elements(s) = {Head(s)} \cup Elements(Tail(s))
<1>1. /\ Len(s) \in Nat /\ Len(s) # 0 /\ DOMAIN s = 1..Len(s)
      /\ Head(s) = s[1] /\ Head(s) \in S /\ Tail(s) \in Seq(S)
      /\ DOMAIN Tail(s) = 1..(Len(s) - 1)
      /\ \A i \in 1..(Len(s) - 1) : Tail(s)[i] = s[i + 1]
  OBVIOUS
<1>2. ASSUME NEW x \in Elements(s), x # Head(s)
      PROVE  x \in Elements(Tail(s))
  <2>1. PICK i \in 1..Len(s) : x = s[i]
    BY <1>1 DEF Elements
  <2>2. i - 1 \in 1..(Len(s) - 1) /\ i = (i - 1) + 1
    BY <1>1, <1>2, <2>1
  <2>3. x = Tail(s)[i - 1]
    BY <1>1, <2>1, <2>2
  <2>4. QED
    BY <1>1, <2>2, <2>3 DEF Elements
<1>3. ASSUME NEW x \in Elements(Tail(s))
      PROVE  x \in Elements(s)
  <2>1. PICK i \in 1..(Len(s) - 1) : x = Tail(s)[i]
    BY <1>1 DEF Elements
  <2>2. i + 1 \in 1..Len(s) /\ x = s[i + 1]
    BY <1>1, <2>1
  <2>3. QED
    BY <1>1, <2>2 DEF Elements
<1>4. Head(s) \in Elements(s)
  BY <1>1 DEF Elements
<1>5. QED
  BY <1>1, <1>2, <1>3, <1>4

LEMMA Reversed ==
    ASSUME NEW S, NEW s \in Seq(S)
    PROVE  Reverse(s) \in Seq(S) /\ Elements(Reverse(s)) = Elements(s)
<1> DEFINE n == Len(s)
<1>1. n \in Nat /\ DOMAIN s = 1..n /\ \A i \in 1..n : s[i] \in S
  OBVIOUS
<1>2. Reverse(s) = [i \in 1..n |-> s[(n - i) + 1]]
  BY DEF Reverse
<1> HIDE DEF n
<1>3. \A i \in 1..n : (n - i) + 1 \in 1..n /\ (n - ((n - i) + 1)) + 1 = i
  BY <1>1
<1>4. Reverse(s) \in Seq(S)
  BY <1>1, <1>2, <1>3
<1>5. ASSUME NEW x \in Elements(s)
      PROVE  x \in Elements(Reverse(s))
  <2>1. PICK i \in 1..n : x = s[i]
    BY <1>1 DEF Elements
  <2> DEFINE j == (n - i) + 1
  <2>2. j \in 1..n /\ (n - j) + 1 = i
    BY <1>3
  <2>3. Reverse(s)[j] = s[i]
    BY <1>2, <2>2
  <2>4. QED
    BY <1>2, <2>1, <2>2, <2>3 DEF Elements
<1>6. ASSUME NEW x \in Elements(Reverse(s))
      PROVE  x \in Elements(s)
  <2>1. PICK i \in 1..n : x = s[(n - i) + 1]
    BY <1>2 DEF Elements
  <2>2. QED
    BY <1>1, <1>3, <2>1 DEF Elements
<1>7. QED
  BY <1>4, <1>5, <1>6

LEMMA Shape ==
    ASSUME NEW d \in Documents
    PROVE  /\ d.namespaces \in Seq(STRING)
           /\ d.links \in Seq([name: STRING, a: STRING \X STRING,
                               b: STRING \X STRING, net_a: STRING,
                               net_b: STRING])
           /\ d.ports \in Seq([name: STRING, ns: STRING,
                               role: {"ingress", "egress"}])
           /\ d.routes \in Seq([ns: STRING, dst: STRING,
                                via: STRING \X STRING])
           /\ d.captures \in Seq([name: STRING, ns: STRING,
                                  interface: STRING])
BY DocumentsAssumption, Zenon

\* Endpoints lists the ends of the links.
LEMMA EndpointElements ==
    ASSUME NEW d \in Documents
    PROVE  Endpoints(d) \in Seq(Ends(d)) /\ Elements(Endpoints(d)) = Ends(d)
<1> DEFINE pairs == [i \in DOMAIN d.links |-> <<d.links[i].a, d.links[i].b>>]
<1>1. DOMAIN d.links = 1..Len(d.links) /\ Len(d.links) \in Nat
  BY Shape
<1>2. ASSUME NEW i \in DOMAIN d.links
      PROVE  /\ d.links[i].a \in Ends(d) /\ d.links[i].b \in Ends(d)
             /\ pairs[i] \in Seq(Ends(d))
             /\ Elements(pairs[i]) = {d.links[i].a, d.links[i].b}
  <2>1. d.links[i].a \in Ends(d) /\ d.links[i].b \in Ends(d)
    BY DEF Ends, Elements
  <2>2. pairs[i] = <<d.links[i].a, d.links[i].b>>
    OBVIOUS
  <2>3. QED
    BY <2>1, <2>2 DEF Elements
<1>3. pairs \in Seq(Seq(Ends(d))) /\ DOMAIN pairs = DOMAIN d.links
  <2>1. pairs \in [DOMAIN d.links -> Seq(Ends(d))]
    BY <1>2, Zenon
  <2>2. QED
    BY <1>1, <2>1, Listed, Zenon
<1>4. Endpoints(d) = FlattenSeq(pairs)
  BY DEF Endpoints
<1> HIDE DEF pairs
<1>5. /\ Endpoints(d) \in Seq(Ends(d))
      /\ \A x : x \in Elements(Endpoints(d)) <=>
                   \E i \in DOMAIN pairs : x \in Elements(pairs[i])
  BY <1>3, <1>4, FlattenElements
<1>6. \A i \in DOMAIN pairs : Elements(pairs[i]) = {d.links[i].a, d.links[i].b}
  BY <1>2, <1>3
<1>7. ASSUME NEW x \in Elements(Endpoints(d))
      PROVE  x \in Ends(d)
  <2>1. PICK i \in DOMAIN pairs : x \in {d.links[i].a, d.links[i].b}
    BY <1>5, <1>6
  <2>2. QED
    BY <1>2, <1>3, <2>1
<1>8. ASSUME NEW l \in Elements(d.links)
      PROVE  l.a \in Elements(Endpoints(d)) /\ l.b \in Elements(Endpoints(d))
  <2>1. PICK i \in DOMAIN d.links : l = d.links[i]
    BY DEF Elements
  <2>2. l.a \in Elements(pairs[i]) /\ l.b \in Elements(pairs[i])
    BY <1>3, <1>6, <2>1
  <2>3. QED
    BY <1>3, <1>5, <2>2
<1>9. QED
  BY <1>5, <1>7, <1>8 DEF Ends

\* The calls ensure_links makes.
LEMMA LinkElements ==
    ASSUME NEW d \in Documents
    PROVE  LET veths == {<<"veth", l.a, l.b>> : l \in Elements(d.links)}
               ofA == {<<"address", l.a, l.net_a>> :
                         l \in {x \in Elements(d.links) : x.net_a # "none"}}
               ofB == {<<"address", l.b, l.net_b>> :
                         l \in {x \in Elements(d.links) : x.net_b # "none"}}
           IN  /\ EnsureLinks(d) \in Seq(veths \cup ofA \cup ofB)
               /\ veths \cup ofA \cup ofB \subseteq Elements(EnsureLinks(d))
<1> DEFINE veths == {<<"veth", l.a, l.b>> : l \in Elements(d.links)}
           ofA == {<<"address", l.a, l.net_a>> :
                     l \in {x \in Elements(d.links) : x.net_a # "none"}}
           ofB == {<<"address", l.b, l.net_b>> :
                     l \in {x \in Elements(d.links) : x.net_b # "none"}}
           S == veths \cup ofA \cup ofB
           first(l) == <<<<"veth", l.a, l.b>>>>
           second(l) == IF l.net_a = "none" THEN <<>>
                        ELSE <<<<"address", l.a, l.net_a>>>>
           third(l) == IF l.net_b = "none" THEN <<>>
                       ELSE <<<<"address", l.b, l.net_b>>>>
           calls == [i \in DOMAIN d.links |->
                       first(d.links[i]) \o second(d.links[i])
                         \o third(d.links[i])]
<1>1. DOMAIN d.links = 1..Len(d.links) /\ Len(d.links) \in Nat
  BY Shape
<1>2. EnsureLinks(d) = FlattenSeq(calls)
  BY DEF EnsureLinks
<1>3. ASSUME NEW l \in Elements(d.links)
      PROVE  LET s == first(l) \o second(l) \o third(l)
             IN  /\ s \in Seq(S)
                 /\ <<"veth", l.a, l.b>> \in Elements(s)
                 /\ l.net_a # "none" => <<"address", l.a, l.net_a>> \in Elements(s)
                 /\ l.net_b # "none" => <<"address", l.b, l.net_b>> \in Elements(s)
  <2>1. /\ <<"veth", l.a, l.b>> \in S
        /\ l.net_a # "none" => <<"address", l.a, l.net_a>> \in S
        /\ l.net_b # "none" => <<"address", l.b, l.net_b>> \in S
    OBVIOUS
  <2> HIDE DEF S
  <2>2. first(l) \in Seq(S) /\ <<"veth", l.a, l.b>> \in Elements(first(l))
    BY <2>1 DEF Elements
  <2>3. /\ second(l) \in Seq(S)
        /\ l.net_a # "none" =>
              <<"address", l.a, l.net_a>> \in Elements(second(l))
    BY <2>1 DEF Elements
  <2>4. /\ third(l) \in Seq(S)
        /\ l.net_b # "none" =>
              <<"address", l.b, l.net_b>> \in Elements(third(l))
    BY <2>1 DEF Elements
  <2> HIDE DEF first, second, third
  <2> DEFINE front == first(l) \o second(l)
  <2>5. front \in Seq(S) /\ Elements(front)
                              = Elements(first(l)) \cup Elements(second(l))
    BY <2>2, <2>3, Joined
  <2> HIDE DEF front
  <2>6. /\ front \o third(l) \in Seq(S)
        /\ Elements(front \o third(l)) = Elements(front) \cup Elements(third(l))
    BY <2>4, <2>5, Joined
  <2>7. QED
    BY <2>2, <2>3, <2>4, <2>5, <2>6 DEF front
<1> HIDE DEF S, first, second, third
<1>4. calls \in Seq(Seq(S)) /\ DOMAIN calls = DOMAIN d.links
  <2>1. \A i \in DOMAIN d.links : d.links[i] \in Elements(d.links)
    BY DEF Elements
  <2>2. calls \in [DOMAIN d.links -> Seq(S)]
    BY <1>3, <2>1, Zenon
  <2>3. QED
    BY <1>1, <2>2, Listed, Zenon
<1>5. \A i \in DOMAIN d.links :
         calls[i] = first(d.links[i]) \o second(d.links[i])
                      \o third(d.links[i])
  OBVIOUS
<1> HIDE DEF calls
<1>6. /\ EnsureLinks(d) \in Seq(S)
      /\ \A x : x \in Elements(EnsureLinks(d)) <=>
                   \E i \in DOMAIN calls : x \in Elements(calls[i])
  BY <1>2, <1>4, FlattenElements
<1>7. ASSUME NEW l \in Elements(d.links)
      PROVE  \E i \in DOMAIN calls :
                calls[i] = first(l) \o second(l) \o third(l)
  <2>1. PICK i \in DOMAIN d.links : l = d.links[i]
    BY DEF Elements
  <2>2. QED
    BY <1>4, <1>5, <2>1
<1>8. ASSUME NEW l \in Elements(d.links)
      PROVE  /\ <<"veth", l.a, l.b>> \in Elements(EnsureLinks(d))
             /\ l.net_a # "none" =>
                   <<"address", l.a, l.net_a>> \in Elements(EnsureLinks(d))
             /\ l.net_b # "none" =>
                   <<"address", l.b, l.net_b>> \in Elements(EnsureLinks(d))
  BY <1>3, <1>6, <1>7, Zenon
<1>9. S \subseteq Elements(EnsureLinks(d))
  BY <1>8 DEF S
<1>10. QED
  BY <1>6, <1>9 DEF S

\* reconcile_taps: the members of the bridges, and the bridges, are set up.
LEMMA TapElements ==
    ASSUME NEW d
    PROVE  LET members == {VethIn(d), TapNames(d)[1], TapNames(d)[2],
                           VethOut(d), BrIn(d), BrOut(d)}
               calls == {<<"await", t>> : t \in Elements(TapNames(d))}
                          \cup {<<"attach", m[1], m[2]>> : m \in Members(d)}
                          \cup {<<"up", i>> : i \in members}
           IN  /\ Elements(TapNames(d)) = {TapNames(d)[1], TapNames(d)[2]}
               /\ ReconcileTaps(d) \in Seq(calls)
               /\ calls \subseteq Elements(ReconcileTaps(d))
<1> DEFINE t1 == TapNames(d)[1]
           t2 == TapNames(d)[2]
           members == {VethIn(d), t1, t2, VethOut(d), BrIn(d), BrOut(d)}
           calls == {<<"await", t>> : t \in {t1, t2}}
                      \cup {<<"attach", m[1], m[2]>> : m \in Members(d)}
                      \cup {<<"up", i>> : i \in members}
           order == <<VethIn(d), t1, t2, VethOut(d), BrIn(d), BrOut(d)>>
           front == <<<<"await", t1>>, <<"await", t2>>,
                      <<"attach", VethIn(d), BrIn(d)>>,
                      <<"attach", t1, BrIn(d)>>, <<"attach", t2, BrOut(d)>>,
                      <<"attach", VethOut(d), BrOut(d)>>>>
           back == [i \in DOMAIN order |-> <<"up", order[i]>>]
<1>1. ReconcileTaps(d) = front \o back
  BY DEF ReconcileTaps
<1>2. Elements(TapNames(d)) = {t1, t2}
  <2>1. PICK x, y : TapNames(d) = <<x, y>>
    BY DEF TapNames
  <2>2. QED
    BY <2>1 DEF Elements
<1>3. {<<"attach", m[1], m[2]>> : m \in Members(d)} =
         {<<"attach", VethIn(d), BrIn(d)>>, <<"attach", t1, BrIn(d)>>,
          <<"attach", t2, BrOut(d)>>, <<"attach", VethOut(d), BrOut(d)>>}
  BY DEF Members
<1> HIDE DEF t1, t2
<1>4. front \in Seq(calls)
  <2>1. /\ <<"await", t1>> \in calls /\ <<"await", t2>> \in calls
        /\ <<"attach", VethIn(d), BrIn(d)>> \in calls
        /\ <<"attach", t1, BrIn(d)>> \in calls
        /\ <<"attach", t2, BrOut(d)>> \in calls
        /\ <<"attach", VethOut(d), BrOut(d)>> \in calls
    BY <1>3
  <2> HIDE DEF calls
  <2>2. QED
    BY <2>1
<1>5. {<<"await", t1>>, <<"await", t2>>,
       <<"attach", VethIn(d), BrIn(d)>>, <<"attach", t1, BrIn(d)>>,
       <<"attach", t2, BrOut(d)>>, <<"attach", VethOut(d), BrOut(d)>>}
        \subseteq Elements(front)
  BY DEF Elements
<1>6. back \in Seq(calls)
  <2>1. DOMAIN order = 1..6 /\ \A i \in 1..6 : order[i] \in members
    OBVIOUS
  <2>2. back \in [1..6 -> calls]
    BY <2>1
  <2>3. QED
    BY <2>2, Listed
<1>7. {<<"up", i>> : i \in members} \subseteq Elements(back)
  <2>1. /\ DOMAIN back = 1..6
        /\ back[1] = <<"up", VethIn(d)>> /\ back[2] = <<"up", t1>>
        /\ back[3] = <<"up", t2>> /\ back[4] = <<"up", VethOut(d)>>
        /\ back[5] = <<"up", BrIn(d)>> /\ back[6] = <<"up", BrOut(d)>>
    OBVIOUS
  <2> HIDE DEF back
  <2>2. QED
    BY <2>1 DEF Elements
<1> HIDE DEF front, back
<1>8. /\ front \o back \in Seq(calls)
      /\ Elements(front \o back) = Elements(front) \cup Elements(back)
  BY <1>4, <1>6, Joined
<1>9. calls \subseteq Elements(front \o back)
  BY <1>3, <1>5, <1>7, <1>8
<1>10. QED
  BY <1>1, <1>2, <1>8, <1>9 DEF t1, t2

LEMMA WantedIs ==
    ASSUME NEW d \in Documents
    PROVE  Wanted(d) = Ends(d) \cup Elements(TapNames(d)) \cup {BrIn(d), BrOut(d)}
BY EndpointElements DEF Wanted

\* A sequence of calls in which every link comes before every bridge, n being
\* where the links end.
LinksFirst(s, n) ==
    /\ n <= Len(s)
    /\ \A p \in 1..Len(s) : /\ p <= n => s[p][1] # "bridge"
                            /\ p > n => s[p][1] # "veth"

LEMMA LinksStayFirst ==
    ASSUME NEW S, NEW s \in Seq(S), NEW t \in Seq(S), NEW n \in Nat,
           LinksFirst(s, n), \A x \in Elements(t) : x[1] # "veth"
    PROVE  LinksFirst(s \o t, n)
<1>1. /\ Len(s \o t) = Len(s) + Len(t) /\ Len(s) \in Nat /\ Len(t) \in Nat
      /\ DOMAIN s = 1..Len(s) /\ DOMAIN t = 1..Len(t)
      /\ \A i \in 1..Len(s) : (s \o t)[i] = s[i]
      /\ \A i \in 1..Len(t) : (s \o t)[i + Len(s)] = t[i]
  OBVIOUS
<1>2. ASSUME NEW p \in 1..(Len(s) + Len(t)), p > Len(s)
      PROVE  (s \o t)[p][1] # "veth"
  <2>1. p - Len(s) \in 1..Len(t) /\ p = (p - Len(s)) + Len(s)
    BY <1>1, <1>2
  <2>2. (s \o t)[p] \in Elements(t)
    BY <1>1, <2>1 DEF Elements
  <2>3. QED
    BY <2>2
<1>3. ASSUME NEW p \in 1..(Len(s) + Len(t)), p <= Len(s)
      PROVE  (s \o t)[p] = s[p] /\ p \in 1..Len(s)
  BY <1>1, <1>3
<1>4. QED
  BY <1>1, <1>2, <1>3 DEF LinksFirst

\* The try block of apply makes the calls of BuildSet; it makes the links
\* before the bridges, and the routes last and in their order.
LEMMA ApplyElements ==
    ASSUME NEW d \in Documents
    PROVE  /\ ApplyCalls(d) \in Seq(BuildSet(d))
           /\ Elements(ApplyCalls(d)) = BuildSet(d)
           /\ \E n \in Nat : LinksFirst(ApplyCalls(d), n)
           /\ \E s \in Seq(BuildSet(d)) :
                 /\ ApplyCalls(d) = s \o EnsureRoutes(d)
                 /\ EnsureRoutes(d) \in Seq(BuildSet(d))
                 /\ \A x \in Elements(s) : x[1] # "route"
<1> DEFINE S == BuildSet(d)
           A == EnsureNamespaces(d)
           B == EnsureLinks(d)
           C == EnsureBridges(d)
           D == <<<<"start", d>>>>
           E == ReconcileTaps(d)
           F == BringLinkEndpointsUp(d)
           G == EnsureRoutes(d)
<1>1. /\ DOMAIN d.namespaces = 1..Len(d.namespaces) /\ Len(d.namespaces) \in Nat
      /\ DOMAIN d.routes = 1..Len(d.routes) /\ Len(d.routes) \in Nat
  BY Shape
<1>2. Endpoints(d) \in Seq(Ends(d)) /\ Elements(Endpoints(d)) = Ends(d)
  BY EndpointElements
<1>3. /\ A \in Seq(S)
      /\ {<<"netns_add", n>> : n \in Elements(d.namespaces)} = Elements(A)
  <2>1. /\ DOMAIN A = DOMAIN d.namespaces
        /\ \A i \in DOMAIN A : A[i] = <<"netns_add", d.namespaces[i]>>
    BY DEF EnsureNamespaces
  <2>2. \A i \in DOMAIN A : A[i] \in S
    BY <2>1 DEF BuildSet, Elements
  <2>3. A \in [1..Len(d.namespaces) -> S]
    BY <1>1, <2>2 DEF EnsureNamespaces
  <2>4. A \in Seq(S)
    BY <1>1, <2>3, Listed, Zenon
  <2> HIDE DEF A
  <2>5. QED
    BY <2>1, <2>4 DEF Elements
<1>4. /\ G \in Seq(S)
      /\ {<<"route", r.ns, r.dst, r.via>> : r \in Elements(d.routes)}
           = Elements(G)
  <2>1. /\ DOMAIN G = DOMAIN d.routes
        /\ \A i \in DOMAIN G :
              G[i] = <<"route", d.routes[i].ns, d.routes[i].dst,
                       d.routes[i].via>>
    BY DEF EnsureRoutes
  <2>2. \A i \in DOMAIN G : G[i] \in S
    BY <2>1 DEF BuildSet, Elements
  <2>3. G \in [1..Len(d.routes) -> S]
    BY <1>1, <2>2 DEF EnsureRoutes
  <2>4. G \in Seq(S)
    BY <1>1, <2>3, Listed, Zenon
  <2> HIDE DEF G
  <2>5. QED
    BY <2>1, <2>4 DEF Elements
<1>5. F \in Seq(S) /\ {<<"up", e>> : e \in Ends(d)} = Elements(F)
  <2> DEFINE ends == Endpoints(d)
  <2>1. /\ DOMAIN ends = 1..Len(ends) /\ Len(ends) \in Nat
        /\ \A i \in DOMAIN ends : ends[i] \in Ends(d)
        /\ Elements(ends) = Ends(d)
    BY <1>2
  <2>2. F = [i \in DOMAIN ends |-> <<"up", ends[i]>>]
    BY DEF BringLinkEndpointsUp
  <2> HIDE DEF ends, F
  <2>3. \A e \in Ends(d) : <<"up", e>> \in S
    BY WantedIs DEF BuildSet
  <2> HIDE DEF S
  <2>4. F \in [1..Len(ends) -> S]
    BY <2>1, <2>2, <2>3
  <2>5. F \in Seq(S)
    BY <2>1, <2>4, Listed, Zenon
  <2>6. QED
    BY <2>1, <2>2, <2>5 DEF Elements
<1>6. C \in Seq(S) /\ {<<"bridge", b>> : b \in {BrIn(d), BrOut(d)}} = Elements(C)
  <2>1. C = <<<<"bridge", BrIn(d)>>, <<"bridge", BrOut(d)>>>>
    BY DEF EnsureBridges
  <2>2. <<"bridge", BrIn(d)>> \in S /\ <<"bridge", BrOut(d)>> \in S
    BY DEF BuildSet
  <2> HIDE DEF S
  <2>3. QED
    BY <2>1, <2>2 DEF Elements
<1>7. D \in Seq(S) /\ {<<"start", d>>} = Elements(D)
  <2>1. <<"start", d>> \in S
    BY DEF BuildSet
  <2> HIDE DEF S
  <2>2. QED
    BY <2>1 DEF Elements
<1> DEFINE links == {<<"veth", l.a, l.b>> : l \in Elements(d.links)}
             \cup {<<"address", l.a, l.net_a>> :
                     l \in {x \in Elements(d.links) : x.net_a # "none"}}
             \cup {<<"address", l.b, l.net_b>> :
                     l \in {x \in Elements(d.links) : x.net_b # "none"}}
           taps == {<<"await", t>> : t \in Elements(TapNames(d))}
             \cup {<<"attach", m[1], m[2]>> : m \in Members(d)}
             \cup {<<"up", i>> : i \in {VethIn(d), TapNames(d)[1],
                                        TapNames(d)[2], VethOut(d), BrIn(d),
                                        BrOut(d)}}
<1>8. B \in Seq(S) /\ links = Elements(B)
  <2>1. B \in Seq(links) /\ links \subseteq Elements(B)
    BY LinkElements
  <2>2. links \subseteq S
    BY DEF BuildSet
  <2> HIDE DEF links, S, B
  <2>3. QED
    BY <2>1, <2>2 DEF Elements
<1>9. E \in Seq(S) /\ taps = Elements(E)
  <2>1. E \in Seq(taps) /\ taps \subseteq Elements(E)
    BY TapElements
  <2>2. taps \subseteq S
    BY TapElements, WantedIs DEF BuildSet
  <2> HIDE DEF taps, S, E
  <2>3. QED
    BY <2>1, <2>2 DEF Elements
<1>10. ApplyCalls(d) = (((((A \o B) \o C) \o D) \o E) \o F) \o G
  BY DEF ApplyCalls
<1>11. BuildSet(d) =
          {<<"netns_add", n>> : n \in Elements(d.namespaces)} \cup links
            \cup {<<"bridge", b>> : b \in {BrIn(d), BrOut(d)}}
            \cup {<<"start", d>>} \cup taps
            \cup {<<"up", e>> : e \in Ends(d)}
            \cup {<<"route", r.ns, r.dst, r.via>> : r \in Elements(d.routes)}
  <2>1. {<<"up", i>> : i \in Wanted(d) \cup {VethIn(d), VethOut(d)}} =
           {<<"up", e>> : e \in Ends(d)}
             \cup {<<"up", i>> : i \in {VethIn(d), TapNames(d)[1],
                                        TapNames(d)[2], VethOut(d), BrIn(d),
                                        BrOut(d)}}
    <3>1. Wanted(d) = Ends(d) \cup {TapNames(d)[1], TapNames(d)[2]}
                        \cup {BrIn(d), BrOut(d)}
      BY TapElements, WantedIs
    <3>2. Wanted(d) \cup {VethIn(d), VethOut(d)} =
             Ends(d) \cup {VethIn(d), TapNames(d)[1], TapNames(d)[2],
                           VethOut(d), BrIn(d), BrOut(d)}
      BY <3>1
    <3>3. QED
      BY <3>2
  <2>2. QED
    BY <2>1, Zenon DEF BuildSet
<1>16. /\ \A x \in Elements(A) : x[1] # "bridge" /\ x[1] # "route"
       /\ \A x \in Elements(B) : x[1] # "bridge" /\ x[1] # "route"
       /\ \A x \in Elements(C) : x[1] # "veth" /\ x[1] # "route"
       /\ \A x \in Elements(D) : x[1] # "veth" /\ x[1] # "route"
       /\ \A x \in Elements(E) : x[1] # "veth" /\ x[1] # "route"
       /\ \A x \in Elements(F) : x[1] # "veth" /\ x[1] # "route"
       /\ \A x \in Elements(G) : x[1] # "veth"
  <2> HIDE DEF A, B, C, D, E, F, G
  <2>1. /\ \A x \in Elements(A) : x[1] # "bridge" /\ x[1] # "route"
        /\ \A x \in Elements(C) : x[1] # "veth" /\ x[1] # "route"
        /\ \A x \in Elements(D) : x[1] # "veth" /\ x[1] # "route"
    BY <1>3, <1>6, <1>7
  <2>2. /\ \A x \in Elements(F) : x[1] # "veth" /\ x[1] # "route"
        /\ \A x \in Elements(G) : x[1] # "veth"
    BY <1>4, <1>5
  <2>3. \A x \in Elements(B) : x[1] # "bridge" /\ x[1] # "route"
    BY <1>8
  <2>4. \A x \in Elements(E) : x[1] # "veth" /\ x[1] # "route"
    BY <1>9
  <2>5. QED
    BY <2>1, <2>2, <2>3, <2>4
<1> HIDE DEF A, B, C, D, E, F, G, S, links, taps
<1>12. ASSUME NEW s \in Seq(S), NEW t \in Seq(S)
       PROVE  s \o t \in Seq(S) /\ Elements(s \o t) = Elements(s) \cup Elements(t)
  BY Joined, Zenon
<1>13. /\ ApplyCalls(d) \in Seq(S)
       /\ Elements(ApplyCalls(d)) =
            Elements(A) \cup Elements(B) \cup Elements(C) \cup Elements(D)
              \cup Elements(E) \cup Elements(F) \cup Elements(G)
       /\ \E n \in Nat : LinksFirst(ApplyCalls(d), n)
       /\ \E s \in Seq(S) : /\ ApplyCalls(d) = s \o G
                            /\ \A x \in Elements(s) : x[1] # "route"
  <2> DEFINE AB == A \o B
             AC == AB \o C
             AD == AC \o D
             AE == AD \o E
             AF == AE \o F
  <2>1. AB \in Seq(S) /\ Elements(AB) = Elements(A) \cup Elements(B)
    BY <1>3, <1>8, <1>12
  <2> HIDE DEF AB
  <2>2. AC \in Seq(S) /\ Elements(AC) = Elements(AB) \cup Elements(C)
    BY <1>6, <1>12, <2>1
  <2> HIDE DEF AC
  <2>3. AD \in Seq(S) /\ Elements(AD) = Elements(AC) \cup Elements(D)
    BY <1>7, <1>12, <2>2
  <2> HIDE DEF AD
  <2>4. AE \in Seq(S) /\ Elements(AE) = Elements(AD) \cup Elements(E)
    BY <1>9, <1>12, <2>3
  <2> HIDE DEF AE
  <2>5. AF \in Seq(S) /\ Elements(AF) = Elements(AE) \cup Elements(F)
    BY <1>5, <1>12, <2>4
  <2> HIDE DEF AF
  <2>6. /\ AF \o G \in Seq(S)
        /\ Elements(AF \o G) = Elements(AF) \cup Elements(G)
    BY <1>4, <1>12, <2>5
  <2>7. ApplyCalls(d) = AF \o G
    BY <1>10 DEF AB, AC, AD, AE, AF
  <2>8. Len(AB) \in Nat /\ LinksFirst(AB, Len(AB))
    <3>1. \A p \in 1..Len(AB) : AB[p] \in Elements(AB)
      BY <2>1 DEF Elements
    <3>2. \A p \in 1..Len(AB) : AB[p][1] # "bridge"
      BY <1>16, <2>1, <3>1
    <3>3. QED
      BY <2>1, <3>2 DEF LinksFirst
  <2> DEFINE n == Len(AB)
  <2> HIDE DEF n
  <2>9. n \in Nat /\ LinksFirst(AB, n)
    BY <2>8 DEF n
  <2>10. LinksFirst(AB \o C, n)
    BY <1>6, <1>16, <2>1, <2>9, LinksStayFirst
  <2>11. LinksFirst(AC \o D, n)
    BY <1>7, <1>16, <2>2, <2>9, <2>10, LinksStayFirst DEF AC
  <2>12. LinksFirst(AD \o E, n)
    BY <1>9, <1>16, <2>3, <2>9, <2>11, LinksStayFirst DEF AD
  <2>13. LinksFirst(AE \o F, n)
    BY <1>5, <1>16, <2>4, <2>9, <2>12, LinksStayFirst DEF AE
  <2>14. LinksFirst(AF \o G, n)
    BY <1>4, <1>16, <2>5, <2>9, <2>13, LinksStayFirst DEF AF
  <2>15. \A x \in Elements(AF) : x[1] # "route"
    BY <1>16, <2>1, <2>2, <2>3, <2>4, <2>5
  <2>16. QED
    BY <2>1, <2>2, <2>3, <2>4, <2>5, <2>6, <2>7, <2>9, <2>14, <2>15
<1>14. Elements(ApplyCalls(d)) = BuildSet(d)
  BY <1>3, <1>4, <1>5, <1>6, <1>7, <1>8, <1>9, <1>11, <1>13
<1>15. QED
  BY <1>4, <1>13, <1>14 DEF S, G

\* Those of the clean-up of links ...
LEMMA LinkCallElements ==
    ASSUME NEW d \in Documents
    PROVE  LinkCalls(d) \in Seq(LinkSet(d))
<1> DEFINE S == LinkSet(d)
           front == <<<<"link_del", BrOut(d)>>, <<"link_del", BrIn(d)>>>>
           dels == [i \in DOMAIN d.links |-> <<"link_del", d.links[i].a>>]
<1>1. DOMAIN d.links = 1..Len(d.links) /\ Len(d.links) \in Nat
  BY Shape
<1>2. /\ <<"link_del", BrOut(d)>> \in S /\ <<"link_del", BrIn(d)>> \in S
      /\ \A i \in DOMAIN d.links : <<"link_del", d.links[i].a>> \in S
  BY WantedIs DEF LinkSet, Ends, Elements
<1>3. LinkCalls(d) = front \o Reverse(dels)
  BY DEF LinkCalls
<1> HIDE DEF S
<1>4. front \in Seq(S)
  BY <1>2
<1>5. dels \in [1..Len(d.links) -> S]
  BY <1>1, <1>2
<1>6. dels \in Seq(S)
  BY <1>1, <1>5, Listed, Zenon
<1> HIDE DEF front, dels
<1>7. Reverse(dels) \in Seq(S)
  BY <1>6, Reversed
<1>8. QED
  BY <1>3, <1>4, <1>7, Joined DEF S

\* ... and of namespaces.
LEMMA NamespaceCallElements ==
    ASSUME NEW d \in Documents
    PROVE  /\ NamespaceCalls(d) \in Seq(NamespaceSet(d))
           /\ Elements(NamespaceCalls(d)) = NamespaceSet(d)
<1> DEFINE S == NamespaceSet(d)
           dels == [i \in DOMAIN d.namespaces |->
                      <<"netns_del", d.namespaces[i]>>]
<1>1. DOMAIN d.namespaces = 1..Len(d.namespaces) /\ Len(d.namespaces) \in Nat
  BY Shape
<1>2. \A i \in DOMAIN d.namespaces : <<"netns_del", d.namespaces[i]>> \in S
  BY DEF NamespaceSet, Elements
<1>3. Elements(dels) = S
  BY DEF NamespaceSet, Elements
<1>4. NamespaceCalls(d) = Reverse(dels)
  BY DEF NamespaceCalls
<1> HIDE DEF S
<1>5. dels \in [1..Len(d.namespaces) -> S]
  BY <1>1, <1>2
<1>6. dels \in Seq(S)
  BY <1>1, <1>5, Listed, Zenon
<1> HIDE DEF dels
<1>7. QED
  BY <1>3, <1>4, <1>6, Reversed DEF S

-----------------------------------------------------------------------------
(* The kernel                                                              *)

\* Without namespaces there is nothing.
LEMMA NothingWithoutNamespaces ==
    ASSUME NEW k, WellFormed(k), k.ns = {}
    PROVE  k = EmptyKernel
<1>1. k.ifs = {}
  BY DEF WellFormed
<1>2. k.veth = {} /\ k.bridges = {} /\ k.master = {} /\ k.up = {} /\ k.addr = {}
  BY <1>1 DEF WellFormed
<1>3. k.route = {}
  BY <1>2 DEF WellFormed
<1>4. QED
  BY <1>1, <1>2, <1>3 DEF WellFormed, IsKernel, EmptyKernel

LEMMA EmptyIsWellFormed == WellFormed(EmptyKernel) /\ EmptyKernel.ns = {}
BY DEF WellFormed, IsKernel, EmptyKernel

\* The kernel with other interfaces.
Reset(k, ifs, veth, bridges, master, up, addr) ==
    [k EXCEPT !.ifs = ifs, !.veth = veth, !.bridges = bridges,
              !.master = master, !.up = up, !.addr = addr]

LEMMA ResetFields ==
    ASSUME NEW k, IsKernel(k), NEW ifs, NEW veth, NEW bridges, NEW master,
           NEW up, NEW addr
    PROVE  Reset(k, ifs, veth, bridges, master, up, addr) =
           [ns |-> k.ns, ifs |-> ifs, veth |-> veth, bridges |-> bridges,
            master |-> master, up |-> up, addr |-> addr, route |-> k.route]
<1> DEFINE w == Reset(k, ifs, veth, bridges, master, up, addr)
<1>1. k \in [{"ns", "ifs", "veth", "bridges", "master", "up", "addr",
              "route"} -> {k.ns, k.ifs, k.veth, k.bridges, k.master, k.up,
                           k.addr, k.route}]
  BY DEF IsKernel
<1>2. /\ DOMAIN w = {"ns", "ifs", "veth", "bridges", "master", "up", "addr",
                     "route"}
      /\ w = [x \in DOMAIN w |-> w[x]]
      /\ w.ns = k.ns /\ w.ifs = ifs /\ w.veth = veth /\ w.bridges = bridges
      /\ w.master = master /\ w.up = up /\ w.addr = addr /\ w.route = k.route
  BY <1>1 DEF Reset
<1> HIDE DEF w
<1>3. w = [ns |-> k.ns, ifs |-> ifs, veth |-> veth, bridges |-> bridges,
           master |-> master, up |-> up, addr |-> addr, route |-> k.route]
  BY <1>2
<1>4. QED
  BY <1>3 DEF w

LEMMA WithoutInterfacesFields ==
    ASSUME NEW k, IsKernel(k), NEW gone
    PROVE  LET w == WithoutInterfaces(k, gone)
               all == gone \cup UNION {pair \in k.veth : pair \cap gone # {}}
           IN  /\ IsKernel(w) /\ w.ns = k.ns /\ w.ifs = k.ifs \ all
               /\ w.veth = {pair \in k.veth : pair \cap all = {}}
               /\ w.bridges = k.bridges \ all
               /\ w.master = {x \in k.master : x[1] \notin all
                                                 /\ x[2] \notin all}
               /\ w.up = k.up \ all
               /\ w.addr = {x \in k.addr : x[1] \notin all}
               /\ w.route = {r \in k.route :
                               \E x \in w.addr : /\ x[1] \in w.up
                                                 /\ x[1][1] = r[1]
                                                 /\ x[2] = r[3][1]}
<1> DEFINE all == gone \cup UNION {pair \in k.veth : pair \cap gone # {}}
           ifs == k.ifs \ all
           veth == {pair \in k.veth : pair \cap all = {}}
           bridges == k.bridges \ all
           master == {x \in k.master : x[1] \notin all /\ x[2] \notin all}
           up == k.up \ all
           addr == {x \in k.addr : x[1] \notin all}
           route == {r \in k.route : \E x \in addr : /\ x[1] \in up
                                                     /\ x[1][1] = r[1]
                                                     /\ x[2] = r[3][1]}
           rest == Reset(k, ifs, veth, bridges, master, up, addr)
<1>1. WithoutInterfaces(k, gone) =
         [rest EXCEPT !.route = {r \in @ : Reaching(rest, r[1], r[3][1]) # {}}]
  BY DEF WithoutInterfaces, Reset, IsKernel
<1> HIDE DEF ifs, veth, bridges, master, up, addr
<1>2. rest = [ns |-> k.ns, ifs |-> ifs, veth |-> veth, bridges |-> bridges,
              master |-> master, up |-> up, addr |-> addr, route |-> k.route]
  BY ResetFields
<1> HIDE DEF rest
<1>3. {r \in rest.route : Reaching(rest, r[1], r[3][1]) # {}} = route
  BY <1>2 DEF Reaching
<1> HIDE DEF route
<1>4. WithoutInterfaces(k, gone) =
         [ns |-> k.ns, ifs |-> ifs, veth |-> veth, bridges |-> bridges,
          master |-> master, up |-> up, addr |-> addr, route |-> route]
  BY <1>1, <1>2, <1>3
<1>5. QED
  BY <1>4 DEF IsKernel, ifs, veth, bridges, master, up, addr, route

LEMMA WithoutInterfacesWellFormed ==
    ASSUME NEW k, WellFormed(k), NEW gone
    PROVE  LET w == WithoutInterfaces(k, gone)
           IN  /\ WellFormed(w) /\ w.ns = k.ns
               /\ w.ifs \subseteq k.ifs /\ w.ifs \cap gone = {}
<1> DEFINE w == WithoutInterfaces(k, gone)
           all == gone \cup UNION {pair \in k.veth : pair \cap gone # {}}
<1>1. IsKernel(k)
  BY DEF WellFormed
<1>2. /\ IsKernel(w) /\ w.ns = k.ns /\ w.ifs = k.ifs \ all
      /\ w.veth = {pair \in k.veth : pair \cap all = {}}
      /\ w.bridges = k.bridges \ all
      /\ w.master = {x \in k.master : x[1] \notin all /\ x[2] \notin all}
      /\ w.up = k.up \ all
      /\ w.addr = {x \in k.addr : x[1] \notin all}
      /\ w.route = {r \in k.route : \E x \in w.addr : /\ x[1] \in w.up
                                                      /\ x[1][1] = r[1]
                                                      /\ x[2] = r[3][1]}
  BY <1>1, WithoutInterfacesFields
<1>3. gone \subseteq all
  OBVIOUS
<1> HIDE DEF w, all
<1>4. /\ \A i \in w.ifs : i[1] \in w.ns
      /\ w.bridges \subseteq w.ifs /\ w.up \subseteq w.ifs
  BY <1>2 DEF WellFormed
<1>5. \A pair \in w.veth : pair # {} /\ pair \subseteq w.ifs
  BY <1>2 DEF WellFormed
<1>6. (\A m \in w.master : m[1] \in w.ifs) /\ (\A x \in w.addr : x[1] \in w.ifs)
  BY <1>2 DEF WellFormed
<1>7. \A r \in w.route : \E x \in w.addr : x[1] \in w.up
  BY <1>2
<1>8. QED
  BY <1>2, <1>3, <1>4, <1>5, <1>6, <1>7 DEF WellFormed, w

LEMMA RecordIs ==
    ASSUME NEW ns, NEW ifs, NEW veth, NEW bridges, NEW master, NEW up,
           NEW addr, NEW route
    PROVE  KernelIs([ns |-> ns, ifs |-> ifs, veth |-> veth,
                     bridges |-> bridges, master |-> master, up |-> up,
                     addr |-> addr, route |-> route],
                    ns, ifs, veth, bridges, master, up, addr, route)
BY DEF KernelIs, IsKernel

\* What each command leaves behind, field by field.
LEMMA AfterFields ==
    ASSUME NEW k, IsKernel(k), NEW c
    PROVE  LET w == After(k, c)
               rest == WithoutInterfaces(k, {i \in k.ifs : i[1] = c[2]})
           IN  /\ c[1] = "netns_add" =>
                     KernelIs(w, k.ns \cup {c[2]},
                              k.ifs \cup {Loopback(c[2])}, k.veth, k.bridges,
                              k.master, k.up, k.addr, k.route)
               /\ c[1] = "netns_del" =>
                     KernelIs(w, k.ns \ {c[2]}, rest.ifs, rest.veth,
                              rest.bridges, rest.master, rest.up, rest.addr,
                              rest.route)
               /\ c[1] = "veth" =>
                     KernelIs(w, k.ns, k.ifs \cup {c[2], c[3]},
                              k.veth \cup {{c[2], c[3]}}, k.bridges, k.master,
                              k.up, k.addr, k.route)
               /\ c[1] = "bridge" =>
                     KernelIs(w, k.ns, k.ifs \cup {c[2]}, k.veth,
                              k.bridges \cup {c[2]}, k.master, k.up, k.addr,
                              k.route)
               /\ c[1] = "link_del" => w = WithoutInterfaces(k, {c[2]})
               /\ c[1] = "address" =>
                     KernelIs(w, k.ns, k.ifs, k.veth, k.bridges, k.master,
                              k.up, k.addr \cup {<<c[2], c[3]>>}, k.route)
               /\ c[1] = "attach" =>
                     KernelIs(w, k.ns, k.ifs, k.veth, k.bridges,
                              {m \in k.master : m[1] # c[2]}
                                \cup {<<c[2], c[3]>>}, k.up, k.addr, k.route)
               /\ c[1] = "up" =>
                     KernelIs(w, k.ns, k.ifs, k.veth, k.bridges, k.master,
                              k.up \cup {c[2]}, k.addr, k.route)
               /\ c[1] = "route" =>
                     KernelIs(w, k.ns, k.ifs, k.veth, k.bridges, k.master,
                              k.up, k.addr,
                              {r \in k.route : r[1] # c[2] \/ r[2] # c[3]}
                                \cup {<<c[2], c[3], c[4]>>})
               /\ c[1] = "start" =>
                     KernelIs(w, k.ns, k.ifs \cup Elements(TapNames(c[2])),
                              k.veth, k.bridges, k.master, k.up, k.addr,
                              k.route)
               /\ c[1] = "stop" =>
                     w = WithoutInterfaces(k, Elements(TapNames(c[2]))
                                                \cap TapDevices(k))
<1> DEFINE w == After(k, c)
           rest == WithoutInterfaces(k, {i \in k.ifs : i[1] = c[2]})
           taps == Elements(TapNames(c[2]))
<1>1. c[1] = "netns_add" =>
         KernelIs(w, k.ns \cup {c[2]}, k.ifs \cup {Loopback(c[2])}, k.veth,
                  k.bridges, k.master, k.up, k.addr, k.route)
  <2> DEFINE spaces == k.ns \cup {c[2]}
             more == k.ifs \cup {Loopback(c[2])}
  <2>1. c[1] = "netns_add" =>
       w = [ns |-> spaces, ifs |-> more, veth |-> k.veth, bridges
             |-> k.bridges, master |-> k.master, up |-> k.up, addr
             |-> k.addr, route |-> k.route]
    BY DEF After, IsKernel
  <2> HIDE DEF w, spaces, more
  <2>2. c[1] = "netns_add" => KernelIs(w, spaces, more, k.veth, k.bridges,
                                       k.master, k.up, k.addr, k.route)
    BY <2>1, RecordIs
  <2>3. QED
    BY <2>2 DEF spaces, more
<1>2. c[1] = "veth" =>
         KernelIs(w, k.ns, k.ifs \cup {c[2], c[3]}, k.veth \cup {{c[2],
                 c[3]}}, k.bridges, k.master, k.up, k.addr,
                 k.route)
  <2>1. c[1] = "veth" =>
       w = [ns |-> k.ns, ifs |-> k.ifs \cup {c[2], c[3]}, veth |-> k.veth
             \cup {{c[2], c[3]}}, bridges |-> k.bridges, master
             |-> k.master, up |-> k.up, addr |-> k.addr, route |->
             k.route]
    BY DEF After, IsKernel
  <2> DEFINE both == k.ifs \cup {c[2], c[3]}
             pairs == k.veth \cup {{c[2], c[3]}}
  <2>2. c[1] = "veth" =>
         w = [ns |-> k.ns, ifs |-> both, veth |-> pairs,
              bridges |-> k.bridges, master |-> k.master, up |-> k.up,
              addr |-> k.addr, route |-> k.route]
    BY <2>1
  <2> HIDE DEF w, both, pairs
  <2>3. c[1] = "veth" => KernelIs(w, k.ns, both, pairs, k.bridges, k.master,
                                  k.up, k.addr, k.route)
    BY <2>2, RecordIs
  <2>4. QED
    BY <2>3 DEF both, pairs
<1>3. c[1] = "bridge" =>
         KernelIs(w, k.ns, k.ifs \cup {c[2]}, k.veth, k.bridges \cup
                 {c[2]}, k.master, k.up, k.addr, k.route)
  <2>1. c[1] = "bridge" =>
       w = [ns |-> k.ns, ifs |-> k.ifs \cup {c[2]}, veth |-> k.veth, bridges
             |-> k.bridges \cup {c[2]}, master |-> k.master, up
             |-> k.up, addr |-> k.addr, route |-> k.route]
    BY DEF After, IsKernel
  <2> DEFINE more == k.ifs \cup {c[2]}
             brs == k.bridges \cup {c[2]}
  <2>2. c[1] = "bridge" =>
         w = [ns |-> k.ns, ifs |-> more, veth |-> k.veth, bridges |-> brs,
              master |-> k.master, up |-> k.up, addr |-> k.addr,
              route |-> k.route]
    BY <2>1
  <2> HIDE DEF w, more, brs
  <2>3. c[1] = "bridge" => KernelIs(w, k.ns, more, k.veth, brs, k.master,
                                  k.up, k.addr, k.route)
    BY <2>2, RecordIs
  <2>4. QED
    BY <2>3 DEF more, brs
<1>4. c[1] = "address" =>
         KernelIs(w, k.ns, k.ifs, k.veth, k.bridges, k.master, k.up,
                 k.addr \cup {<<c[2], c[3]>>}, k.route)
  <2>1. c[1] = "address" =>
       w = [ns |-> k.ns, ifs |-> k.ifs, veth |-> k.veth, bridges |->
             k.bridges, master |-> k.master, up |-> k.up, addr |->
             k.addr \cup {<<c[2], c[3]>>}, route |-> k.route]
    BY DEF After, IsKernel
  <2>2. QED
    BY <2>1, RecordIs
<1>5. c[1] = "attach" =>
         KernelIs(w, k.ns, k.ifs, k.veth, k.bridges, {m \in k.master :
                 m[1] # c[2]} \cup {<<c[2], c[3]>>}, k.up,
                 k.addr, k.route)
  <2>1. c[1] = "attach" =>
       w = [ns |-> k.ns, ifs |-> k.ifs, veth |-> k.veth, bridges |->
             k.bridges, master |-> {m \in k.master : m[1] # c[2]}
             \cup {<<c[2], c[3]>>}, up |-> k.up, addr |-> k.addr,
             route |-> k.route]
    BY DEF After, IsKernel
  <2>2. QED
    BY <2>1, RecordIs
<1>6. c[1] = "up" =>
         KernelIs(w, k.ns, k.ifs, k.veth, k.bridges, k.master, k.up
                 \cup {c[2]}, k.addr, k.route)
  <2>1. c[1] = "up" =>
       w = [ns |-> k.ns, ifs |-> k.ifs, veth |-> k.veth, bridges |->
             k.bridges, master |-> k.master, up |-> k.up \cup
             {c[2]}, addr |-> k.addr, route |-> k.route]
    BY DEF After, IsKernel
  <2>2. QED
    BY <2>1, RecordIs
<1>7. c[1] = "route" =>
         KernelIs(w, k.ns, k.ifs, k.veth, k.bridges, k.master, k.up,
                 k.addr, {r \in k.route : r[1] # c[2] \/ r[2] # c[3]}
                           \cup {<<c[2], c[3], c[4]>>})
  <2> DEFINE table == {r \in k.route : r[1] # c[2] \/ r[2] # c[3]}
                        \cup {<<c[2], c[3], c[4]>>}
  <2>1. c[1] = "route" =>
       w = [ns |-> k.ns, ifs |-> k.ifs, veth |-> k.veth, bridges |->
             k.bridges, master |-> k.master, up |-> k.up, addr |->
             k.addr, route |-> table]
    BY DEF After, IsKernel
  <2> HIDE DEF w, table
  <2>2. c[1] = "route" => KernelIs(w, k.ns, k.ifs, k.veth, k.bridges,
                                   k.master, k.up, k.addr, table)
    BY <2>1, RecordIs
  <2>3. QED
    BY <2>2 DEF table
<1>8. c[1] = "start" =>
         KernelIs(w, k.ns, k.ifs \cup taps, k.veth, k.bridges,
                 k.master, k.up, k.addr, k.route)
  <2>1. c[1] = "start" =>
       w = [ns |-> k.ns, ifs |-> k.ifs \cup taps, veth |-> k.veth, bridges
             |-> k.bridges, master |-> k.master, up |-> k.up, addr
             |-> k.addr, route |-> k.route]
    BY DEF After, IsKernel
  <2>2. QED
    BY <2>1, RecordIs
<1>9. c[1] = "netns_del" =>
         KernelIs(w, k.ns \ {c[2]}, rest.ifs, rest.veth, rest.bridges,
                  rest.master, rest.up, rest.addr, rest.route)
  <2>1. IsKernel(rest) /\ rest.ns = k.ns
    BY WithoutInterfacesFields
  <2>2. c[1] = "netns_del" => w = [rest EXCEPT !.ns = @ \ {c[2]}]
    BY DEF After
  <2> HIDE DEF rest, w
  <2>3. c[1] = "netns_del" =>
           w = [ns |-> k.ns \ {c[2]}, ifs |-> rest.ifs, veth |-> rest.veth,
                bridges |-> rest.bridges, master |-> rest.master,
                up |-> rest.up, addr |-> rest.addr, route |-> rest.route]
    BY <2>1, <2>2 DEF IsKernel
  <2>4. QED
    BY <2>3, RecordIs
<1>10. /\ c[1] = "link_del" => w = WithoutInterfaces(k, {c[2]})
       /\ c[1] = "stop" => w = WithoutInterfaces(k, taps \cap TapDevices(k))
  BY DEF After
<1>11. QED
  BY <1>1, <1>2, <1>3, <1>4, <1>5, <1>6, <1>7, <1>8, <1>9, <1>10

\* Every command keeps the kernel well-formed.
LEMMA AfterWellFormed ==
    ASSUME NEW k, WellFormed(k), NEW c, Possible(k, c)
    PROVE  WellFormed(After(k, c))
<1> DEFINE w == After(k, c)
<1> SUFFICES WellFormed(w)
  OBVIOUS
<1> HIDE DEF w
<1>0. IsKernel(k)
  BY DEF WellFormed
<1>1. CASE c[1] = "netns_add"
  <2>1. KernelIs(w, k.ns \cup {c[2]}, k.ifs \cup {Loopback(c[2])}, k.veth,
                 k.bridges, k.master, k.up, k.addr, k.route)
    BY <1>0, <1>1, AfterFields DEF w
  <2>2. QED
    BY <2>1 DEF WellFormed, KernelIs, Loopback
<1>2. CASE c[1] = "netns_del"
  <2> DEFINE gone == {i \in k.ifs : i[1] = c[2]}
             rest == WithoutInterfaces(k, gone)
  <2>1. KernelIs(w, k.ns \ {c[2]}, rest.ifs, rest.veth, rest.bridges,
                 rest.master, rest.up, rest.addr, rest.route)
    BY <1>0, <1>2, AfterFields DEF w
  <2>2. /\ WellFormed(rest) /\ rest.ns = k.ns
        /\ rest.ifs \subseteq k.ifs /\ rest.ifs \cap gone = {}
    BY WithoutInterfacesWellFormed
  <2>3. \A i \in rest.ifs : i[1] \in k.ns \ {c[2]}
    BY <2>2 DEF WellFormed
  <2> HIDE DEF rest
  <2>4. QED
    BY <2>1, <2>2, <2>3 DEF WellFormed, KernelIs
<1>3. CASE c[1] = "veth"
  <2>1. KernelIs(w, k.ns, k.ifs \cup {c[2], c[3]},
                 k.veth \cup {{c[2], c[3]}}, k.bridges, k.master, k.up,
                 k.addr, k.route)
    BY <1>0, <1>3, AfterFields DEF w
  <2>2. c[2][1] \in k.ns /\ c[3][1] \in k.ns
    BY <1>3 DEF Possible, Query
  <2>3. QED
    BY <2>1, <2>2 DEF WellFormed, KernelIs
<1>4. CASE c[1] = "bridge"
  <2>1. KernelIs(w, k.ns, k.ifs \cup {c[2]}, k.veth,
                 k.bridges \cup {c[2]}, k.master, k.up, k.addr, k.route)
    BY <1>0, <1>4, AfterFields DEF w
  <2>2. c[2][1] \in k.ns
    BY <1>4 DEF Possible, Query
  <2>3. QED
    BY <2>1, <2>2 DEF WellFormed, KernelIs
<1>5. CASE c[1] = "link_del"
  <2>1. w = WithoutInterfaces(k, {c[2]})
    BY <1>0, <1>5, AfterFields DEF w
  <2>2. QED
    BY <2>1, WithoutInterfacesWellFormed
<1>6. CASE c[1] = "address"
  <2>1. KernelIs(w, k.ns, k.ifs, k.veth, k.bridges, k.master, k.up,
                 k.addr \cup {<<c[2], c[3]>>}, k.route)
    BY <1>0, <1>6, AfterFields DEF w
  <2>2. c[2] \in k.ifs
    BY <1>6 DEF Possible
  <2>3. QED
    BY <2>1, <2>2 DEF WellFormed, KernelIs
<1>7. CASE c[1] = "attach"
  <2>1. KernelIs(w, k.ns, k.ifs, k.veth, k.bridges,
                 {m \in k.master : m[1] # c[2]} \cup {<<c[2], c[3]>>},
                 k.up, k.addr, k.route)
    BY <1>0, <1>7, AfterFields DEF w
  <2>2. c[2] \in k.ifs
    BY <1>7 DEF Possible
  <2>3. QED
    BY <2>1, <2>2 DEF WellFormed, KernelIs
<1>8. CASE c[1] = "up"
  <2>1. KernelIs(w, k.ns, k.ifs, k.veth, k.bridges, k.master,
                 k.up \cup {c[2]}, k.addr, k.route)
    BY <1>0, <1>8, AfterFields DEF w
  <2>2. c[2] \in k.ifs
    BY <1>8 DEF Possible
  <2>3. QED
    BY <2>1, <2>2 DEF WellFormed, KernelIs
<1>9. CASE c[1] = "route"
  <2>1. KernelIs(w, k.ns, k.ifs, k.veth, k.bridges, k.master, k.up, k.addr,
                 {r \in k.route : r[1] # c[2] \/ r[2] # c[3]}
                   \cup {<<c[2], c[3], c[4]>>})
    BY <1>0, <1>9, AfterFields DEF w
  <2>2. \E x \in k.addr : x[1] \in k.up
    BY <1>9 DEF Possible, GatewayFound, Reaching
  <2>3. QED
    BY <2>1, <2>2 DEF WellFormed, KernelIs
<1>10. CASE c[1] = "start"
  <2>1. KernelIs(w, k.ns, k.ifs \cup Elements(TapNames(c[2])), k.veth,
                 k.bridges, k.master, k.up, k.addr, k.route)
    BY <1>0, <1>10, AfterFields DEF w
  <2>2. \A i \in Elements(TapNames(c[2])) : i[1] \in k.ns
    BY <1>10 DEF Possible, Query
  <2>3. QED
    BY <2>1, <2>2 DEF WellFormed, KernelIs
<1>11. CASE c[1] = "stop"
  <2>1. w = WithoutInterfaces(k, Elements(TapNames(c[2])) \cap TapDevices(k))
    BY <1>0, <1>11, AfterFields DEF w
  <2>2. QED
    BY <2>1, WithoutInterfacesWellFormed
<1>12. c[1] \in {"netns_add", "netns_del", "veth", "bridge", "link_del",
                 "address", "attach", "up", "route", "start", "stop"}
  BY DEF Possible
<1>13. QED
  BY <1>1, <1>2, <1>3, <1>4, <1>5, <1>6, <1>7, <1>8, <1>9, <1>10, <1>11, <1>12

\* The namespaces a call leaves behind.
LEMMA AfterNamespaces ==
    ASSUME NEW k, IsKernel(k), NEW c, Possible(k, c)
    PROVE  /\ c[1] = "netns_add" => After(k, c).ns = k.ns \cup {c[2]}
           /\ c[1] = "netns_del" => After(k, c).ns = k.ns \ {c[2]}
           /\ c[1] \notin {"netns_add", "netns_del"} => After(k, c).ns = k.ns
<1> DEFINE w == After(k, c)
<1> SUFFICES /\ c[1] = "netns_add" => w.ns = k.ns \cup {c[2]}
             /\ c[1] = "netns_del" => w.ns = k.ns \ {c[2]}
             /\ c[1] \notin {"netns_add", "netns_del"} => w.ns = k.ns
  OBVIOUS
<1> HIDE DEF w
<1>1. ASSUME c[1] = "netns_add" PROVE w.ns = k.ns \cup {c[2]}
  <2>1. KernelIs(w, k.ns \cup {c[2]}, k.ifs \cup {Loopback(c[2])}, k.veth,
                 k.bridges, k.master, k.up, k.addr, k.route)
    BY <1>1, AfterFields DEF w
  <2>2. QED
    BY <2>1 DEF KernelIs
<1>2. ASSUME c[1] = "netns_del" PROVE w.ns = k.ns \ {c[2]}
  <2> DEFINE rest == WithoutInterfaces(k, {i \in k.ifs : i[1] = c[2]})
  <2>1. KernelIs(w, k.ns \ {c[2]}, rest.ifs, rest.veth, rest.bridges,
                 rest.master, rest.up, rest.addr, rest.route)
    BY <1>2, AfterFields DEF w
  <2> HIDE DEF rest
  <2>2. QED
    BY <2>1 DEF KernelIs
<1>3. ASSUME c[1] = "veth" PROVE w.ns = k.ns
  <2>1. KernelIs(w, k.ns, k.ifs \cup {c[2], c[3]},
                 k.veth \cup {{c[2], c[3]}}, k.bridges, k.master, k.up,
                 k.addr, k.route)
    BY <1>3, AfterFields DEF w
  <2>2. QED
    BY <2>1 DEF KernelIs
<1>4. ASSUME c[1] = "bridge" PROVE w.ns = k.ns
  <2>1. KernelIs(w, k.ns, k.ifs \cup {c[2]}, k.veth,
                 k.bridges \cup {c[2]}, k.master, k.up, k.addr, k.route)
    BY <1>4, AfterFields DEF w
  <2>2. QED
    BY <2>1 DEF KernelIs
<1>5. ASSUME c[1] = "address" PROVE w.ns = k.ns
  <2>1. KernelIs(w, k.ns, k.ifs, k.veth, k.bridges, k.master, k.up,
                 k.addr \cup {<<c[2], c[3]>>}, k.route)
    BY <1>5, AfterFields DEF w
  <2>2. QED
    BY <2>1 DEF KernelIs
<1>6. ASSUME c[1] = "attach" PROVE w.ns = k.ns
  <2>1. KernelIs(w, k.ns, k.ifs, k.veth, k.bridges,
                 {m \in k.master : m[1] # c[2]} \cup {<<c[2], c[3]>>},
                 k.up, k.addr, k.route)
    BY <1>6, AfterFields DEF w
  <2>2. QED
    BY <2>1 DEF KernelIs
<1>7. ASSUME c[1] = "up" PROVE w.ns = k.ns
  <2>1. KernelIs(w, k.ns, k.ifs, k.veth, k.bridges, k.master,
                 k.up \cup {c[2]}, k.addr, k.route)
    BY <1>7, AfterFields DEF w
  <2>2. QED
    BY <2>1 DEF KernelIs
<1>8. ASSUME c[1] = "route" PROVE w.ns = k.ns
  <2>1. KernelIs(w, k.ns, k.ifs, k.veth, k.bridges, k.master, k.up, k.addr,
                 {r \in k.route : r[1] # c[2] \/ r[2] # c[3]}
                   \cup {<<c[2], c[3], c[4]>>})
    BY <1>8, AfterFields DEF w
  <2>2. QED
    BY <2>1 DEF KernelIs
<1>9. ASSUME c[1] = "start" PROVE w.ns = k.ns
  <2>1. KernelIs(w, k.ns, k.ifs \cup Elements(TapNames(c[2])), k.veth,
                 k.bridges, k.master, k.up, k.addr, k.route)
    BY <1>9, AfterFields DEF w
  <2>2. QED
    BY <2>1 DEF KernelIs
<1>10. ASSUME c[1] = "link_del" PROVE w.ns = k.ns
  <2>1. w = WithoutInterfaces(k, {c[2]})
    BY <1>10, AfterFields DEF w
  <2>2. QED
    BY <2>1, WithoutInterfacesFields
<1>11. ASSUME c[1] = "stop" PROVE w.ns = k.ns
  <2>1. w = WithoutInterfaces(k, Elements(TapNames(c[2])) \cap TapDevices(k))
    BY <1>11, AfterFields DEF w
  <2>2. QED
    BY <2>1, WithoutInterfacesFields
<1>12. c[1] \in {"netns_add", "netns_del", "veth", "bridge", "link_del",
                 "address", "attach", "up", "route", "start", "stop"}
  BY DEF Possible
<1>13. QED
  BY <1>1, <1>2, <1>3, <1>4, <1>5, <1>6, <1>7, <1>8, <1>9, <1>10, <1>11, <1>12

-----------------------------------------------------------------------------
(* The call in progress                                                    *)

\* The part of TypeOK that the end of a try block decides.
ControlType ==
    /\ current \in Documents \cup {NoDocument}
    /\ op \in {"none", "apply", "undo", "destroy"}
    /\ doc \in Documents \cup {NoDocument}
    /\ victim \in Documents \cup {NoDocument}
    /\ stage \in {"idle", "stop", "links", "namespaces", "build"}
    /\ (op = "none") = (stage = "idle")
    /\ errors \in BOOLEAN
    /\ result \in {"ok", "error", "refused"}

LEMMA LeaveBlockType ==
    ASSUME ControlType, NEW raised \in BOOLEAN, LeaveBlock(raised)
    PROVE  ControlType'
<1>1. CASE stage = "build" /\ raised /\ op' = "undo" /\ TearDown(doc)
             /\ UNCHANGED <<doc, result, current>>
  BY <1>1 DEF ControlType, TearDown, Run
<1>2. CASE stage = "build" /\ ~raised /\ current' = doc /\ Return("ok")
  BY <1>2 DEF ControlType, Return, Run
<1>3. CASE stage = "stop" /\ Run("links", LinkCalls(victim))
             /\ errors' = (errors \/ raised)
             /\ UNCHANGED <<op, doc, victim, result, current>>
  BY <1>3 DEF ControlType, Run
<1>4. CASE stage = "links" /\ Run("namespaces", NamespaceCalls(victim))
             /\ errors' = (errors \/ raised)
             /\ UNCHANGED <<op, doc, victim, result, current>>
  BY <1>4 DEF ControlType, Run
<1>5. CASE stage = "namespaces" /\ Return("error") /\ UNCHANGED current
  BY <1>5 DEF ControlType, Return, Run
<1>6. CASE stage = "namespaces" /\ current' = NoDocument /\ Return("ok")
  BY <1>6 DEF ControlType, Return, Run
<1>7. CASE stage = "namespaces" /\ op = "apply" /\ current' = NoDocument
             /\ victim' = NoDocument /\ Run("build", ApplyCalls(doc))
             /\ UNCHANGED <<op, doc, errors, result>>
  BY <1>7 DEF ControlType, Run
<1>8. QED
  BY <1>1, <1>2, <1>3, <1>4, <1>5, <1>6, <1>7 DEF LeaveBlock

LEMMA TypeInit == Init => TypeOK
<1>1. Init => operations \in 0..MaxOperations
  BY MaxOperationsAssumption DEF Init
<1>2. QED
  BY <1>1, Zenon DEF Init, TypeOK

LEMMA TypeStep == TypeOK /\ [Next]_vars => TypeOK'
<1> SUFFICES ASSUME TypeOK, [Next]_vars PROVE TypeOK'
  OBVIOUS
<1>0. /\ ControlType /\ fault \in BOOLEAN /\ undoFault \in BOOLEAN
      /\ sound \in BOOLEAN /\ operations \in 0..MaxOperations
  BY DEF TypeOK, ControlType
<1>1. SUFFICES /\ ControlType' /\ fault' \in BOOLEAN /\ undoFault' \in BOOLEAN
               /\ sound' \in BOOLEAN /\ operations' \in 0..MaxOperations
  BY DEF TypeOK, ControlType
<1>2. CASE Apply
  <2>0. fault' = FALSE /\ undoFault' = FALSE
    BY <1>2 DEF Apply, CallBegins
  <2>1. operations' \in 0..MaxOperations
    BY <1>0, <1>2, MaxOperationsAssumption DEF Apply, CallBegins
  <2>2. sound' \in BOOLEAN
    BY <1>2 DEF Apply, CallBegins, Consistent, Complete
  <2>3. ControlType'
    BY <1>0, <1>2 DEF Apply, CallBegins, ControlType, TearDown, Run
  <2>4. QED
    BY <2>0, <2>1, <2>2, <2>3
<1>3. CASE ApplyInvalid
  BY <1>0, <1>3 DEF ApplyInvalid, ControlType, callVars, historyVars
<1>4. CASE Destroy
  <2>0. fault' = FALSE /\ undoFault' = FALSE
    BY <1>4 DEF Destroy, CallBegins
  <2>1. operations' \in 0..MaxOperations
    BY <1>0, <1>4, MaxOperationsAssumption DEF Destroy, CallBegins
  <2>2. sound' \in BOOLEAN
    BY <1>4 DEF Destroy, CallBegins, Consistent, Complete
  <2>3. ControlType'
    BY <1>0, <1>4 DEF Destroy, CallBegins, ControlType, TearDown, Run, callVars
  <2>4. QED
    BY <2>0, <2>1, <2>2, <2>3
<1>5. CASE Call
  BY <1>0, <1>5 DEF Call, ControlType, historyVars
<1>6. CASE DatapathDegraded
  BY <1>0, <1>6 DEF DatapathDegraded, ControlType
<1>7. CASE CommandFails
  <2>1. ControlType'
    BY <1>0, <1>7, LeaveBlockType DEF CommandFails
  <2>2. QED
    BY <1>0, <1>7, <2>1 DEF CommandFails
<1>8. CASE CallImpossible
  <2>1. ControlType'
    BY <1>0, <1>8, LeaveBlockType DEF CallImpossible
  <2>2. QED
    BY <1>0, <1>8, <2>1 DEF CallImpossible, historyVars
<1>9. CASE BlockEnds
  <2>1. ControlType'
    BY <1>0, <1>9, LeaveBlockType DEF BlockEnds
  <2>2. QED
    BY <1>0, <1>9, <2>1 DEF BlockEnds, historyVars
<1>10. CASE StopTimesOut
  BY <1>0, <1>10 DEF StopTimesOut, ControlType, Return, Run
<1>11. CASE UNCHANGED vars
  BY <1>0, <1>11 DEF vars, callVars, historyVars, ControlType
<1>12. QED
  BY <1>2, <1>3, <1>4, <1>5, <1>6, <1>7, <1>8, <1>9, <1>10, <1>11 DEF Next

\* TypeOK: every variable stays in its type and the manager is inside a try
\* block exactly while a call is in progress (manager.py:76-184).
THEOREM TypeCorrect == Spec => []TypeOK
BY TypeInit, TypeStep, PTL DEF Spec

LEMMA LeaveBlockCall ==
    ASSUME ControlType, CallInv, NEW raised \in BOOLEAN, LeaveBlock(raised)
    PROVE  CallInv'
<1>0. current # NoDocument => current \in Documents
  BY DEF ControlType
<1>1. CASE stage = "build" /\ raised /\ op' = "undo" /\ TearDown(doc)
             /\ UNCHANGED <<doc, result, current>>
  <2>1. <<<<"stop", doc>>>> \in Seq({<<"stop", doc>>})
    OBVIOUS
  <2>2. QED
    BY <1>1, <2>1 DEF CallInv, TearDown, Run
<1>2. CASE stage = "build" /\ ~raised /\ current' = doc /\ Return("ok")
  BY <1>2 DEF CallInv, Return, Run
<1>3. CASE stage = "stop" /\ Run("links", LinkCalls(victim))
             /\ errors' = (errors \/ raised)
             /\ UNCHANGED <<op, doc, victim, result, current>>
  <2>1. LinkCalls(victim) \in Seq(LinkSet(victim))
    BY <1>3, LinkCallElements DEF CallInv
  <2>2. LinkCalls(victim) \in Seq(LinkSet(victim')) /\ victim' = victim
    BY <1>3, <2>1
  <2>3. QED
    BY <1>3, <2>2 DEF CallInv, Run
<1>4. CASE stage = "links" /\ Run("namespaces", NamespaceCalls(victim))
             /\ errors' = (errors \/ raised)
             /\ UNCHANGED <<op, doc, victim, result, current>>
  <2>1. NamespaceCalls(victim) \in Seq(NamespaceSet(victim))
    BY <1>4, NamespaceCallElements DEF CallInv
  <2>2. NamespaceCalls(victim) \in Seq(NamespaceSet(victim'))
    BY <1>4, <2>1
  <2>3. QED
    BY <1>4, <2>2 DEF CallInv, Run
<1>5. CASE stage = "namespaces" /\ Return("error") /\ UNCHANGED current
  BY <1>5 DEF CallInv, Return, Run
<1>6. CASE stage = "namespaces" /\ current' = NoDocument /\ Return("ok")
  BY <1>6 DEF CallInv, Return, Run
<1>7. CASE stage = "namespaces" /\ op = "apply" /\ current' = NoDocument
             /\ victim' = NoDocument /\ Run("build", ApplyCalls(doc))
             /\ UNCHANGED <<op, doc, errors, result>>
  <2>1. ApplyCalls(doc) \in Seq(BuildSet(doc))
    BY <1>7, ApplyElements DEF CallInv
  <2>2. ApplyCalls(doc) \in Seq(BuildSet(doc'))
    BY <1>7, <2>1
  <2>3. QED
    BY <1>7, <2>2 DEF CallInv, Run
<1>8. QED
  BY <1>1, <1>2, <1>3, <1>4, <1>5, <1>6, <1>7 DEF LeaveBlock

\* The calls that are left are calls of the block.
LEMMA Shorter ==
    ASSUME ControlType, CallInv, todo # <<>>, todo' = Tail(todo),
           UNCHANGED <<current, op, doc, victim, stage>>
    PROVE  CallInv'
<1>1. ASSUME NEW S, todo \in Seq(S) PROVE Tail(todo) \in Seq(S)
  BY <1>1, HeadAndTail
<1>2. stage = "build" => Tail(todo) \in Seq(BuildSet(doc))
  BY <1>1, Zenon DEF CallInv
<1>3. stage = "stop" => Tail(todo) \in Seq({<<"stop", victim>>})
  BY <1>1, Zenon DEF CallInv
<1>4. stage = "links" => Tail(todo) \in Seq(LinkSet(victim))
  BY <1>1, Zenon DEF CallInv
<1>5. stage = "namespaces" => Tail(todo) \in Seq(NamespaceSet(victim))
  BY <1>1, Zenon DEF CallInv
<1>6. stage # "idle"
  BY DEF CallInv
<1>7. /\ stage' = "build" => todo' \in Seq(BuildSet(doc'))
      /\ stage' = "stop" => todo' \in Seq({<<"stop", victim'>>})
      /\ stage' = "links" => todo' \in Seq(LinkSet(victim'))
      /\ stage' = "namespaces" => todo' \in Seq(NamespaceSet(victim'))
  BY <1>2, <1>3, <1>4, <1>5
<1>8. QED
  BY <1>6, <1>7 DEF CallInv

LEMMA CallStep == TypeOK /\ CallInv /\ [Next]_vars => CallInv'
<1> SUFFICES ASSUME TypeOK, CallInv, [Next]_vars PROVE CallInv'
  OBVIOUS
<1>0. ControlType /\ (current # NoDocument => current \in Documents)
  BY DEF TypeOK, ControlType
<1>1. (op = "none") = (stage = "idle")
  BY DEF TypeOK
<1>2. CASE Apply
  <2>1. PICK d \in Documents :
           /\ Valid(d) /\ op' = "apply" /\ doc' = d
           /\ IF current # NoDocument THEN TearDown(current)
              ELSE /\ Run("build", ApplyCalls(d))
                   /\ UNCHANGED <<victim, errors>>
    BY <1>2 DEF Apply
  <2>2. current' = current
    BY <1>2 DEF Apply
  <2>3. ApplyCalls(d) \in Seq(BuildSet(doc'))
    BY <2>1, ApplyElements
  <2>4. current # NoDocument =>
           <<<<"stop", current>>>> \in Seq({<<"stop", current>>})
    OBVIOUS
  <2>5. CASE current = NoDocument
    BY <2>1, <2>2, <2>3, <2>5 DEF CallInv, Run
  <2>6. CASE current # NoDocument
    BY <1>0, <2>1, <2>2, <2>4, <2>6 DEF CallInv, TearDown, Run
  <2>7. QED
    BY <2>5, <2>6
<1>3. CASE ApplyInvalid
  BY <1>3 DEF ApplyInvalid, CallInv, callVars
<1>4. CASE Destroy
  <2>1. CASE current = NoDocument
    BY <1>4, <2>1 DEF Destroy, CallBegins, CallInv, callVars
  <2>2. CASE current # NoDocument
    <3>1. <<<<"stop", current>>>> \in Seq({<<"stop", current>>})
      OBVIOUS
    <3>2. op' = "destroy" /\ TearDown(current) /\ doc' = doc
            /\ current' = current
      BY <1>4, <2>2 DEF Destroy
    <3>3. QED
      BY <1>0, <2>2, <3>1, <3>2 DEF CallInv, TearDown, Run
  <2>3. QED
    BY <2>1, <2>2
<1>5. CASE Call
  BY <1>0, <1>5, Shorter DEF Call
<1>6. CASE DatapathDegraded
  BY <1>0, <1>6, Shorter DEF DatapathDegraded
<1>7. CASE CommandFails
  BY <1>0, <1>7, LeaveBlockCall DEF CommandFails
<1>8. CASE CallImpossible
  BY <1>0, <1>8, LeaveBlockCall DEF CallImpossible
<1>9. CASE BlockEnds
  BY <1>0, <1>9, LeaveBlockCall DEF BlockEnds
<1>10. CASE StopTimesOut
  BY <1>10 DEF StopTimesOut, Return, Run, CallInv
<1>11. CASE UNCHANGED vars
  BY <1>11 DEF vars, callVars, CallInv
<1>12. QED
  BY <1>2, <1>3, <1>4, <1>5, <1>6, <1>7, <1>8, <1>9, <1>10, <1>11 DEF Next

-----------------------------------------------------------------------------
(* What a failed apply leaves behind                                       *)

LEMMA KernelStep == KernelInv /\ [Next]_vars => KernelInv'
<1> SUFFICES ASSUME KernelInv, [Next]_vars PROVE KernelInv'
  OBVIOUS
<1>1. CASE Call
  <2>1. CASE kernel' = kernel
    BY <2>1 DEF KernelInv
  <2>2. CASE Possible(kernel, Head(todo))
               /\ kernel' = After(kernel, Head(todo))
    BY <2>2, AfterWellFormed DEF KernelInv
  <2>3. QED
    BY <1>1, <2>1, <2>2 DEF Call
<1>2. CASE ~Call
  <2>1. kernel' = kernel
    BY <1>2 DEF Next, vars, Apply, ApplyInvalid, Destroy, DatapathDegraded,
                CommandFails, CallImpossible, BlockEnds, StopTimesOut
  <2>2. QED
    BY <2>1 DEF KernelInv
<1>3. QED
  BY <1>1, <1>2

LEMMA CallKinds ==
    ASSUME NEW d, NEW c
    PROVE  /\ c \in BuildSet(d) =>
                /\ c[1] # "netns_del" /\ c[1] # "stop" /\ c[1] # "link_del"
                /\ c[1] = "netns_add" => c[2] \in Elements(d.namespaces)
           /\ c \in LinkSet(d) => c[1] = "link_del"
           /\ c \in NamespaceSet(d) => c = <<"netns_del", c[2]>>
<1>1. c \in BuildSet(d) =>
         /\ c[1] # "netns_del" /\ c[1] # "stop" /\ c[1] # "link_del"
         /\ c[1] = "netns_add" => c[2] \in Elements(d.namespaces)
  BY DEF BuildSet
<1>2. c \in LinkSet(d) => c[1] = "link_del"
  BY DEF LinkSet
<1>3. c \in NamespaceSet(d) => c = <<"netns_del", c[2]>>
  BY DEF NamespaceSet
<1>4. QED
  BY <1>1, <1>2, <1>3

\* When the namespace block has made its calls there is no namespace left.
LEMMA NamespacesGone ==
    ASSUME OwnedInv, KernelInv, sound, stage = "namespaces", todo = <<>>
    PROVE  kernel = EmptyKernel
<1>1. kernel.ns = {}
  BY DEF OwnedInv, Elements
<1>2. QED
  BY <1>1, NothingWithoutNamespaces DEF KernelInv

LEMMA LeaveBlockOwned ==
    ASSUME ControlType, CallInv, KernelInv, OwnedInv, NEW raised \in BOOLEAN,
           LeaveBlock(raised), ~raised => todo = <<>>,
           UNCHANGED <<kernel, sound>>
    PROVE  OwnedInv'
<1> SUFFICES ASSUME sound PROVE OwnedInv'
  BY DEF OwnedInv
<1>1. CASE stage = "build" /\ raised /\ op' = "undo" /\ TearDown(doc)
             /\ UNCHANGED <<doc, result, current>>
  BY <1>1 DEF OwnedInv, TearDown, Run
<1>2. CASE stage = "build" /\ ~raised /\ current' = doc /\ Return("ok")
  BY <1>2 DEF OwnedInv, Return, Run
<1>3. CASE stage = "stop" /\ Run("links", LinkCalls(victim))
             /\ errors' = (errors \/ raised)
             /\ UNCHANGED <<op, doc, victim, result, current>>
  BY <1>3 DEF OwnedInv, Run
<1>4. CASE stage = "links" /\ Run("namespaces", NamespaceCalls(victim))
             /\ errors' = (errors \/ raised)
             /\ UNCHANGED <<op, doc, victim, result, current>>
  <2>1. victim \in Documents /\ kernel.ns \subseteq Elements(victim.namespaces)
    BY <1>4 DEF CallInv, OwnedInv
  <2>2. Elements(NamespaceCalls(victim)) = NamespaceSet(victim)
    BY <2>1, NamespaceCallElements
  <2>3. \A n \in kernel.ns :
           <<"netns_del", n>> \in Elements(NamespaceCalls(victim))
    BY <2>1, <2>2 DEF NamespaceSet
  <2>4. stage' = "namespaces" /\ todo' = NamespaceCalls(victim)
    BY <1>4 DEF Run
  <2>5. QED
    BY <2>3, <2>4 DEF OwnedInv
<1>5. CASE stage = "namespaces" /\ Return("error") /\ UNCHANGED current
  BY <1>5 DEF OwnedInv, Return, Run
<1>6. CASE stage = "namespaces" /\ current' = NoDocument /\ Return("ok")
  BY <1>6 DEF OwnedInv, Return, Run
<1>7. CASE stage = "namespaces" /\ ~raised /\ op = "apply"
             /\ current' = NoDocument
             /\ victim' = NoDocument /\ Run("build", ApplyCalls(doc))
             /\ UNCHANGED <<op, doc, errors, result>>
  <2>1. kernel.ns = {}
    BY <1>7, NamespacesGone, EmptyIsWellFormed
  <2>2. QED
    BY <1>7, <2>1 DEF OwnedInv, Run
<1>8. QED
  BY <1>1, <1>2, <1>3, <1>4, <1>5, <1>6, <1>7 DEF LeaveBlock

\* A call that returns adds no namespace but those of the document, and the
\* namespace block removes the one it is about.
LEMMA CallOwned ==
    ASSUME CallInv, KernelInv, OwnedInv, Call
    PROVE  OwnedInv'
<1> DEFINE c == Head(todo)
<1> SUFFICES ASSUME sound PROVE OwnedInv'
  BY DEF OwnedInv, Call, historyVars
<1>1. /\ todo # <<>> /\ todo' = Tail(todo)
      /\ UNCHANGED <<doc, victim, stage, sound>>
      /\ \/ Satisfied(kernel, c) /\ UNCHANGED kernel
         \/ Possible(kernel, c) /\ kernel' = After(kernel, c)
  BY DEF Call, historyVars
<1>2. \/ Satisfied(kernel, c) /\ kernel'.ns = kernel.ns
      \/ /\ c[1] = "netns_add" => kernel'.ns = kernel.ns \cup {c[2]}
         /\ c[1] = "netns_del" => kernel'.ns = kernel.ns \ {c[2]}
         /\ c[1] \notin {"netns_add", "netns_del"} => kernel'.ns = kernel.ns
  <2>1. CASE Possible(kernel, c) /\ kernel' = After(kernel, c)
    <3>1. IsKernel(kernel)
      BY DEF KernelInv, WellFormed
    <3> HIDE DEF c
    <3>2. QED
      BY <2>1, <3>1, AfterNamespaces
  <2>2. QED
    BY <1>1, <2>1
<1>3. CASE stage = "build"
  <2>1. c \in BuildSet(doc)
    BY <1>1, <1>3, HeadAndTail DEF CallInv
  <2>2. /\ c[1] # "netns_del"
        /\ c[1] = "netns_add" => c[2] \in Elements(doc.namespaces)
    BY <2>1, CallKinds
  <2> HIDE DEF c
  <2>3. kernel'.ns \subseteq Elements(doc.namespaces)
    BY <1>2, <1>3, <2>2 DEF OwnedInv
  <2>4. QED
    BY <1>1, <1>3, <2>3 DEF OwnedInv
<1>4. CASE stage \in {"stop", "links"}
  <2>1. c[1] \in {"stop", "link_del"}
    <3>1. CASE stage = "stop"
      <4>1. c = <<"stop", victim>>
        BY <1>1, <3>1, HeadAndTail DEF CallInv
      <4>2. QED
        BY <4>1
    <3>2. CASE stage = "links"
      <4>1. c \in LinkSet(victim)
        BY <1>1, <3>2, HeadAndTail DEF CallInv
      <4>2. QED
        BY <4>1, CallKinds
    <3>3. QED
      BY <1>4, <3>1, <3>2
  <2> HIDE DEF c
  <2>2. kernel'.ns = kernel.ns
    BY <1>2, <2>1
  <2>3. QED
    BY <1>1, <1>4, <2>2 DEF OwnedInv
<1>5. CASE stage = "namespaces"
  <2>1. /\ c \in NamespaceSet(victim)
        /\ Elements(todo) = {c} \cup Elements(Tail(todo))
    BY <1>1, <1>5, HeadAndTail DEF CallInv
  <2>2. c = <<"netns_del", c[2]>>
    BY <2>1, CallKinds
  <2> HIDE DEF c
  <2>3. c[1] = "netns_del"
    BY <2>2
  <2>4. kernel'.ns \subseteq kernel.ns /\ c[2] \notin kernel'.ns
    BY <1>2, <2>3 DEF Satisfied
  <2>5. ASSUME NEW n \in kernel'.ns
        PROVE  <<"netns_del", n>> \in Elements(todo')
    <3>1. <<"netns_del", n>> \in Elements(todo)
      BY <1>5, <2>4 DEF OwnedInv
    <3>2. <<"netns_del", n>> # c
      BY <2>2, <2>4
    <3>3. QED
      BY <1>1, <2>1, <3>1, <3>2
  <2>6. QED
    BY <1>1, <1>5, <2>5 DEF OwnedInv
<1>6. CASE stage \notin {"build", "stop", "links", "namespaces"}
  BY <1>1, <1>6 DEF OwnedInv
<1>7. QED
  BY <1>3, <1>4, <1>5, <1>6

LEMMA OwnedStep ==
    TypeOK /\ CallInv /\ KernelInv /\ OwnedInv /\ [Next]_vars => OwnedInv'
<1> SUFFICES ASSUME TypeOK, CallInv, KernelInv, OwnedInv, [Next]_vars
             PROVE  OwnedInv'
  OBVIOUS
<1>0. ControlType
  BY DEF TypeOK, ControlType
<1>1. CASE Apply
  <2>1. sound' = Consistent /\ kernel' = kernel
    BY <1>1 DEF Apply, CallBegins
  <2>2. CASE current = NoDocument
    <3>1. sound' => kernel'.ns = {}
      BY <2>1, <2>2, EmptyIsWellFormed DEF Consistent
    <3>2. stage' = "build"
      BY <1>1, <2>2 DEF Apply, Run
    <3>3. QED
      BY <3>1, <3>2 DEF OwnedInv
  <2>3. CASE current # NoDocument
    <3>1. sound' => kernel'.ns = Elements(current.namespaces)
      BY <2>1, <2>3 DEF Consistent, Complete
    <3>2. stage' = "stop" /\ victim' = current
      BY <1>1, <2>3 DEF Apply, TearDown, Run
    <3>3. QED
      BY <3>1, <3>2 DEF OwnedInv
  <2>4. QED
    BY <2>2, <2>3
<1>2. CASE ApplyInvalid
  BY <1>2 DEF ApplyInvalid, callVars, historyVars, OwnedInv
<1>3. CASE Destroy
  <2>1. sound' = Consistent /\ kernel' = kernel /\ op = "none"
    BY <1>3 DEF Destroy, CallBegins
  <2>2. CASE current = NoDocument
    <3>1. stage' = "idle"
      BY <1>0, <1>3, <2>1, <2>2 DEF Destroy, callVars, ControlType
    <3>2. QED
      BY <3>1 DEF OwnedInv
  <2>3. CASE current # NoDocument
    <3>1. sound' => kernel'.ns = Elements(current.namespaces)
      BY <2>1, <2>3 DEF Consistent, Complete
    <3>2. stage' = "stop" /\ victim' = current
      BY <1>3, <2>3 DEF Destroy, TearDown, Run
    <3>3. QED
      BY <3>1, <3>2 DEF OwnedInv
  <2>4. QED
    BY <2>2, <2>3
<1>4. CASE Call
  BY <1>4, CallOwned
<1>5. CASE DatapathDegraded
  <2>1. stage # "namespaces"
    <3>1. SUFFICES ASSUME stage = "namespaces" PROVE FALSE
      OBVIOUS
    <3>2. Head(todo) \in NamespaceSet(victim)
      BY <1>5, <3>1, HeadAndTail DEF DatapathDegraded, CallInv
    <3>3. QED
      BY <1>5, <3>2 DEF DatapathDegraded, NamespaceSet
  <2>2. QED
    BY <1>5, <2>1 DEF DatapathDegraded, OwnedInv
<1>6. CASE CommandFails
  BY <1>0, <1>6, LeaveBlockOwned DEF CommandFails
<1>7. CASE CallImpossible
  BY <1>0, <1>7, LeaveBlockOwned DEF CallImpossible, historyVars
<1>8. CASE BlockEnds
  BY <1>0, <1>8, LeaveBlockOwned DEF BlockEnds, historyVars
<1>9. CASE StopTimesOut
  BY <1>9 DEF StopTimesOut, Return, Run, OwnedInv
<1>10. CASE UNCHANGED vars
  BY <1>10 DEF vars, callVars, historyVars, OwnedInv
<1>11. QED
  BY <1>1, <1>2, <1>3, <1>4, <1>5, <1>6, <1>7, <1>8, <1>9, <1>10 DEF Next

\* Deleting namespaces never meets a lab it does not expect.
LEMMA NamespacesNeverImpossible ==
    ASSUME CallInv, CallImpossible
    PROVE  stage # "namespaces"
<1> SUFFICES ASSUME stage = "namespaces" PROVE FALSE
  OBVIOUS
<1>1. Head(todo) \in NamespaceSet(victim)
  BY HeadAndTail DEF CallImpossible, CallInv
<1>2. Head(todo)[1] = "netns_del"
  BY <1>1 DEF NamespaceSet
<1>3. QED
  BY <1>2 DEF CallImpossible, Possible, Doubtful

LEMMA FailedStep ==
    TypeOK /\ CallInv /\ KernelInv /\ OwnedInv /\ FailedInv /\ [Next]_vars
      => FailedInv'
<1> SUFFICES ASSUME TypeOK, CallInv, KernelInv, OwnedInv, FailedInv,
                    [Next]_vars
             PROVE  FailedInv'
  OBVIOUS
<1>0. ControlType
  BY DEF TypeOK, ControlType
<1>1. CASE Apply
  BY <1>1 DEF Apply, FailedInv
<1>2. CASE ApplyInvalid
  BY <1>2 DEF ApplyInvalid, FailedInv
<1>3. CASE Destroy
  BY <1>3 DEF Destroy, FailedInv
<1>4. CASE Call
  <2>1. op # "none"
    BY <1>0, <1>4 DEF Call, CallInv, ControlType
  <2>2. QED
    BY <1>4, <2>1 DEF Call, FailedInv
<1>5. CASE DatapathDegraded
  <2>1. op # "none"
    BY <1>0, <1>5 DEF DatapathDegraded, CallInv, ControlType
  <2>2. QED
    BY <1>5, <2>1 DEF DatapathDegraded, FailedInv
<1>6. ASSUME NEW raised \in BOOLEAN, LeaveBlock(raised), op' = "none",
             result' = "error", current' = NoDocument
      PROVE  stage = "namespaces" /\ op = "undo"
  <2>1. /\ stage = "namespaces" /\ Return("error") /\ UNCHANGED current
        /\ errors \/ raised \/ op = "undo"
    BY <1>0, <1>6 DEF LeaveBlock, Return, Run, ControlType
  <2>2. current = NoDocument
    BY <1>6, <2>1
  <2>3. QED
    BY <1>0, <2>1, <2>2, NoDocumentAssumption DEF CallInv, ControlType
<1>7. CASE CommandFails
  BY <1>6, <1>7 DEF CommandFails, FailedInv
<1>8. CASE CallImpossible
  BY <1>6, <1>8, NamespacesNeverImpossible DEF CallImpossible, FailedInv
<1>9. CASE BlockEnds
  <2>1. SUFFICES ASSUME op' = "none", result' = "error", sound',
                        current' = NoDocument
                 PROVE  kernel' = EmptyKernel
    BY DEF FailedInv
  <2>2. /\ LeaveBlock(FALSE) /\ todo = <<>>
        /\ kernel' = kernel /\ sound' = sound
    BY <1>9 DEF BlockEnds, historyVars
  <2>3. stage = "namespaces"
    BY <1>6, <2>1, <2>2
  <2>4. QED
    BY <2>1, <2>2, <2>3, NamespacesGone
<1>10. CASE StopTimesOut
  <2>1. SUFFICES ASSUME current' = NoDocument, ~undoFault' PROVE FALSE
    BY DEF FailedInv
  <2>2. /\ todo # <<>> /\ Head(todo)[1] = "stop" /\ current = NoDocument
        /\ op # "undo"
    BY <1>10, <2>1 DEF StopTimesOut
  <2>3. stage = "stop"
    <3>1. stage = "build" => Head(todo)[1] # "stop"
      BY <2>2, HeadAndTail, CallKinds DEF CallInv
    <3>2. stage = "links" => Head(todo)[1] # "stop"
      BY <2>2, HeadAndTail, CallKinds DEF CallInv
    <3>3. stage = "namespaces" => Head(todo)[1] # "stop"
      <4>1. stage = "namespaces" => Head(todo) \in NamespaceSet(victim)
        BY <2>2, HeadAndTail DEF CallInv
      <4>2. QED
        BY <4>1 DEF NamespaceSet
    <3>4. QED
      BY <1>0, <2>2, <3>1, <3>2, <3>3 DEF CallInv, ControlType
  <2>4. QED
    BY <2>2, <2>3, NoDocumentAssumption DEF CallInv
<1>11. CASE UNCHANGED vars
  BY <1>11 DEF vars, callVars, historyVars, FailedInv
<1>12. QED
  BY <1>1, <1>2, <1>3, <1>4, <1>5, <1>7, <1>8, <1>9, <1>10, <1>11 DEF Next

\* The inductive invariant of the calls.
LabInv == TypeOK /\ CallInv /\ KernelInv /\ OwnedInv /\ FailedInv

\* Whichever calls fail, the manager works on a lab that is its document's and
\* cleans up what it made (manager.py:76-191).
THEOREM LabCorrect == Spec => []LabInv
<1>1. Init => LabInv
  <2>1. Init => CallInv /\ OwnedInv /\ FailedInv
    BY DEF Init, CallInv, OwnedInv, FailedInv
  <2>2. Init => KernelInv
    BY EmptyIsWellFormed DEF Init, KernelInv
  <2>3. QED
    BY TypeInit, <2>1, <2>2 DEF LabInv
<1>2. LabInv /\ [Next]_vars => LabInv'
  BY TypeStep, CallStep, KernelStep, OwnedStep, FailedStep DEF LabInv
<1>3. QED
  BY <1>1, <1>2, PTL DEF Spec

\* FailedApplyLeavesNothing: wherever an apply fails, if its own clean-up
\* met no failing command the lab is empty (manager.py:100-110, 159-191).
THEOREM FailedApplySafety == Spec => []FailedApplyLeavesNothing
<1>1. LabInv => FailedApplyLeavesNothing
  BY DEF LabInv, FailedInv, FailedApplyLeavesNothing
<1>2. QED
  BY <1>1, LabCorrect, PTL

-----------------------------------------------------------------------------
(* What a successful apply builds                                          *)

\* The ports of a valid document: one for each role, with names of their own
\* that no link end has.
LEMMA Taps ==
    ASSUME NEW d \in Documents, Valid(d)
    PROVE  \E i, j \in DOMAIN d.ports :
              /\ d.ports[i].role = "ingress" /\ d.ports[j].role = "egress"
              /\ TapNames(d) = <<<<d.dpdk, d.ports[i].name>>,
                                 <<d.dpdk, d.ports[j].name>>>>
              /\ d.ports[i].name # d.ports[j].name
              /\ \A p \in Elements(d.ports) :
                    p = d.ports[i] \/ p = d.ports[j]
              /\ \A p \in Elements(d.ports) :
                    p.ns = d.dpdk /\ <<d.dpdk, p.name>> \notin Ends(d)
<1> DEFINE in == CHOOSE p \in PortWithRole(d, "ingress") : TRUE
           out == CHOOSE p \in PortWithRole(d, "egress") : TRUE
<1>1. PortsValid(d)
  BY DEF Valid
<1>2. in \in PortWithRole(d, "ingress") /\ out \in PortWithRole(d, "egress")
  BY <1>1 DEF PortsValid
<1>3. TapNames(d) = <<<<d.dpdk, in.name>>, <<d.dpdk, out.name>>>>
  BY DEF TapNames
<1> HIDE DEF in, out
<1>4. PICK i \in DOMAIN d.ports : d.ports[i] = in
  BY <1>2 DEF PortWithRole, Elements
<1>5. PICK j \in DOMAIN d.ports : d.ports[j] = out
  BY <1>2 DEF PortWithRole, Elements
<1>6. d.ports[i].role = "ingress" /\ d.ports[j].role = "egress"
  BY <1>2, <1>4, <1>5 DEF PortWithRole
<1>7. d.ports[i].name # d.ports[j].name
  <2>1. i # j
    BY <1>6
  <2>2. QED
    BY <1>1, <2>1 DEF PortsValid, NamesDistinct, Distinct
<1>8. ASSUME NEW p \in Elements(d.ports)
      PROVE  p = d.ports[i] \/ p = d.ports[j]
  <2>1. PICK m \in DOMAIN d.ports : p = d.ports[m]
    BY DEF Elements
  <2>2. d.ports[m].role \in {"ingress", "egress"}
    <3> DEFINE Port == [name: STRING, ns: STRING, role: {"ingress", "egress"}]
    <3>1. d.ports \in Seq(Port)
      BY Shape
    <3> HIDE DEF Port
    <3>2. d.ports[m] \in Port
      BY <3>1
    <3>3. QED
      BY <3>2 DEF Port
  <2>3. m = i \/ m = j
    BY <1>1, <1>6, <2>2 DEF PortsValid
  <2>4. QED
    BY <2>1, <2>3
<1>9. \A p \in Elements(d.ports) :
         p.ns = d.dpdk /\ <<d.dpdk, p.name>> \notin Ends(d)
  BY <1>1, EndpointElements DEF PortsValid
<1>10. QED
  BY <1>3, <1>4, <1>5, <1>6, <1>7, <1>8, <1>9

LEMMA EndsArePairs ==
    ASSUME NEW d \in Documents, NEW e \in Ends(d)
    PROVE  e \in STRING \X STRING /\ e = <<e[1], e[2]>>
<1> DEFINE Link == [name: STRING, a: STRING \X STRING,
                    b: STRING \X STRING, net_a: STRING, net_b: STRING]
<1>1. d.links \in Seq(Link)
  BY Shape
<1> HIDE DEF Link
<1>2. \A l \in Elements(d.links) : l \in Link
  BY <1>1 DEF Elements
<1>3. \A l \in Link : l.a \in STRING \X STRING /\ l.b \in STRING \X STRING
  BY DEF Link
<1>4. QED
  BY <1>2, <1>3 DEF Ends

LEMMA TapsAreNoEnds ==
    ASSUME NEW d \in Documents, Valid(d)
    PROVE  Elements(TapNames(d)) \cap Ends(d) = {}
<1>1. PICK i, j \in DOMAIN d.ports :
         /\ TapNames(d) = <<<<d.dpdk, d.ports[i].name>>,
                            <<d.dpdk, d.ports[j].name>>>>
         /\ \A p \in Elements(d.ports) : <<d.dpdk, p.name>> \notin Ends(d)
  BY Taps
<1>2. Elements(TapNames(d)) = {<<d.dpdk, d.ports[i].name>>,
                               <<d.dpdk, d.ports[j].name>>}
  BY <1>1 DEF Elements
<1>3. d.ports[i] \in Elements(d.ports) /\ d.ports[j] \in Elements(d.ports)
  BY DEF Elements
<1>4. QED
  BY <1>1, <1>2, <1>3

\* An interface is to be a member of one bridge only.
LEMMA OneBridge ==
    ASSUME NEW d \in Documents, Valid(d), SidesAreLinks(d),
           NEW x \in Members(d), NEW y \in Members(d), x[1] = y[1]
    PROVE  x = y
<1>1. PICK i, j \in DOMAIN d.ports :
         /\ TapNames(d) = <<<<d.dpdk, d.ports[i].name>>,
                            <<d.dpdk, d.ports[j].name>>>>
         /\ d.ports[i].name # d.ports[j].name
         /\ \A p \in Elements(d.ports) : <<d.dpdk, p.name>> \notin Ends(d)
  BY Taps
<1>2. /\ TapNames(d)[1] = <<d.dpdk, d.ports[i].name>>
      /\ TapNames(d)[2] = <<d.dpdk, d.ports[j].name>>
  BY <1>1
<1>3. TapNames(d)[1] \notin Ends(d) /\ TapNames(d)[2] \notin Ends(d)
  BY <1>1, <1>2 DEF Elements
<1>4. TapNames(d)[1] # TapNames(d)[2]
  BY <1>1, <1>2
<1>5. VethIn(d) \in Ends(d) /\ VethOut(d) \in Ends(d)
  BY EndpointElements DEF SidesAreLinks
<1>6. VethIn(d) # VethOut(d)
  BY DEF VethIn, VethOut
<1>7. QED
  BY <1>3, <1>4, <1>5, <1>6 DEF Members

\* The bridge-side interfaces are interfaces the lab is to have.
LEMMA SidesWanted ==
    ASSUME NEW d \in Documents, Valid(d)
    PROVE  VethIn(d) \in Wanted(d) /\ VethOut(d) \in Wanted(d)
<1>1. PICK x, y \in DOMAIN d.ports :
         /\ TapNames(d) = <<<<d.dpdk, d.ports[x].name>>,
                            <<d.dpdk, d.ports[y].name>>>>
         /\ \A p \in Elements(d.ports) : p = d.ports[x] \/ p = d.ports[y]
  BY Taps
<1>2. Elements(TapNames(d)) = {<<d.dpdk, d.ports[x].name>>,
                               <<d.dpdk, d.ports[y].name>>}
  BY <1>1 DEF Elements
<1>3. \A e \in Ends(d) : e = <<e[1], e[2]>>
  BY EndsArePairs
<1>4. ASSUME NEW i \in {"veth-in-k", "veth-out-k"}
      PROVE  <<d.dpdk, i>> \in Wanted(d)
  <2>1. i \in Interfaces(d, d.dpdk)
    BY DEF Valid, BridgeSideValid
  <2>2. CASE \E e \in Elements(Endpoints(d)) : e[1] = d.dpdk /\ e[2] = i
    <3>1. PICK e \in Ends(d) : e[1] = d.dpdk /\ e[2] = i
      BY <2>2, EndpointElements
    <3>2. e = <<d.dpdk, i>>
      BY <1>3, <3>1
    <3>3. QED
      BY <3>1, <3>2, WantedIs
  <2>3. CASE \E p \in Elements(d.ports) : p.ns = d.dpdk /\ p.name = i
    <3>1. PICK p \in Elements(d.ports) : p.name = i
      BY <2>3
    <3>2. i = d.ports[x].name \/ i = d.ports[y].name
      BY <1>1, <3>1
    <3>3. QED
      BY <1>2, <3>2, WantedIs
  <2>4. QED
    BY <2>1, <2>2, <2>3 DEF Interfaces
<1>5. QED
  BY <1>4 DEF VethIn, VethOut

\* A method that has nothing to do finds its work done.  That the ends of a
\* link are there means that they are joined, as long as there is no bridge:
\* nothing else has the name of a link end but a loopback.
LEMMA SatisfiedIsDone ==
    ASSUME NEW d \in Documents, Valid(d), NEW k, Bounded(k, d),
           NEW c \in BuildSet(d), c[1] = "veth" => k.bridges = {},
           Satisfied(k, c)
    PROVE  Done(k, c)
<1>1. CASE c[1] = "veth"
  <2>1. PICK l \in Elements(d.links) : c = <<"veth", l.a, l.b>>
    BY <1>1 DEF BuildSet
  <2>2. l.a \in k.ifs /\ l.b \in k.ifs /\ k.bridges = {}
    BY <1>1, <2>1 DEF Satisfied
  <2>3. ASSUME NEW e \in {l.a, l.b}, e # Loopback(e[1])
        PROVE  {l.a, l.b} \in k.veth
    <3>1. e \in Ends(d) /\ e \in k.ifs
      BY <2>2 DEF Ends
    <3>2. e \notin Elements(TapNames(d))
      BY <3>1, TapsAreNoEnds
    <3>3. e \in UNION k.veth
      BY <2>2, <2>3, <3>1, <3>2 DEF Bounded
    <3>4. PICK pair \in k.veth : e \in pair
      BY <3>3
    <3>5. PICK m \in Elements(d.links) : pair = {m.a, m.b}
      BY DEF Bounded
    <3>6. PICK i \in DOMAIN d.links : l = d.links[i]
      BY DEF Elements
    <3>7. PICK j \in DOMAIN d.links : m = d.links[j]
      BY DEF Elements
    <3>8. e \in {d.links[i].a, d.links[i].b} \cap {d.links[j].a, d.links[j].b}
      BY <3>4, <3>5, <3>6, <3>7
    <3>9. i = j
      BY <3>8 DEF Valid, LinksValid
    <3>10. QED
      BY <3>4, <3>5, <3>6, <3>7, <3>9
  <2>4. Joins(k, l.a, l.b)
    BY <2>3 DEF Joins
  <2>5. QED
    BY <2>1, <2>4 DEF Done
<1>2. CASE c[1] # "veth"
  BY <1>2 DEF Satisfied, Done
<1>3. QED
  BY <1>1, <1>2

\* What was there is there after a call, but that an interface changes its
\* bridge.
Kept(k, w, c) ==
    /\ k.ns \subseteq w.ns /\ k.veth \subseteq w.veth
    /\ k.up \subseteq w.up /\ k.addr \subseteq w.addr
    /\ \A m \in k.master :
          m \in w.master \/ (c[1] = "attach" /\ m[1] = c[2])

RoutesAfter(k, c) ==
    IF c[1] # "route" THEN k.route
    ELSE {r \in k.route : r[1] # c[2] \/ r[2] # c[3]} \cup {<<c[2], c[3], c[4]>>}

\* What a command of apply leaves behind: its own effect and everything that
\* was there, but that a route replaces the one to its destination; and
\* nothing the document does not ask for.
LEMMA BuildCommand ==
    ASSUME NEW d \in Documents, Valid(d), NEW k, IsKernel(k), Bounded(k, d),
           NEW c \in BuildSet(d), Possible(k, c)
    PROVE  LET w == After(k, c)
           IN  /\ Bounded(w, d) /\ Done(w, c)
               /\ Kept(k, w, c)
               /\ c[1] # "bridge" => w.bridges = k.bridges
               /\ w.route = RoutesAfter(k, c)
<1> DEFINE w == After(k, c)
           lo == {Loopback(n) : n \in Elements(d.namespaces)}
           kinds(x) == \A i \in x.ifs : \/ i = Loopback(i[1])
                                        \/ i \in UNION x.veth
                                        \/ i \in x.bridges
                                        \/ i \in Elements(TapNames(d))
           pairs(x) == \A pair \in x.veth :
                          \E l \in Elements(d.links) : pair = {l.a, l.b}
           Grows == /\ Bounded(w, d) /\ Done(w, c)
                    /\ Kept(k, w, c)
                    /\ c[1] # "bridge" => w.bridges = k.bridges
                    /\ w.route = RoutesAfter(k, c)
<1> SUFFICES Grows
  OBVIOUS
<1> HIDE DEF w
<1>0. /\ \A n \in k.ns : Loopback(n) \in k.ifs
      /\ k.ifs \subseteq Wanted(d) \cup lo /\ k.up \subseteq Wanted(d)
      /\ k.master \subseteq Members(d) /\ pairs(k) /\ kinds(k)
  BY DEF Bounded
<1>1. CASE c[1] = "netns_add"
  <2>1. KernelIs(w, k.ns \cup {c[2]}, k.ifs \cup {Loopback(c[2])}, k.veth,
                 k.bridges, k.master, k.up, k.addr, k.route)
    BY <1>1, AfterFields DEF w
  <2>2. Loopback(c[2]) \in lo
    BY <1>1, CallKinds
  <2>3. Loopback(c[2]) = Loopback(Loopback(c[2])[1])
    BY DEF Loopback
  <2>4. kinds(w)
    BY <1>0, <2>1, <2>3 DEF KernelIs
  <2>5. Bounded(w, d)
    BY <1>0, <2>1, <2>2, <2>4 DEF KernelIs, Bounded
  <2>6. QED
    BY <1>1, <2>1, <2>5 DEF KernelIs, Done, Kept, RoutesAfter
<1>2. CASE c[1] = "veth"
  <2>1. KernelIs(w, k.ns, k.ifs \cup {c[2], c[3]},
                 k.veth \cup {{c[2], c[3]}}, k.bridges, k.master, k.up,
                 k.addr, k.route)
    BY <1>2, AfterFields DEF w
  <2>2. PICK l \in Elements(d.links) : c[2] = l.a /\ c[3] = l.b
    BY <1>2 DEF BuildSet
  <2>3. c[2] \in Wanted(d) /\ c[3] \in Wanted(d)
    BY <2>2, WantedIs DEF Ends
  <2>4. pairs(w)
    BY <1>0, <2>1, <2>2 DEF KernelIs
  <2>5. UNION k.veth \subseteq UNION w.veth /\ {c[2], c[3]} \in w.veth
    BY <2>1 DEF KernelIs
  <2>6. kinds(w)
    BY <1>0, <2>1, <2>5 DEF KernelIs
  <2>7. Bounded(w, d)
    BY <1>0, <2>1, <2>3, <2>4, <2>6 DEF KernelIs, Bounded
  <2>8. QED
    BY <1>2, <2>1, <2>7 DEF KernelIs, Done, Kept, RoutesAfter, Joins
<1>3. CASE c[1] = "bridge"
  <2>1. KernelIs(w, k.ns, k.ifs \cup {c[2]}, k.veth,
                 k.bridges \cup {c[2]}, k.master, k.up, k.addr, k.route)
    BY <1>3, AfterFields DEF w
  <2>2. c[2] \in Wanted(d)
    BY <1>3 DEF BuildSet, Wanted
  <2>3. kinds(w)
    BY <1>0, <2>1 DEF KernelIs
  <2>4. Bounded(w, d)
    BY <1>0, <2>1, <2>2, <2>3 DEF KernelIs, Bounded
  <2>5. QED
    BY <1>3, <2>1, <2>4 DEF KernelIs, Done, Kept, RoutesAfter
<1>4. CASE c[1] = "address"
  <2>1. KernelIs(w, k.ns, k.ifs, k.veth, k.bridges, k.master, k.up,
                 k.addr \cup {<<c[2], c[3]>>}, k.route)
    BY <1>4, AfterFields DEF w
  <2>2. Bounded(w, d)
    BY <1>0, <2>1 DEF KernelIs, Bounded
  <2>3. QED
    BY <1>4, <2>1, <2>2 DEF KernelIs, Done, Kept, RoutesAfter
<1>5. CASE c[1] = "attach"
  <2>1. KernelIs(w, k.ns, k.ifs, k.veth, k.bridges,
                 {m \in k.master : m[1] # c[2]} \cup {<<c[2], c[3]>>},
                 k.up, k.addr, k.route)
    BY <1>5, AfterFields DEF w
  <2>2. <<c[2], c[3]>> \in Members(d)
    <3>1. PICK m \in Members(d) : c = <<"attach", m[1], m[2]>>
      BY <1>5 DEF BuildSet
    <3>2. m = <<m[1], m[2]>>
      BY DEF Members
    <3>3. QED
      BY <3>1, <3>2
  <2>3. Bounded(w, d)
    BY <1>0, <2>1, <2>2 DEF KernelIs, Bounded
  <2>4. QED
    BY <1>5, <2>1, <2>3 DEF KernelIs, Done, Kept, RoutesAfter
<1>6. CASE c[1] = "up"
  <2>1. KernelIs(w, k.ns, k.ifs, k.veth, k.bridges, k.master,
                 k.up \cup {c[2]}, k.addr, k.route)
    BY <1>6, AfterFields DEF w
  <2>2. c[2] \in Wanted(d)
    <3>1. c[2] \in Wanted(d) \cup {VethIn(d), VethOut(d)}
      BY <1>6 DEF BuildSet
    <3>2. QED
      BY <3>1, SidesWanted
  <2>3. Bounded(w, d)
    BY <1>0, <2>1, <2>2 DEF KernelIs, Bounded
  <2>4. QED
    BY <1>6, <2>1, <2>3 DEF KernelIs, Done, Kept, RoutesAfter
<1>7. CASE c[1] = "route"
  <2>1. KernelIs(w, k.ns, k.ifs, k.veth, k.bridges, k.master, k.up, k.addr,
                 {r \in k.route : r[1] # c[2] \/ r[2] # c[3]}
                   \cup {<<c[2], c[3], c[4]>>})
    BY <1>7, AfterFields DEF w
  <2>2. Bounded(w, d)
    BY <1>0, <2>1 DEF KernelIs, Bounded
  <2>3. QED
    BY <1>7, <2>1, <2>2 DEF KernelIs, Done, Kept, RoutesAfter
<1>8. CASE c[1] = "start"
  <2>1. KernelIs(w, k.ns, k.ifs \cup Elements(TapNames(c[2])), k.veth,
                 k.bridges, k.master, k.up, k.addr, k.route)
    BY <1>8, AfterFields DEF w
  <2>2. c[2] = d
    BY <1>8 DEF BuildSet
  <2>3. Elements(TapNames(d)) \subseteq Wanted(d)
    BY DEF Wanted
  <2>4. kinds(w)
    BY <1>0, <2>1, <2>2 DEF KernelIs
  <2>5. Bounded(w, d)
    BY <1>0, <2>1, <2>2, <2>3, <2>4 DEF KernelIs, Bounded
  <2>6. QED
    BY <1>8, <2>1, <2>5 DEF KernelIs, Done, Kept, RoutesAfter
<1>9. c[1] \in {"netns_add", "veth", "bridge", "address", "attach", "up",
                "route", "start"}
  BY CallKinds DEF Possible
<1>10. QED
  BY <1>1, <1>2, <1>3, <1>4, <1>5, <1>6, <1>7, <1>8, <1>9

\* And no work that was done is undone.
LEMMA StaysDone ==
    ASSUME NEW d \in Documents, Valid(d), NEW k, IsKernel(k), Bounded(k, d),
           NEW c \in BuildSet(d), Possible(k, c),
           NEW e \in BuildSet(d), ~Unsettled(d, e), Done(k, e)
    PROVE  Done(After(k, c), e)
<1> DEFINE w == After(k, c)
<1>1. Done(w, c) /\ Kept(k, w, c)
  BY BuildCommand
<1> HIDE DEF w
<1>2. CASE e[1] # "attach"
  BY <1>1, <1>2 DEF Done, Joins, Kept, w
<1>3. CASE e[1] = "attach"
  <2>1. PICK m \in Members(d) : e = <<"attach", m[1], m[2]>>
    BY <1>3 DEF BuildSet
  <2>2. m = <<m[1], m[2]>> /\ m \in k.master
    BY <2>1 DEF Members, Done
  <2>3. CASE m \in w.master
    BY <2>1, <2>2, <2>3 DEF Done, w
  <2>4. CASE c[1] = "attach" /\ m[1] = c[2]
    <3>1. PICK n \in Members(d) : c = <<"attach", n[1], n[2]>>
      BY <2>4 DEF BuildSet
    <3>2. m[1] = n[1]
      BY <2>4, <3>1
    <3>3. m = n
      BY <1>3, <3>2, OneBridge DEF Unsettled
    <3>4. c = e
      BY <2>1, <3>1, <3>3
    <3>5. QED
      BY <1>1, <3>4 DEF w
  <2>5. QED
    BY <1>1, <2>2, <2>3, <2>4 DEF Kept
<1>4. QED
  BY <1>2, <1>3

LEMMA EndingTail ==
    ASSUME NEW S, NEW s \in Seq(S), s # <<>>, NEW T, NEW t \in Seq(T),
           Ending(s, t)
    PROVE  /\ Ending(Tail(s), t) /\ Len(Tail(s)) = Len(s) - 1
           /\ Head(s) = t[(Len(t) - Len(s)) + 1]
<1>1. /\ Len(s) \in Nat /\ Len(t) \in Nat /\ Len(s) # 0
      /\ Head(s) = s[1] /\ Len(Tail(s)) = Len(s) - 1
      /\ \A i \in 1..(Len(s) - 1) : Tail(s)[i] = s[i + 1]
  OBVIOUS
<1>2. /\ Len(s) <= Len(t)
      /\ \A i \in 1..Len(s) : s[i] = t[(Len(t) - Len(s)) + i]
  BY DEF Ending
<1>3. ASSUME NEW i \in 1..(Len(s) - 1)
      PROVE  Tail(s)[i] = t[(Len(t) - (Len(s) - 1)) + i]
  <2>1. i + 1 \in 1..Len(s)
    BY <1>1
  <2>2. (Len(t) - (Len(s) - 1)) + i = (Len(t) - Len(s)) + (i + 1)
    BY <1>1
  <2>3. QED
    BY <1>1, <1>2, <2>1, <2>2
<1>4. QED
  BY <1>1, <1>2, <1>3 DEF Ending

\* After a bridge there is no link to make.
LEMMA BridgesLast ==
    ASSUME NEW d \in Documents, NEW s \in Seq(BuildSet(d)), s # <<>>,
           Ending(s, ApplyCalls(d)), Head(s)[1] = "bridge"
    PROVE  \A x \in Elements(Tail(s)) : x[1] # "veth"
<1> DEFINE t == ApplyCalls(d)
<1>1. PICK n \in Nat : LinksFirst(t, n)
  BY ApplyElements
<1>2. t \in Seq(BuildSet(d))
  BY ApplyElements
<1> HIDE DEF t
<1>3. /\ Len(s) \in Nat /\ Len(t) \in Nat /\ Len(s) # 0 /\ Len(s) <= Len(t)
      /\ DOMAIN Tail(s) = 1..(Len(s) - 1)
      /\ Len(Tail(s)) = Len(s) - 1
  BY <1>2 DEF Ending, t
<1>4. /\ Head(s) = t[(Len(t) - Len(s)) + 1]
      /\ Ending(Tail(s), t)
  BY <1>2, EndingTail DEF t
<1>5. (Len(t) - Len(s)) + 1 \in 1..Len(t) /\ (Len(t) - Len(s)) + 1 > n
  <2>1. (Len(t) - Len(s)) + 1 \in 1..Len(t)
    BY <1>3
  <2>2. ~((Len(t) - Len(s)) + 1 <= n)
    BY <1>1, <1>4, <2>1 DEF LinksFirst
  <2>3. QED
    BY <1>3, <2>1, <2>2
<1>6. ASSUME NEW i \in 1..(Len(s) - 1)
      PROVE  Tail(s)[i][1] # "veth"
  <2> DEFINE p == (Len(t) - (Len(s) - 1)) + i
  <2>1. p \in 1..Len(t) /\ p > n
    BY <1>3, <1>5
  <2>2. Tail(s)[i] = t[p]
    BY <1>3, <1>4 DEF Ending
  <2> HIDE DEF p
  <2>3. QED
    BY <1>1, <2>1, <2>2 DEF LinksFirst
<1>7. QED
  BY <1>3, <1>6 DEF Elements

\* The calls of apply up to the routes install none, and each of those that
\* follow is the next route.
LEMMA NextRoute ==
    ASSUME NEW d \in Documents, NEW s \in Seq(BuildSet(d)), s # <<>>,
           Ending(s, ApplyCalls(d))
    PROVE  LET n == RoutesMade(d, s)
           IN  \/ Head(s)[1] # "route" /\ RoutesMade(d, Tail(s)) = n
               \/ /\ n \in Nat /\ n + 1 \in 1..Len(d.routes)
                  /\ RoutesMade(d, Tail(s)) = n + 1
                  /\ Head(s) = <<"route", d.routes[n + 1].ns,
                                 d.routes[n + 1].dst, d.routes[n + 1].via>>
<1> DEFINE t == ApplyCalls(d)
           g == EnsureRoutes(d)
           m == Len(d.routes)
           n == RoutesMade(d, s)
<1>1. PICK u \in Seq(BuildSet(d)) :
         /\ t = u \o g /\ g \in Seq(BuildSet(d))
         /\ \A x \in Elements(u) : x[1] # "route"
  BY ApplyElements
<1>2. t \in Seq(BuildSet(d))
  BY ApplyElements
<1>3. m \in Nat /\ DOMAIN d.routes = 1..m
  BY Shape
<1>4. /\ DOMAIN g = 1..m
      /\ \A i \in 1..m : g[i] = <<"route", d.routes[i].ns, d.routes[i].dst,
                                  d.routes[i].via>>
  BY <1>3 DEF EnsureRoutes
<1> HIDE DEF g, m
<1>5. Len(g) = m
  BY <1>1, <1>3, <1>4
<1>6. /\ Len(t) = Len(u) + m /\ Len(u) \in Nat /\ DOMAIN u = 1..Len(u)
      /\ \A i \in 1..Len(u) : t[i] = u[i]
      /\ \A i \in 1..m : t[Len(u) + i] = g[i]
  <2> HIDE DEF t
  <2>1. QED
    BY <1>1, <1>5
<1> HIDE DEF t
<1>7. /\ Len(s) \in Nat /\ Len(s) # 0 /\ Len(s) <= Len(t)
      /\ Len(Tail(s)) = Len(s) - 1 /\ Head(s) = t[(Len(t) - Len(s)) + 1]
  BY <1>2, EndingTail DEF t, Ending
<1>8. CASE Len(s) > m
  <2>1. (Len(t) - Len(s)) + 1 \in 1..Len(u)
    BY <1>3, <1>6, <1>7, <1>8
  <2>2. Head(s) \in Elements(u)
    BY <1>6, <1>7, <2>1 DEF Elements
  <2>3. RoutesMade(d, s) = 0 /\ RoutesMade(d, Tail(s)) = 0
    <3>1. Len(s) >= m /\ Len(Tail(s)) >= m
      BY <1>3, <1>7, <1>8
    <3>2. QED
      BY <3>1, Zenon DEF RoutesMade, m
  <2>4. QED
    BY <1>1, <2>2, <2>3
<1>9. CASE Len(s) <= m
  <2>1. n = m - Len(s) /\ RoutesMade(d, Tail(s)) = n + 1
    BY <1>3, <1>7, <1>9 DEF RoutesMade, m
  <2>2. n \in Nat /\ n + 1 \in 1..m
    BY <1>3, <1>7, <1>9, <2>1
  <2>3. (Len(t) - Len(s)) + 1 = Len(u) + (n + 1)
    BY <1>3, <1>6, <1>7, <2>1
  <2> HIDE DEF n
  <2>4. Head(s) = g[n + 1]
    BY <1>6, <1>7, <2>2, <2>3
  <2>5. Head(s) = <<"route", d.routes[n + 1].ns, d.routes[n + 1].dst,
                    d.routes[n + 1].via>>
    BY <1>4, <2>2, <2>4
  <2>6. QED
    BY <2>1, <2>2, <2>5 DEF n, m
<1>10. QED
  BY <1>3, <1>7, <1>8, <1>9

\* The next route takes the place of the one with its destination.
LEMMA InstalledNext ==
    ASSUME NEW d \in Documents, NEW n \in Nat, n + 1 \in 1..Len(d.routes)
    PROVE  LET r == d.routes[n + 1]
           IN  Installed(d, n + 1) =
                 {x \in Installed(d, n) : x[1] # r.ns \/ x[2] # r.dst}
                   \cup {<<r.ns, r.dst, r.via>>}
<1> DEFINE r == d.routes[n + 1]
           entry(i) == <<d.routes[i].ns, d.routes[i].dst, d.routes[i].via>>
           stays(i) == d.routes[i].ns # r.ns \/ d.routes[i].dst # r.dst
<1>1. 1..(n + 1) = (1..n) \cup {n + 1} /\ n + 1 \notin 1..n
  OBVIOUS
<1>2. \A i \in 1..n : n + 1 > i /\ ~(i > n + 1)
  OBVIOUS
<1>3. LastRoutes(d, n + 1) = {i \in LastRoutes(d, n) : stays(i)} \cup {n + 1}
  <2>1. ASSUME NEW i \in 1..n
        PROVE  i \in LastRoutes(d, n + 1) <=>
                  i \in LastRoutes(d, n) /\ stays(i)
    BY <1>1, <1>2 DEF LastRoutes
  <2>2. n + 1 \in LastRoutes(d, n + 1)
    BY <1>1, <1>2 DEF LastRoutes
  <2>3. LastRoutes(d, n) \subseteq 1..n
    BY DEF LastRoutes
  <2>4. LastRoutes(d, n + 1) \subseteq (1..n) \cup {n + 1}
    BY <1>1 DEF LastRoutes
  <2> HIDE DEF stays
  <2>5. QED
    BY <2>1, <2>2, <2>3, <2>4
<1>4. /\ Installed(d, n + 1) = {entry(i) : i \in LastRoutes(d, n + 1)}
      /\ Installed(d, n) = {entry(i) : i \in LastRoutes(d, n)}
  BY DEF Installed
<1>5. \A i \in LastRoutes(d, n) :
         stays(i) <=> entry(i)[1] # r.ns \/ entry(i)[2] # r.dst
  OBVIOUS
<1>6. entry(n + 1) = <<r.ns, r.dst, r.via>>
  OBVIOUS
<1> HIDE DEF entry, stays, r
<1>7. QED
  BY <1>3, <1>4, <1>5, <1>6 DEF r

\* apply starts from an empty lab with all of its calls to make.
LEMMA BuildStarts ==
    ASSUME NEW d \in Documents, doc' = d, todo' = ApplyCalls(d),
           kernel' = EmptyKernel
    PROVE  BuildInv'
<1>1. Elements(todo') = BuildSet(doc')
  BY ApplyElements
<1>2. /\ kernel'.ns = {} /\ kernel'.ifs = {} /\ kernel'.up = {}
      /\ kernel'.master = {} /\ kernel'.veth = {} /\ kernel'.bridges = {}
      /\ kernel'.route = {}
  BY DEF EmptyKernel
<1>3. Bounded(kernel', doc')
  BY <1>2 DEF Bounded
<1>4. Ending(todo', ApplyCalls(doc'))
  <2>1. ApplyCalls(d) \in Seq(BuildSet(d))
    BY ApplyElements
  <2> DEFINE t == ApplyCalls(d)
  <2> HIDE DEF t
  <2>2. Len(t) \in Nat
    BY <2>1 DEF t
  <2>3. Ending(t, t)
    BY <2>2 DEF Ending
  <2>4. QED
    BY <2>3 DEF t
<1>5. Installed(doc', RoutesMade(doc', todo')) = {}
  <2>1. RoutesMade(d, ApplyCalls(d)) = 0
    <3>1. PICK s \in Seq(BuildSet(d)) :
             /\ ApplyCalls(d) = s \o EnsureRoutes(d)
             /\ EnsureRoutes(d) \in Seq(BuildSet(d))
      BY ApplyElements
    <3>2. Len(d.routes) \in Nat /\ DOMAIN d.routes = 1..Len(d.routes)
      BY Shape
    <3>3. DOMAIN EnsureRoutes(d) = 1..Len(d.routes)
      BY <3>2 DEF EnsureRoutes
    <3> DEFINE g == EnsureRoutes(d)
               t == ApplyCalls(d)
    <3> HIDE DEF g, t
    <3>4. Len(g) = Len(d.routes)
      BY <3>1, <3>2, <3>3 DEF g
    <3>5. t = s \o g /\ g \in Seq(BuildSet(d))
      BY <3>1 DEF g, t
    <3>6. Len(t) = Len(s) + Len(d.routes) /\ Len(s) \in Nat
      BY <3>4, <3>5
    <3>7. QED
      BY <3>2, <3>6 DEF RoutesMade, t
  <2>2. Installed(d, 0) = {}
    BY DEF Installed, LastRoutes
  <2>3. QED
    BY <2>1, <2>2
<1>6. \A c \in BuildSet(doc') : c \in Elements(todo')
  BY <1>1
<1>7. kernel'.route = Installed(doc', RoutesMade(doc', todo'))
  BY <1>2, <1>5
<1>8. QED
  BY <1>2, <1>3, <1>4, <1>6, <1>7, Zenon DEF BuildInv

\* A call that returns has done its work.
LEMMA CallBuilds ==
    ASSUME CallInv, KernelInv, BuildInv, sound, stage = "build",
           todo # <<>>, todo' = Tail(todo), doc' = doc,
           \/ Satisfied(kernel, Head(todo)) /\ kernel' = kernel
           \/ Head(todo)[1] = "start" /\ kernel' = kernel
           \/ Possible(kernel, Head(todo)) /\ kernel' = After(kernel, Head(todo))
    PROVE  BuildInv'
<1> DEFINE c == Head(todo)
<1>1. doc \in Documents /\ Valid(doc) /\ todo \in Seq(BuildSet(doc))
  BY DEF CallInv
<1>2. c \in BuildSet(doc) /\ Elements(todo) = {c} \cup Elements(Tail(todo))
  BY <1>1, HeadAndTail
<1>3. /\ Bounded(kernel, doc) /\ Ending(todo, ApplyCalls(doc))
      /\ \A e \in BuildSet(doc) : \/ e \in Elements(todo) \/ Done(kernel, e)
                                  \/ Unsettled(doc, e)
      /\ kernel.bridges # {} => \A e \in Elements(todo) : e[1] # "veth"
      /\ kernel.route = Installed(doc, RoutesMade(doc, todo))
  BY DEF BuildInv
<1>4. IsKernel(kernel)
  BY DEF KernelInv, WellFormed
<1>5. Ending(Tail(todo), ApplyCalls(doc))
  BY <1>1, <1>3, ApplyElements, EndingTail
<1>6. c[1] = "bridge" => \A e \in Elements(Tail(todo)) : e[1] # "veth"
  BY <1>1, <1>3, BridgesLast
<1> DEFINE n == RoutesMade(doc, todo)
<1>7. \/ c[1] # "route" /\ RoutesMade(doc, Tail(todo)) = n
      \/ /\ n \in Nat /\ n + 1 \in 1..Len(doc.routes)
         /\ RoutesMade(doc, Tail(todo)) = n + 1
         /\ c = <<"route", doc.routes[n + 1].ns, doc.routes[n + 1].dst,
                  doc.routes[n + 1].via>>
  BY <1>1, <1>3, NextRoute
<1> HIDE DEF c, n
<1>8. /\ Bounded(kernel', doc) /\ Done(kernel', c)
      /\ \A e \in BuildSet(doc) :
            Done(kernel, e) => Done(kernel', e) \/ Unsettled(doc, e)
      /\ c[1] # "bridge" => kernel'.bridges = kernel.bridges
      /\ kernel'.route = RoutesAfter(kernel, c)
  <2>1. CASE Satisfied(kernel, c) /\ kernel' = kernel
    <3>1. c[1] = "veth" => kernel.bridges = {}
      BY <1>2, <1>3
    <3>2. Done(kernel, c)
      BY <1>1, <1>2, <1>3, <2>1, <3>1, SatisfiedIsDone
    <3>3. c[1] # "route"
      BY <2>1 DEF Satisfied
    <3>4. QED
      BY <1>3, <2>1, <3>2, <3>3 DEF RoutesAfter
  <2>2. CASE c[1] = "start" /\ kernel' = kernel
    <3>1. Done(kernel, c)
      BY <2>2 DEF Done
    <3>2. QED
      BY <1>3, <2>2, <3>1 DEF RoutesAfter
  <2>3. CASE Possible(kernel, c) /\ kernel' = After(kernel, c)
    <3>1. \A e \in BuildSet(doc) :
             Done(kernel, e) => \/ Done(After(kernel, c), e)
                                \/ Unsettled(doc, e)
      BY <1>1, <1>2, <1>3, <1>4, <2>3, StaysDone
    <3>2. /\ Bounded(After(kernel, c), doc) /\ Done(After(kernel, c), c)
          /\ c[1] # "bridge" => After(kernel, c).bridges = kernel.bridges
          /\ After(kernel, c).route = RoutesAfter(kernel, c)
      BY <1>1, <1>2, <1>3, <1>4, <2>3, BuildCommand
    <3>3. QED
      BY <2>3, <3>1, <3>2
  <2>4. QED
    BY <2>1, <2>2, <2>3 DEF c
<1>9. \A e \in BuildSet(doc) : \/ e \in Elements(Tail(todo))
                               \/ Done(kernel', e) \/ Unsettled(doc, e)
  BY <1>2, <1>3, <1>8
<1>10. kernel'.bridges # {} => \A e \in Elements(Tail(todo)) : e[1] # "veth"
  BY <1>2, <1>3, <1>6, <1>8
<1>11. kernel'.route = Installed(doc, RoutesMade(doc, Tail(todo)))
  <2>1. CASE c[1] # "route" /\ RoutesMade(doc, Tail(todo)) = n
    BY <1>3, <1>8, <2>1 DEF n, RoutesAfter
  <2>2. CASE /\ n \in Nat /\ n + 1 \in 1..Len(doc.routes)
             /\ RoutesMade(doc, Tail(todo)) = n + 1
             /\ c = <<"route", doc.routes[n + 1].ns, doc.routes[n + 1].dst,
                      doc.routes[n + 1].via>>
    <3> DEFINE r == doc.routes[n + 1]
    <3>1. c[1] = "route" /\ c[2] = r.ns /\ c[3] = r.dst /\ c[4] = r.via
      BY <2>2
    <3>2. Installed(doc, n + 1) =
            {x \in Installed(doc, n) : x[1] # r.ns \/ x[2] # r.dst}
              \cup {<<r.ns, r.dst, r.via>>}
      BY <1>1, <2>2, InstalledNext
    <3> HIDE DEF r
    <3>3. kernel.route = Installed(doc, n)
      BY <1>3 DEF n
    <3>4. kernel'.route = {x \in kernel.route : x[1] # r.ns \/ x[2] # r.dst}
                            \cup {<<r.ns, r.dst, r.via>>}
      BY <1>8, <3>1 DEF RoutesAfter
    <3>5. QED
      BY <2>2, <3>2, <3>3, <3>4
  <2>3. QED
    BY <1>7, <2>1, <2>2
<1>12. QED
  BY <1>5, <1>8, <1>9, <1>10, <1>11, Zenon DEF BuildInv

LEMMA LeaveBlockBuild ==
    ASSUME ControlType, CallInv, KernelInv, OwnedInv, NEW raised \in BOOLEAN,
           LeaveBlock(raised), ~raised => todo = <<>>,
           UNCHANGED <<kernel, sound>>
    PROVE  BuildInv'
<1> SUFFICES ASSUME sound, stage' = "build" PROVE BuildInv'
  BY DEF BuildInv
<1>1. /\ stage = "namespaces" /\ ~raised /\ op = "apply"
      /\ Run("build", ApplyCalls(doc)) /\ doc' = doc
  BY DEF LeaveBlock, TearDown, Return, Run
<1>2. kernel' = EmptyKernel
  BY <1>1, NamespacesGone
<1>3. doc \in Documents
  BY <1>1 DEF CallInv
<1>4. QED
  BY <1>1, <1>2, <1>3, BuildStarts DEF Run

LEMMA BuildStep == LabInv /\ BuildInv /\ [Next]_vars => BuildInv'
<1> SUFFICES ASSUME LabInv, BuildInv, [Next]_vars, sound', stage' = "build"
             PROVE  BuildInv'
  BY DEF BuildInv
<1>0. /\ ControlType /\ CallInv /\ KernelInv /\ OwnedInv
  BY DEF LabInv, TypeOK, ControlType
<1>1. CASE Apply
  <2>1. current = NoDocument /\ kernel' = kernel /\ sound' = Consistent
    BY <1>1 DEF Apply, CallBegins, TearDown, Run
  <2>2. kernel' = EmptyKernel
    <3>1. Consistent
      BY <2>1
    <3>2. QED
      BY <2>1, <3>1 DEF Consistent
  <2>3. PICK d \in Documents : doc' = d /\ todo' = ApplyCalls(d)
    BY <1>1, <2>1 DEF Apply, Run
  <2>4. QED
    BY <2>2, <2>3, BuildStarts
<1>2. CASE ApplyInvalid
  BY <1>2 DEF ApplyInvalid, callVars, historyVars, BuildInv
<1>3. CASE Destroy
  <2>1. stage = "idle"
    BY <1>0, <1>3 DEF Destroy, CallBegins, ControlType
  <2>2. QED
    BY <1>3, <2>1 DEF Destroy, TearDown, Run, callVars
<1>4. CASE Call
  <2>1. sound /\ stage = "build" /\ todo # <<>> /\ todo' = Tail(todo)
          /\ doc' = doc
    BY <1>4 DEF Call, historyVars
  <2>2. \/ Satisfied(kernel, Head(todo)) /\ kernel' = kernel
        \/ Possible(kernel, Head(todo)) /\ kernel' = After(kernel, Head(todo))
    BY <1>4 DEF Call
  <2>3. QED
    BY <1>0, <2>1, <2>2, CallBuilds
<1>5. CASE DatapathDegraded
  <2>1. sound /\ stage = "build" /\ todo # <<>> /\ todo' = Tail(todo)
          /\ doc' = doc /\ Head(todo)[1] = "start" /\ kernel' = kernel
    BY <1>5 DEF DatapathDegraded
  <2>2. QED
    BY <1>0, <2>1, CallBuilds
<1>6. CASE CommandFails
  BY <1>0, <1>6, LeaveBlockBuild DEF CommandFails
<1>7. CASE CallImpossible
  BY <1>0, <1>7, LeaveBlockBuild DEF CallImpossible, historyVars
<1>8. CASE BlockEnds
  BY <1>0, <1>8, LeaveBlockBuild DEF BlockEnds, historyVars
<1>9. CASE StopTimesOut
  BY <1>9 DEF StopTimesOut, Return, Run
<1>10. CASE UNCHANGED vars
  BY <1>10 DEF vars, callVars, historyVars, BuildInv
<1>11. QED
  BY <1>1, <1>2, <1>3, <1>4, <1>5, <1>6, <1>7, <1>8, <1>9, <1>10 DEF Next

\* When every call is done, the lab is the document's.
LEMMA Built ==
    ASSUME NEW d \in Documents, Valid(d), NEW k, WellFormed(k),
           k.ns \subseteq Elements(d.namespaces), Bounded(k, d),
           \A c \in BuildSet(d) : Done(k, c) \/ Unsettled(d, c),
           k.route = Installed(d, Len(d.routes))
    PROVE  Complete(k, d)
<1>1. k.ns = Elements(d.namespaces)
  <2>1. ASSUME NEW n \in Elements(d.namespaces) PROVE n \in k.ns
    <3>1. <<"netns_add", n>> \in BuildSet(d)
      BY DEF BuildSet
    <3>2. Done(k, <<"netns_add", n>>)
      BY <3>1 DEF Unsettled
    <3>3. QED
      BY <3>2 DEF Done
  <2>2. QED
    BY <2>1
<1>2. \A i \in Wanted(d) : i \in k.up
  <2>1. ASSUME NEW i \in Wanted(d) PROVE i \in k.up
    <3>1. <<"up", i>> \in BuildSet(d)
      BY DEF BuildSet
    <3>2. Done(k, <<"up", i>>)
      BY <3>1 DEF Unsettled
    <3>3. QED
      BY <3>2 DEF Done
  <2>2. QED
    BY <2>1
<1>3. /\ k.up = Wanted(d)
      /\ k.ifs = Wanted(d) \cup {Loopback(n) : n \in Elements(d.namespaces)}
  <2>1. k.up = Wanted(d) /\ Wanted(d) \subseteq k.ifs
    BY <1>2 DEF WellFormed, Bounded
  <2>2. \A n \in Elements(d.namespaces) : Loopback(n) \in k.ifs
    BY <1>1 DEF Bounded
  <2>3. QED
    BY <2>1, <2>2 DEF Bounded
<1>4. ASSUME NEW l \in Elements(d.links)
      PROVE  \/ {l.a, l.b} \in k.veth
             \/ l.a = Loopback(l.a[1]) /\ l.b = Loopback(l.b[1])
  <2>1. <<"veth", l.a, l.b>> \in BuildSet(d)
    BY DEF BuildSet
  <2>2. Done(k, <<"veth", l.a, l.b>>)
    BY <2>1 DEF Unsettled
  <2>3. QED
    BY <2>2 DEF Done, Joins
<1>5. ASSUME NEW l \in Elements(d.links), l.net_a # "none"
      PROVE  {<<l.a, l.net_a>>, <<l.b, l.net_b>>} \subseteq k.addr
  <2>1. l.net_b # "none"
    BY <1>5 DEF Valid, LinksValid
  <2>2. <<"address", l.a, l.net_a>> \in BuildSet(d)
    BY <1>5 DEF BuildSet
  <2>3. <<"address", l.b, l.net_b>> \in BuildSet(d)
    BY <2>1 DEF BuildSet
  <2>4. Done(k, <<"address", l.a, l.net_a>>)
    BY <2>2 DEF Unsettled
  <2>5. Done(k, <<"address", l.b, l.net_b>>)
    BY <2>3 DEF Unsettled
  <2>6. <<l.a, l.net_a>> \in k.addr
    BY <2>4 DEF Done
  <2>7. <<l.b, l.net_b>> \in k.addr
    BY <2>5 DEF Done
  <2>8. QED
    BY <2>6, <2>7
<1>6. ASSUME SidesAreLinks(d) PROVE k.master = Members(d)
  <2>0. k.master \subseteq Members(d)
    BY DEF Bounded
  <2>1. ASSUME NEW m \in Members(d) PROVE m \in k.master
    <3>1. <<"attach", m[1], m[2]>> \in BuildSet(d)
      BY DEF BuildSet
    <3>2. Done(k, <<"attach", m[1], m[2]>>)
      BY <1>6, <3>1 DEF Unsettled
    <3>3. <<m[1], m[2]>> \in k.master
      BY <3>2 DEF Done
    <3>4. m = <<m[1], m[2]>>
      BY DEF Members
    <3>5. QED
      BY <3>3, <3>4
  <2>2. QED
    BY <2>0, <2>1
<1>7. BrIn(d) # BrOut(d)
  BY DEF BrIn, BrOut
<1>8. ASSUME SidesAreLinks(d)
      PROVE  /\ {x[1] : x \in {m \in k.master : m[2] = BrIn(d)}}
                   = {VethIn(d), TapNames(d)[1]}
             /\ {x[1] : x \in {m \in k.master : m[2] = BrOut(d)}}
                   = {VethOut(d), TapNames(d)[2]}
  <2>1. {m \in k.master : m[2] = BrIn(d)}
           = {<<VethIn(d), BrIn(d)>>, <<TapNames(d)[1], BrIn(d)>>}
    BY <1>6, <1>7, <1>8 DEF Members
  <2>2. {m \in k.master : m[2] = BrOut(d)}
           = {<<TapNames(d)[2], BrOut(d)>>, <<VethOut(d), BrOut(d)>>}
    BY <1>6, <1>7, <1>8 DEF Members
  <2>3. {x[1] : x \in {<<VethIn(d), BrIn(d)>>, <<TapNames(d)[1], BrIn(d)>>}}
           = {VethIn(d), TapNames(d)[1]}
    OBVIOUS
  <2>4. {x[1] : x \in {<<TapNames(d)[2], BrOut(d)>>, <<VethOut(d), BrOut(d)>>}}
           = {VethOut(d), TapNames(d)[2]}
    OBVIOUS
  <2>5. QED
    BY <2>1, <2>2, <2>3, <2>4
<1>9. k.route = {<<d.routes[i].ns, d.routes[i].dst, d.routes[i].via>> :
                    i \in LastRoutes(d, Len(d.routes))}
  BY DEF Installed
<1>10. QED
  BY <1>1, <1>3, <1>4, <1>5, <1>8, <1>9 DEF Complete

LEMMA SuccessStep ==
    LabInv /\ BuildInv /\ SuccessInv /\ [Next]_vars => SuccessInv'
<1> SUFFICES ASSUME LabInv, BuildInv, SuccessInv, [Next]_vars,
                    op' = "none", result' = "ok", sound'
             PROVE  Consistent'
  BY DEF SuccessInv
<1>0. /\ ControlType /\ CallInv /\ KernelInv /\ OwnedInv
  BY DEF LabInv, TypeOK, ControlType
<1>1. CASE Apply
  BY <1>1 DEF Apply
<1>2. CASE ApplyInvalid
  BY <1>2 DEF ApplyInvalid
<1>3. CASE Destroy
  <2>1. sound' = Consistent /\ kernel' = kernel /\ current' = current
    BY <1>3 DEF Destroy, CallBegins
  <2>2. Consistent
    BY <2>1
  <2>3. QED
    BY <2>1, <2>2 DEF Consistent
<1>4. CASE Call
  BY <1>0, <1>4 DEF Call, CallInv, ControlType
<1>5. CASE DatapathDegraded
  BY <1>0, <1>5 DEF DatapathDegraded, CallInv, ControlType
<1>6. CASE CommandFails
  BY <1>0, <1>6 DEF CommandFails, LeaveBlock, Return, TearDown, Run, CallInv,
                    ControlType
<1>7. CASE CallImpossible
  BY <1>0, <1>7 DEF CallImpossible, LeaveBlock, Return, TearDown, Run, CallInv,
                    ControlType
<1>8. CASE BlockEnds
  <2>1. /\ LeaveBlock(FALSE) /\ todo = <<>> /\ op # "none"
        /\ kernel' = kernel /\ sound
    BY <1>8 DEF BlockEnds, historyVars
  <2>2. CASE stage = "build"
    <3>1. current' = doc
      BY <2>1, <2>2 DEF LeaveBlock
    <3>2. doc \in Documents /\ Valid(doc)
      BY <1>0, <2>2 DEF CallInv
    <3>3. Elements(todo) = {}
      BY <2>1 DEF Elements
    <3>4. /\ kernel.ns \subseteq Elements(doc.namespaces)
          /\ Bounded(kernel, doc)
          /\ \A c \in BuildSet(doc) : Done(kernel, c) \/ Unsettled(doc, c)
          /\ kernel.route = Installed(doc, RoutesMade(doc, todo))
      BY <1>0, <2>1, <2>2, <3>3 DEF OwnedInv, BuildInv
    <3>5. RoutesMade(doc, todo) = Len(doc.routes)
      <4>1. Len(doc.routes) \in Nat
        BY <3>2, Shape
      <4>2. QED
        BY <2>1, <4>1 DEF RoutesMade
    <3>6. Complete(kernel, doc)
      BY <1>0, <3>2, <3>4, <3>5, Built DEF KernelInv
    <3>7. QED
      BY <2>1, <3>1, <3>2, <3>6, NoDocumentAssumption DEF Consistent
  <2>3. CASE stage = "namespaces"
    <3>1. current' = NoDocument
      BY <1>0, <2>1, <2>3 DEF LeaveBlock, Return
    <3>2. kernel' = EmptyKernel
      BY <1>0, <2>1, <2>3, NamespacesGone
    <3>3. QED
      BY <3>1, <3>2 DEF Consistent
  <2>4. stage \in {"build", "namespaces"}
    BY <2>1 DEF LeaveBlock
  <2>5. QED
    BY <2>2, <2>3, <2>4
<1>9. CASE StopTimesOut
  BY <1>9 DEF StopTimesOut, Return
<1>10. CASE UNCHANGED vars
  BY <1>10 DEF vars, callVars, historyVars, SuccessInv, Consistent
<1>11. QED
  BY <1>1, <1>2, <1>3, <1>4, <1>5, <1>6, <1>7, <1>8, <1>9, <1>10 DEF Next

\* The lab of an apply in progress holds what its calls so far were for and
\* nothing else, and that of a call that succeeded is what the manager says it
\* is (manager.py:76-157, links.py, taps.py, routes.py).
THEOREM BuildCorrect == Spec => [](LabInv /\ BuildInv /\ SuccessInv)
<1>1. Init => BuildInv /\ SuccessInv
  BY DEF Init, BuildInv, SuccessInv, Consistent
<1>2. LabInv /\ BuildInv /\ SuccessInv /\ [Next]_vars => BuildInv' /\ SuccessInv'
  BY BuildStep, SuccessStep
<1>3. QED
  BY <1>1, <1>2, LabCorrect, PTL DEF Spec

\* SuccessIsComplete: after a call that succeeded the lab is exactly what the
\* manager believes (manager.py:76-157), whatever commands failed before: the
\* links joined, the members of the bridges where their sides are link ends,
\* and of the routes of a namespace to one destination the last, which is
\* the one `ip route replace` leaves (netns.py:121).
THEOREM SuccessSafety == Spec => []SuccessIsComplete
<1>1. SuccessInv => SuccessIsComplete
  BY DEF SuccessInv, SuccessIsComplete
<1>2. QED
  BY <1>1, BuildCorrect, PTL

\* Every interface the document gives a namespace is up in its lab.
LEMMA InterfacesUp ==
    ASSUME NEW d \in Documents, Valid(d), NEW k, Complete(k, d), NEW n,
           NEW i \in Interfaces(d, n)
    PROVE  <<n, i>> \in k.up
<1>1. k.up = Ends(d) \cup Elements(TapNames(d)) \cup {BrIn(d), BrOut(d)}
  BY WantedIs DEF Complete
<1>2. CASE \E e \in Elements(Endpoints(d)) : e[1] = n /\ e[2] = i
  <2>1. PICK e \in Ends(d) : e[1] = n /\ e[2] = i
    BY <1>2, EndpointElements
  <2>2. e = <<e[1], e[2]>>
    BY <2>1, EndsArePairs
  <2>3. e = <<n, i>>
    BY <2>1, <2>2
  <2>4. QED
    BY <1>1, <2>1, <2>3
<1>3. CASE \E p \in Elements(d.ports) : p.ns = n /\ p.name = i
  <2>1. PICK p \in Elements(d.ports) : p.ns = n /\ p.name = i
    BY <1>3
  <2>2. PICK x, y \in DOMAIN d.ports :
           /\ TapNames(d) = <<<<d.dpdk, d.ports[x].name>>,
                              <<d.dpdk, d.ports[y].name>>>>
           /\ p = d.ports[x] \/ p = d.ports[y]
           /\ p.ns = d.dpdk
    BY Taps
  <2>3. \/ <<n, i>> = <<d.dpdk, d.ports[x].name>>
        \/ <<n, i>> = <<d.dpdk, d.ports[y].name>>
    BY <2>1, <2>2
  <2>4. Elements(TapNames(d)) = {<<d.dpdk, d.ports[x].name>>,
                                 <<d.dpdk, d.ports[y].name>>}
    BY <2>2 DEF Elements
  <2>5. QED
    BY <1>1, <2>3, <2>4
<1>4. QED
  BY <1>2, <1>3 DEF Interfaces

\* ReferencesResolve: each capture point of an applied document and each port
\* its rules send to is up (validation.py:564-716 against manager.py:76-157).
THEOREM ReferenceSafety == Spec => []ReferencesResolve
<1>1. LabInv /\ SuccessInv => ReferencesResolve
  <2> SUFFICES ASSUME LabInv, SuccessInv, op = "none", result = "ok", sound,
                      current # NoDocument
               PROVE  ReferencesResolve
    BY DEF ReferencesResolve
  <2>1. /\ current \in Documents /\ Valid(current)
        /\ Complete(kernel, current)
    BY DEF LabInv, TypeOK, CallInv, SuccessInv, Consistent
  <2>2. ASSUME NEW c \in Elements(current.captures)
        PROVE  <<c.ns, c.interface>> \in kernel.up
    <3>1. c.interface \in Interfaces(current, c.ns)
      BY <2>1 DEF Valid, CapturePointsValid
    <3>2. QED
      BY <2>1, <3>1, InterfacesUp
  <2>3. ASSUME NEW port, ActionValid(current, port), port # "none"
        PROVE  <<current.dpdk, port>> \in kernel.up
    <3>1. PICK p \in Elements(current.ports) : p.name = port
      BY <2>3 DEF ActionValid
    <3>2. p.ns = current.dpdk
      BY <2>1 DEF Valid, PortsValid
    <3>3. port \in Interfaces(current, current.dpdk)
      BY <3>1, <3>2 DEF Interfaces
    <3>4. QED
      BY <2>1, <3>3, InterfacesUp
  <2>4. /\ ActionValid(current, current.rules.default)
        /\ \A r \in Elements(current.rules.entries) :
              ActionValid(current, r.port)
    BY <2>1 DEF Valid, RulesetValid
  <2>5. QED
    BY <2>2, <2>3, <2>4 DEF ReferencesResolve
<1>2. QED
  BY <1>1, BuildCorrect, PTL

=============================================================================
