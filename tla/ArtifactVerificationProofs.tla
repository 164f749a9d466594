---------------------- MODULE ArtifactVerificationProofs ----------------------
(* Why an accepted artifact was judged by its declared bytes, for every list of
   tables and reports and every number of changes made by others.

   The first part says what the kernel's program looks like: which steps occur
   in which of its ten parts, and where.  The second part shows that KernelInv is
   inductive: one lemma per action, and one about advancing in the program.    *)
EXTENDS ArtifactVerification, SequenceTheorems, TLAPS

(***************************************************************************)
(* The program.                                                            *)
(***************************************************************************)

\* Steps that name the manifest, and steps that name a declared leaf.
Steps(P, L) == [op : P, file : {"manifest"}] \cup [op : L, file : Leaves]

\* Concatenating two routines.
LEMMA Joined ==
    ASSUME NEW S, NEW s \in Seq(S), NEW t \in Seq(S)
    PROVE  /\ s \o t \in Seq(S) /\ Len(s \o t) = Len(s) + Len(t) /\ Len(s) \in Nat /\ Len(t) \in Nat
           /\ ToSet(s \o t) = ToSet(s) \cup ToSet(t)
<1>1. /\ s \o t \in Seq(S) /\ Len(s \o t) = Len(s) + Len(t)
      /\ \A i \in 1..(Len(s) + Len(t)) : (s \o t)[i] = IF i <= Len(s) THEN s[i] ELSE t[i - Len(s)]
  BY ConcatProperties
<1>2. /\ Len(s) \in Nat /\ Len(t) \in Nat /\ DOMAIN s = 1..Len(s) /\ DOMAIN t = 1..Len(t)
      /\ DOMAIN (s \o t) = 1..(Len(s) + Len(t))
  BY <1>1, LenProperties
<1> DEFINE c == s \o t
<1>c. /\ \A i \in 1..(Len(s) + Len(t)) : c[i] = IF i <= Len(s) THEN s[i] ELSE t[i - Len(s)]
      /\ DOMAIN c = 1..(Len(s) + Len(t)) /\ c \in Seq(S) /\ Len(c) = Len(s) + Len(t)
  BY <1>1, <1>2
<1> HIDE DEF c
<1>3. \A i \in 1..Len(s) : c[i] = s[i] /\ i \in 1..(Len(s) + Len(t))
  BY <1>c, <1>2
<1>4. \A i \in 1..Len(t) : c[Len(s) + i] = t[i] /\ Len(s) + i \in 1..(Len(s) + Len(t))
  <2> SUFFICES ASSUME NEW i \in 1..Len(t)
               PROVE  c[Len(s) + i] = t[i] /\ Len(s) + i \in 1..(Len(s) + Len(t))
    OBVIOUS
  <2>1. Len(s) + i \in 1..(Len(s) + Len(t)) /\ ~(Len(s) + i <= Len(s)) /\ Len(s) + i - Len(s) = i
    BY <1>2
  <2> QED
    BY <1>c, <2>1
<1>5. ToSet(c) \subseteq ToSet(s) \cup ToSet(t)
  <2> SUFFICES ASSUME NEW i \in 1..(Len(s) + Len(t)) PROVE c[i] \in ToSet(s) \cup ToSet(t)
    BY <1>c DEF ToSet
  <2>1. CASE i <= Len(s)
    BY <1>c, <1>2, <2>1 DEF ToSet
  <2>2. CASE ~(i <= Len(s))
    <3>1. c[i] = t[i - Len(s)] /\ i - Len(s) \in 1..Len(t)
      BY <1>c, <1>2, <2>2
    <3> QED BY <3>1, <1>2 DEF ToSet
  <2> QED BY <2>1, <2>2
<1>6. ToSet(s) \subseteq ToSet(c)
  <2> SUFFICES ASSUME NEW i \in 1..Len(s) PROVE s[i] \in ToSet(c)
    BY <1>2 DEF ToSet
  <2> QED BY <1>3, <1>c DEF ToSet
<1>7. ToSet(t) \subseteq ToSet(c)
  <2> SUFFICES ASSUME NEW i \in 1..Len(t) PROVE t[i] \in ToSet(c)
    BY <1>2 DEF ToSet
  <2> QED BY <1>4, <1>c DEF ToSet
<1> QED
  BY <1>c, <1>2, <1>3, <1>4, <1>5, <1>6, <1>7 DEF c

\* Three routines after each other.
LEMMA Joined3 ==
    ASSUME NEW S, NEW s \in Seq(S), NEW t \in Seq(S), NEW u \in Seq(S)
    PROVE  /\ s \o t \o u \in Seq(S) /\ Len(s \o t \o u) = Len(s) + Len(t) + Len(u)
           /\ Len(s) \in Nat /\ Len(t) \in Nat /\ Len(u) \in Nat
           /\ ToSet(s \o t \o u) = ToSet(s) \cup ToSet(t) \cup ToSet(u)
<1> DEFINE c == s \o t
<1>m. c \in Seq(S)
  BY Joined
<1>1. Len(c) = Len(s) + Len(t) /\ Len(s) \in Nat /\ Len(t) \in Nat
      /\ ToSet(c) = ToSet(s) \cup ToSet(t)
  BY Joined
<1>2. s \o t \o u = c \o u
  OBVIOUS
<1> HIDE DEF c
<1>3. c \o u \in Seq(S)
  BY <1>m, Joined, ZenonT(30)
<1>4. Len(c \o u) = Len(c) + Len(u)
  BY <1>m, Joined, ZenonT(30)
<1>5. Len(u) \in Nat
  BY LenProperties
<1>6. ToSet(c \o u) = ToSet(c) \cup ToSet(u)
  BY <1>m, Joined, ZenonT(30)
<1> QED
  BY <1>1, <1>2, <1>3, <1>4, <1>5, <1>6

\* A routine of one step.
LEMMA OneStep ==
    ASSUME NEW S, NEW e \in S
    PROVE  <<e>> \in Seq(S) /\ Len(<<e>>) = 1 /\ <<e>>[1] = e /\ ToSet(<<e>>) = {e}
<1>1. <<e>> \in Seq(S) /\ Len(<<e>>) = 1 /\ <<e>>[1] = e
  OBVIOUS
<1>2. DOMAIN <<e>> = 1..1
  BY <1>1, LenProperties
<1>3. ToSet(<<e>>) = {e}
  BY <1>1, <1>2 DEF ToSet
<1> QED
  BY <1>1, <1>3

\* A list of declared files is a sequence of leaves.
LEMMA DeclaredLeaves ==
    /\ Declared \in Seq(Leaves) /\ Tables \in Seq(Leaves) /\ Reports \in Seq(Leaves)
    /\ "database" \in Leaves /\ "manifest" \notin Leaves /\ "copy" \notin Leaves
    /\ Leaves = ToSet(Tables) \cup ToSet(Reports) \cup {"database"}
<1> DEFINE S == ToSet(Tables) \cup ToSet(Reports) \cup {"database"}
<1>1. Tables \in Seq(S) /\ Reports \in Seq(S)
  <2>1. Tables \in Seq(S)
    BY SeqMonotonic, VerificationAssumption
  <2>2. Reports \in Seq(S)
    BY SeqMonotonic, VerificationAssumption
  <2> QED
    BY <2>1, <2>2
<1>2. "database" \in S
  OBVIOUS
<1> HIDE DEF S
<1>d. <<"database">> \in Seq(S) /\ ToSet(<<"database">>) = {"database"}
  BY <1>2, OneStep
<1>c. Tables \o Reports \in Seq(S) /\ ToSet(Tables \o Reports) = ToSet(Tables) \cup ToSet(Reports)
  BY <1>1, Joined, ZenonT(30)
<1>3. Declared \in Seq(S) /\ ToSet(Declared) = S
  <2> DEFINE c == Tables \o Reports
             d == <<"database">>
  <2>m. c \in Seq(S) /\ d \in Seq(S)
    BY <1>c, <1>d
  <2>1. ToSet(c) = ToSet(Tables) \cup ToSet(Reports) /\ ToSet(d) = {"database"} /\ Declared = c \o d
    BY <1>c, <1>d DEF Declared
  <2> HIDE DEF c, d
  <2>2. c \o d \in Seq(S) /\ ToSet(c \o d) = ToSet(c) \cup ToSet(d)
    BY <2>m, Joined, ZenonT(30)
  <2> QED
    BY <2>1, <2>2 DEF S
<1>4. {"manifest", "copy"} \cap S = {}
  BY <1>3, VerificationAssumption
<1>5. Leaves = S
  BY <1>3 DEF Leaves
<1> QED
  BY <1>1, <1>2, <1>3, <1>4, <1>5 DEF S

\* No table is listed twice.
LEMMA TablesDistinct ==
    /\ Len(Tables) \in Nat /\ Len(Tables) >= 2 /\ Len(Reports) \in Nat /\ Len(Reports) >= 1
    /\ \A i, j \in 1..Len(Tables) : Tables[i] = Tables[j] => i = j
    /\ ToSet(Tables) = {Tables[i] : i \in 1..Len(Tables)}
    /\ ToSet(Reports) = {Reports[i] : i \in 1..Len(Reports)}
<1>1. Len(Tables) \in Nat /\ Len(Reports) \in Nat
  BY DeclaredLeaves, LenProperties
<1>2. Len(Reports) >= 1
  BY <1>1, DeclaredLeaves, EmptySeq, VerificationAssumption
<1>3. DOMAIN Tables = 1..Len(Tables) /\ DOMAIN Reports = 1..Len(Reports)
      /\ DOMAIN Declared = 1..Len(Declared)
  BY DeclaredLeaves, LenProperties
<1>4. /\ Len(Tables \o Reports) = Len(Tables) + Len(Reports) /\ Tables \o Reports \in Seq(Leaves)
      /\ \A i \in 1..(Len(Tables) + Len(Reports)) : (Tables \o Reports)[i] =
            IF i <= Len(Tables) THEN Tables[i] ELSE Reports[i - Len(Tables)]
  BY DeclaredLeaves, ConcatProperties
<1>5. <<"database">> \in Seq(Leaves) /\ Len(<<"database">>) = 1
  BY DeclaredLeaves
<1>6. \A i \in 1..Len(Tables) : i \in 1..Len(Declared) /\ Declared[i] = Tables[i]
  <2> DEFINE c == Tables \o Reports
             d == <<"database">>
  <2>1. c \in Seq(Leaves) /\ d \in Seq(Leaves) /\ Len(d) = 1 /\ Declared = c \o d
    BY <1>4, <1>5 DEF Declared
  <2> HIDE DEF c, d
  <2>2. Len(c \o d) = Len(c) + Len(d)
        /\ \A i \in 1..(Len(c) + Len(d)) : (c \o d)[i] = IF i <= Len(c) THEN c[i] ELSE d[i - Len(c)]
    BY <2>1, ConcatProperties
  <2> QED
    BY <1>1, <1>4, <2>1, <2>2 DEF c
<1>7. \A i, j \in 1..Len(Declared) : Declared[i] = Declared[j] => i = j
  BY <1>3, VerificationAssumption DEF IsInjective
<1> QED
  BY <1>1, <1>2, <1>3, <1>6, <1>7, VerificationAssumption DEF ToSet

\* Steps about the manifest and about single leaves.
LEMMA OnlyStep ==
    ASSUME NEW P, NEW L, NEW op \in P
    PROVE  /\ Only(op) \in Seq(Steps(P, L)) /\ Len(Only(op)) = 1
           /\ Only(op)[1] = Step(op, "manifest") /\ ToSet(Only(op)) = {Step(op, "manifest")}
<1>1. Step(op, "manifest") \in Steps(P, L)
  BY DEF Step, Steps
<1> HIDE DEF Step, Steps
<1> QED
  BY <1>1, OneStep DEF Only

\* A step about one leaf.
LEMMA LeafStep ==
    ASSUME NEW P, NEW L, NEW op \in L, NEW f \in Leaves
    PROVE  /\ <<Step(op, f)>> \in Seq(Steps(P, L)) /\ Len(<<Step(op, f)>>) = 1
           /\ <<Step(op, f)>>[1] = Step(op, f) /\ ToSet(<<Step(op, f)>>) = {Step(op, f)}
<1>1. Step(op, f) \in Steps(P, L)
  BY DEF Step, Steps
<1> HIDE DEF Step, Steps
<1> QED
  BY <1>1, OneStep

\* The same step for every file of a list.
LEMMA LeafSteps ==
    ASSUME NEW P, NEW L, NEW op \in L, NEW s \in Seq(Leaves)
    PROVE  /\ Each(op, s) \in Seq(Steps(P, L)) /\ Len(Each(op, s)) = Len(s)
           /\ ToSet(Each(op, s)) = {Step(op, f) : f \in ToSet(s)}
<1>1. Len(s) \in Nat /\ DOMAIN s = 1..Len(s) /\ \A i \in 1..Len(s) : s[i] \in Leaves
  BY LenProperties, ElementOfSeq
<1> DEFINE S == Steps(P, L)
           e == Each(op, s)
<1>2. \A f \in Leaves : Step(op, f) \in S
  BY DEF Step, Steps
<1> HIDE DEF S
<1>3. e \in [1..Len(s) -> S] /\ DOMAIN e = 1..Len(s) /\ \A i \in 1..Len(s) : e[i] = Step(op, s[i])
  BY <1>1, <1>2 DEF Each
<1> HIDE DEF e
<1>4. e \in Seq(S) /\ Len(e) = Len(s)
  BY <1>1, <1>3
<1>5. ToSet(e) = {Step(op, f) : f \in ToSet(s)}
  BY <1>1, <1>3 DEF ToSet
<1> QED
  BY <1>4, <1>5 DEF S, e

\* assert_unchanged looks at every leaf.
LEMMA UnchangedSteps ==
    ASSUME NEW P, NEW L, "exact" \in P, "manifest" \in P, "same" \in L
    PROVE  /\ AssertUnchanged \in Seq(Steps(P, L)) /\ Len(AssertUnchanged) \in Nat \ {0}
           /\ \A f \in Leaves : Step("same", f) \in ToSet(AssertUnchanged)
<1> DEFINE S == Steps(P, L)
           a == Only("exact")
           b == Only("manifest")
           c == Each("same", Declared)
<1>m. a \in Seq(S) /\ b \in Seq(S) /\ c \in Seq(S)
  BY OnlyStep, LeafSteps, DeclaredLeaves
<1>1. Len(a) = 1 /\ ToSet(c) = {Step("same", f) : f \in Leaves} /\ AssertUnchanged = a \o b \o c
  BY OnlyStep, LeafSteps, DeclaredLeaves DEF AssertUnchanged, Leaves
<1> HIDE DEF S, a, b, c
<1>2. a \o b \o c \in Seq(S)
  BY <1>m, Joined3
<1>3. Len(a \o b \o c) = Len(a) + Len(b) + Len(c)
  BY <1>m, Joined3
<1>4. Len(b) \in Nat /\ Len(c) \in Nat
  BY <1>m, LenProperties
<1>5. ToSet(a \o b \o c) = ToSet(a) \cup ToSet(b) \cup ToSet(c)
  BY <1>m, Joined3
<1> QED
  BY <1>1, <1>2, <1>3, <1>4, <1>5 DEF S

\* A leaf is opened, read and closed.
LEMMA UseSteps ==
    ASSUME NEW P, NEW L, {"open", "read", "close"} \subseteq L, NEW f \in Leaves
    PROVE  Use(f) \in Seq(Steps(P, L)) /\ Len(Use(f)) = 3
<1>1. Step("open", f) \in Steps(P, L) /\ Step("read", f) \in Steps(P, L) /\ Step("close", f) \in Steps(P, L)
  BY DEF Step, Steps
<1> HIDE DEF Step, Steps
<1> QED
  BY <1>1 DEF Use

\* Entering and leaving a table's batches.
LEMMA TableSteps ==
    ASSUME NEW P, NEW L, {"exact", "manifest", "handles"} \subseteq P, {"same", "open"} \subseteq L,
           NEW op \in L, NEW t \in Leaves
    PROVE  /\ Enter(t) \in Seq(Steps(P, L)) /\ Len(Enter(t)) \in Nat \ {0}
           /\ Leave(op, t) \in Seq(Steps(P, L))
<1> DEFINE S == Steps(P, L)
           h == Only("handles")
           u == AssertUnchanged
           o == <<Step("open", t)>>
           c == <<Step(op, t)>>
<1>m. h \in Seq(S) /\ u \in Seq(S) /\ o \in Seq(S) /\ c \in Seq(S)
  BY OnlyStep, UnchangedSteps, LeafStep
<1>1. Len(h) = 1 /\ Enter(t) = h \o u \o o /\ Leave(op, t) = c \o h \o u
  BY OnlyStep, UnchangedSteps, LeafStep DEF Enter, Leave
<1> HIDE DEF S, h, u, o, c
<1>2. h \o u \o o \in Seq(S)
  BY <1>m, Joined3
<1>3. Len(h \o u \o o) = Len(h) + Len(u) + Len(o)
  BY <1>m, Joined3
<1>4. Len(u) \in Nat /\ Len(o) \in Nat
  BY <1>m, LenProperties
<1>5. c \o h \o u \in Seq(S)
  BY <1>m, Joined3
<1> QED
  BY <1>1, <1>2, <1>3, <1>4, <1>5 DEF S

\* The inventory takes the digest of every leaf.
LEMMA InventorySteps ==
    ASSUME NEW m
    PROVE  /\ Inventory(m) \in Seq(Steps({"hold", "exact", "manifest"}, {"digest"}))
           /\ Len(Inventory(m)) \in Nat \ {0}
           /\ \A f \in Leaves : Step("digest", f) \in ToSet(Inventory(m))
<1> DEFINE S == Steps({"hold", "exact", "manifest"}, {"digest"})
           a == Only("hold")
           b == IF m = "path" THEN Only("exact") ELSE <<>>
           c == Only("exact")
           d == Only("manifest")
           e == Each("digest", Declared)
           x == a \o b \o c
           y == x \o d \o e
<1>m. a \in Seq(S) /\ b \in Seq(S) /\ c \in Seq(S) /\ d \in Seq(S) /\ e \in Seq(S)
  <2>1. a \in Seq(S) /\ c \in Seq(S) /\ d \in Seq(S)
    BY OnlyStep
  <2>2. e \in Seq(S)
    BY LeafSteps, DeclaredLeaves
  <2>3. b \in Seq(S)
    <3> HIDE DEF S
    <3>1. <<>> \in Seq(S)
      BY EmptySeq
    <3> QED
      BY <3>1, <2>1
  <2> QED BY <2>1, <2>2, <2>3
<1>1. Len(a) = 1 /\ ToSet(e) = {Step("digest", f) : f \in Leaves}
  BY OnlyStep, LeafSteps, DeclaredLeaves DEF Leaves
<1>2. Inventory(m) = y \o c
  BY DEF Inventory
<1> HIDE DEF S, a, b, c, d, e
<1>x. x \in Seq(S)
  BY <1>m, Joined3
<1>3. Len(x) = Len(a) + Len(b) + Len(c)
  BY <1>m, Joined3
<1> HIDE DEF x
<1>y. y \in Seq(S)
  BY <1>m, <1>x, Joined3
<1>4. Len(y) = Len(x) + Len(d) + Len(e)
  BY <1>m, <1>x, Joined3
<1>5. ToSet(y) = ToSet(x) \cup ToSet(d) \cup ToSet(e)
  BY <1>m, <1>x, Joined3
<1> HIDE DEF y
<1>6. y \o c \in Seq(S)
  BY <1>m, <1>y, Joined
<1>7. Len(y \o c) = Len(y) + Len(c)
  BY <1>m, <1>y, Joined
<1>8. ToSet(y \o c) = ToSet(y) \cup ToSet(c)
  BY <1>m, <1>y, Joined
<1>9. Len(b) \in Nat /\ Len(c) \in Nat /\ Len(d) \in Nat /\ Len(e) \in Nat
  BY <1>m, LenProperties
<1> QED
  BY <1>1, <1>2, <1>3, <1>4, <1>5, <1>6, <1>7, <1>8, <1>9 DEF S

\* The parts that only check, read and compare.
Mid == Steps({"exact", "manifest", "handles", "facts"},
             {"same", "open", "read", "close", "abandon", "facts"})

\* The end of verify_tables.
LEMMA VerifyTablesSteps ==
    VerifyTables \in Seq(Mid) /\ Len(VerifyTables) \in Nat \ {0}
<1> DEFINE u == AssertUnchanged
           h == Only("handles")
           x == u \o h \o h
<1>m. u \in Seq(Mid) /\ h \in Seq(Mid)
  BY UnchangedSteps, OnlyStep DEF Mid
<1>1. u \in Seq(Mid) /\ Len(u) \in Nat \ {0}
  BY UnchangedSteps DEF Mid
<1>2. VerifyTables = x \o h
  BY DEF VerifyTables
<1> HIDE DEF u, h
<1>x. x \in Seq(Mid)
  BY <1>m, Joined3
<1>3. Len(x) = Len(u) + Len(h) + Len(h)
  BY <1>m, Joined3
<1> HIDE DEF x
<1>4. x \o h \in Seq(Mid)
  BY <1>m, <1>x, Joined
<1>5. Len(x \o h) = Len(x) + Len(h)
  BY <1>m, <1>x, Joined
<1>6. Len(h) \in Nat
  BY <1>m, LenProperties
<1> QED
  BY <1>1, <1>2, <1>3, <1>4, <1>5, <1>6

\* One pass over a table's batches.
LEMMA BatchesSteps ==
    ASSUME NEW t \in Leaves
    PROVE  Batches(t) \in Seq(Mid) /\ Len(Batches(t)) \in Nat \ {0}
<1> DEFINE a == Enter(t)
           b == <<Step("read", t)>>
           c == Leave("close", t)
<1>m. a \in Seq(Mid) /\ b \in Seq(Mid) /\ c \in Seq(Mid)
  BY TableSteps, LeafStep DEF Mid
<1>1. Len(a) \in Nat \ {0} /\ Batches(t) = a \o b \o c
  BY TableSteps DEF Mid, Batches
<1> HIDE DEF a, b, c
<1>2. a \o b \o c \in Seq(Mid)
  BY <1>m, Joined3
<1>3. Len(a \o b \o c) = Len(a) + Len(b) + Len(c)
  BY <1>m, Joined3
<1>4. Len(b) \in Nat /\ Len(c) \in Nat
  BY <1>m, LenProperties
<1> QED
  BY <1>1, <1>2, <1>3, <1>4

\* verify_quality_to_bronze, with its abandoned iterator.
LEMMA QualityJoinSteps ==
    QualityJoin \in Seq(Mid) /\ Len(QualityJoin) \in Nat \ {0}
<1> DEFINE t == Tables[1]
           q == Tables[Len(Tables)]
           a == Enter(t)
           b == Enter(q)
           c == <<Step("read", q), Step("read", t)>>
           d == Leave("close", q)
           e == Leave("abandon", t)
           x == a \o b \o c
<1>0. t \in Leaves /\ q \in Leaves
  <2>1. 1 \in 1..Len(Tables) /\ Len(Tables) \in 1..Len(Tables)
    BY TablesDistinct
  <2> QED
    BY <2>1, DeclaredLeaves, ElementOfSeq
<1>2. QualityJoin = x \o d \o e
  BY DEF QualityJoin
<1> HIDE DEF t, q
<1>m. a \in Seq(Mid) /\ b \in Seq(Mid) /\ c \in Seq(Mid) /\ d \in Seq(Mid) /\ e \in Seq(Mid)
  <2>1. a \in Seq(Mid) /\ b \in Seq(Mid)
    BY <1>0, TableSteps DEF Mid
  <2>2. d \in Seq(Mid)
    BY <1>0, TableSteps DEF Mid
  <2>3. e \in Seq(Mid)
    BY <1>0, TableSteps DEF Mid
  <2>4. Step("read", q) \in Mid /\ Step("read", t) \in Mid
    BY <1>0 DEF Mid, Steps, Step
  <2>5. c \in Seq(Mid)
    <3> HIDE DEF Mid, Step
    <3> QED BY <2>4
  <2> QED BY <2>1, <2>2, <2>3, <2>5
<1>1. Len(a) \in Nat \ {0}
  BY <1>0, TableSteps DEF Mid
<1> HIDE DEF a, b, c, d, e
<1>x. x \in Seq(Mid)
  BY <1>m, Joined3
<1>3. Len(x) = Len(a) + Len(b) + Len(c)
  BY <1>m, Joined3
<1> HIDE DEF x
<1>4. x \o d \o e \in Seq(Mid)
  BY <1>m, <1>x, Joined3
<1>5. Len(x \o d \o e) = Len(x) + Len(d) + Len(e)
  BY <1>m, <1>x, Joined3
<1>6. Len(b) \in Nat /\ Len(c) \in Nat /\ Len(d) \in Nat /\ Len(e) \in Nat
  BY <1>m, LenProperties
<1> QED
  BY <1>1, <1>2, <1>3, <1>4, <1>5, <1>6

\* verify_reports compares every report, and the kernel the manifest's own hash.
LEMMA VerifyReportsSteps ==
    /\ VerifyReports \in Seq(Mid) /\ Len(VerifyReports) \in Nat \ {0}
    /\ Step("facts", "manifest") \in ToSet(VerifyReports)
    /\ \A f \in ToSet(Reports) : Step("facts", f) \in ToSet(VerifyReports)
<1> DEFINE a == Each("facts", Reports)
           h == Only("handles")
           c == Only("facts")
           x == a \o h \o h
<1>m. a \in Seq(Mid) /\ h \in Seq(Mid) /\ c \in Seq(Mid)
  <2>1. h \in Seq(Mid) /\ c \in Seq(Mid)
    BY OnlyStep DEF Mid
  <2>2. a \in Seq(Mid)
    BY LeafSteps, DeclaredLeaves DEF Mid
  <2> QED BY <2>1, <2>2
<1>0. Len(h) = 1 /\ ToSet(c) = {Step("facts", "manifest")} /\ VerifyReports = x \o c \o h
  BY OnlyStep DEF Mid, VerifyReports
<1>1. ToSet(a) = {Step("facts", f) : f \in ToSet(Reports)}
  BY LeafSteps, DeclaredLeaves
<1> HIDE DEF a, h, c
<1>x. x \in Seq(Mid)
  BY <1>m, Joined3
<1>3. Len(x) = Len(a) + Len(h) + Len(h)
  BY <1>m, Joined3
<1>4. ToSet(x) = ToSet(a) \cup ToSet(h) \cup ToSet(h)
  BY <1>m, Joined3
<1> HIDE DEF x
<1>5. x \o c \o h \in Seq(Mid)
  BY <1>m, <1>x, Joined3
<1>6. Len(x \o c \o h) = Len(x) + Len(c) + Len(h)
  BY <1>m, <1>x, Joined3
<1>7. ToSet(x \o c \o h) = ToSet(x) \cup ToSet(c) \cup ToSet(h)
  BY <1>m, <1>x, Joined3
<1>8. Len(a) \in Nat /\ Len(c) \in Nat
  BY <1>m, LenProperties
<1> QED
  BY <1>0, <1>1, <1>3, <1>4, <1>5, <1>6, <1>7, <1>8

\* A table's verification compares its facts, and ends with its handle.
TableChecks == Steps({"exact", "manifest"}, {"open", "read", "close", "facts", "same"})

\* The facts of the table are compared, and its handle is issued at the end only.
LEMMA VerifyTableSteps ==
    ASSUME NEW t \in Leaves
    PROVE  /\ Len(VerifyTable(t)) \in Nat \ {0}
           /\ VerifyTable(t)[Len(VerifyTable(t))] = Step("issue", t)
           /\ \A j \in 1..(Len(VerifyTable(t)) - 1) : VerifyTable(t)[j] \in TableChecks
           /\ Step("facts", t) \in ToSet(VerifyTable(t))
           /\ DOMAIN VerifyTable(t) = 1..Len(VerifyTable(t))
<1> DEFINE T == Steps({"exact", "manifest"}, {"open", "read", "close", "facts", "same", "issue"})
           a == Use(t)
           b == <<Step("facts", t)>>
           c == AssertUnchanged
           d == <<Step("issue", t)>>
           x == a \o b \o c
           r == x \o d
<1>m. a \in Seq(TableChecks) /\ b \in Seq(TableChecks) /\ c \in Seq(TableChecks)
  <2>1. a \in Seq(TableChecks)
    BY UseSteps DEF TableChecks
  <2>2. b \in Seq(TableChecks)
    BY LeafStep DEF TableChecks
  <2>3. c \in Seq(TableChecks)
    BY UnchangedSteps DEF TableChecks
  <2> QED BY <2>1, <2>2, <2>3
<1>d. d \in Seq(T) /\ Len(d) = 1 /\ d[1] = Step("issue", t)
  BY LeafStep
<1>b. ToSet(b) = {Step("facts", t)}
  BY LeafStep
<1>t. TableChecks \subseteq T
  BY DEF TableChecks, Steps
<1>r. VerifyTable(t) = r
  BY DEF VerifyTable
<1> HIDE DEF T, a, b, c, d
<1>x. x \in Seq(TableChecks)
  BY <1>m, Joined3
<1>1. ToSet(x) = ToSet(a) \cup ToSet(b) \cup ToSet(c)
  BY <1>m, Joined3
<1> HIDE DEF x
<1>y. x \in Seq(T)
  BY <1>x, <1>t, SeqMonotonic
<1>e. d \in Seq(T)
  BY <1>d
<1>2. r \in Seq(T)
  BY <1>y, <1>e, Joined
<1>3. Len(r) = Len(x) + Len(d)
  BY <1>y, <1>e, Joined
<1>4. ToSet(r) = ToSet(x) \cup ToSet(d)
  BY <1>y, <1>e, Joined
<1>5. \A i \in 1..(Len(x) + Len(d)) : r[i] = IF i <= Len(x) THEN x[i] ELSE d[i - Len(x)]
  BY <1>y, <1>e, ConcatProperties
<1> HIDE DEF r
<1>6. Len(x) \in Nat /\ DOMAIN r = 1..Len(r)
  BY <1>y, <1>2, LenProperties
<1>7. \A i \in 1..Len(x) : x[i] \in TableChecks
  BY <1>x, ElementOfSeq
<1>8. r[Len(r)] = Step("issue", t)
  BY <1>3, <1>5, <1>6, <1>d
<1>9. \A j \in 1..(Len(r) - 1) : r[j] \in TableChecks
  BY <1>3, <1>5, <1>6, <1>7, <1>d
<1>10. Step("facts", t) \in ToSet(r)
  BY <1>1, <1>4, <1>b
<1> QED
  BY <1>r, <1>3, <1>6, <1>8, <1>9, <1>10, <1>d

\* The database is copied at the third step, its copy checked at the fifth.
LEMMA CopyBaseSteps ==
    /\ Len(CopyBase) = 5 /\ DOMAIN CopyBase = 1..5
    /\ CopyBase[1] = Step("handles", "manifest") /\ CopyBase[2] = Step("open", "database")
    /\ CopyBase[3] = Step("copy", "database") /\ CopyBase[4] = Step("close", "database")
    /\ CopyBase[5] = Step("copied", "manifest")
BY DEF CopyBase

\* A routine of two given steps and others keeps that shape when it grows.
Begun(r, S, T) == r \in Seq(T) /\ Len(r) >= 2 /\ \A j \in 3..Len(r) : r[j] \in S
Longer(c, r, t, S, T) == /\ Begun(c, S, T) /\ Len(c) = Len(r) + Len(t)
                         /\ c[1] = r[1] /\ c[2] = r[2] /\ ToSet(c) = ToSet(r) \cup ToSet(t)

\* More steps at the end change neither the first two nor the kind of the others.
LEMMA Grown ==
    ASSUME NEW S, NEW T, S \subseteq T, NEW r, Begun(r, S, T), NEW t \in Seq(S)
    PROVE  Longer(r \o t, r, t, S, T)
<1>0. r \in Seq(T) /\ Len(r) >= 2 /\ \A j \in 3..Len(r) : r[j] \in S
  BY DEF Begun
<1>r. r \in Seq(T)
  BY <1>0
<1>t. t \in Seq(T)
  BY SeqMonotonic
<1>1. Len(r) \in Nat /\ Len(t) \in Nat /\ \A i \in 1..Len(t) : t[i] \in S
  BY <1>r, LenProperties, ElementOfSeq
<1> DEFINE c == r \o t
<1>2. c \in Seq(T)
  BY <1>r, <1>t, Joined
<1>3. Len(c) = Len(r) + Len(t)
  BY <1>r, <1>t, Joined
<1>4. ToSet(c) = ToSet(r) \cup ToSet(t)
  BY <1>r, <1>t, Joined
<1>5. \A i \in 1..(Len(r) + Len(t)) : c[i] = IF i <= Len(r) THEN r[i] ELSE t[i - Len(r)]
  BY <1>r, <1>t, ConcatProperties
<1> HIDE DEF c
<1>6. c[1] = r[1] /\ c[2] = r[2]
  BY <1>0, <1>1, <1>5
<1>7. \A j \in 3..Len(c) : c[j] \in S
  <2> SUFFICES ASSUME NEW j \in 3..Len(c) PROVE c[j] \in S
    OBVIOUS
  <2>1. CASE j <= Len(r)
    BY <1>0, <1>1, <1>3, <1>5, <2>1
  <2>2. CASE ~(j <= Len(r))
    <3>1. c[j] = t[j - Len(r)] /\ j - Len(r) \in 1..Len(t)
      BY <1>1, <1>3, <1>5, <2>2
    <3> QED BY <1>1, <3>1
  <2> QED BY <2>1, <2>2
<1> QED
  BY <1>0, <1>1, <1>2, <1>3, <1>4, <1>6, <1>7 DEF c, Begun, Longer

\* The end compares the database first and accepts last.
LastChecks(x) == Steps({"exact", "manifest"} \cup {o \in {"expected"} : x}, {"same"})

\* Every leaf is looked at again between the comparison and the acceptance.
LEMMA ConcludeSteps ==
    ASSUME NEW x \in BOOLEAN
    PROVE  /\ Len(Conclude(x)) \in Nat /\ Len(Conclude(x)) > 2
           /\ Conclude(x)[1] = Step("compare", "database") /\ Conclude(x)[2] = Step("copied", "manifest")
           /\ Conclude(x)[Len(Conclude(x))] = Step("accept", "manifest")
           /\ \A j \in 3..(Len(Conclude(x)) - 1) : Conclude(x)[j] \in LastChecks(x)
           /\ \A f \in Leaves : Step("same", f) \in ToSet(Conclude(x))
           /\ x => Step("expected", "manifest") \in ToSet(Conclude(x))
           /\ DOMAIN Conclude(x) = 1..Len(Conclude(x))
<1> DEFINE T == Steps({"exact", "manifest", "expected", "copied", "accept"}, {"same", "compare"})
           S == LastChecks(x)
           b == <<Step("compare", "database"), Step("copied", "manifest")>>
           u == AssertUnchanged
           e == IF x THEN Only("expected") ELSE <<>>
           a == Only("accept")
           p == b \o u
           q == p \o e
           s == q \o u
           r == s \o a
<1>1. S \subseteq T
  BY DEF LastChecks, Steps
<1>b. b \in Seq(T) /\ Len(b) = 2 /\ b[1] = Step("compare", "database") /\ b[2] = Step("copied", "manifest")
  <2>1. Step("compare", "database") \in T /\ Step("copied", "manifest") \in T
    BY DeclaredLeaves DEF Steps, Step
  <2> HIDE DEF T, Step
  <2> QED BY <2>1
<1>u. u \in Seq(S) /\ Len(u) \in Nat \ {0} /\ \A f \in Leaves : Step("same", f) \in ToSet(u)
  BY UnchangedSteps, SMTT(30) DEF LastChecks
<1>e. e \in Seq(S)
  <2>1. x => Only("expected") \in Seq(S)
    BY OnlyStep DEF LastChecks
  <2>2. <<>> \in Seq(S)
    <3> HIDE DEF S
    <3> QED BY EmptySeq
  <2> QED BY <2>1, <2>2
<1>f. x => ToSet(e) = {Step("expected", "manifest")}
  BY OnlyStep
<1>a. a \in Seq(T) /\ Len(a) = 1 /\ a[1] = Step("accept", "manifest")
  BY OnlyStep
<1>r. Conclude(x) = r
  BY DEF Conclude, VerifyDatabase
<1> HIDE DEF T, S, b, u, e, a
<1>v. u \in Seq(S)
  BY <1>u
<1>c. Begun(b, S, T)
  BY <1>b DEF Begun
<1>p. Longer(p, b, u, S, T)
  BY <1>1, <1>c, <1>v, Grown
<1> HIDE DEF p
<1>p1. /\ Begun(p, S, T) /\ Len(p) = Len(b) + Len(u) /\ p[1] = b[1] /\ p[2] = b[2]
  BY <1>p DEF Longer
<1>p2. Begun(p, S, T)
  BY <1>p1
<1>q. Longer(q, p, e, S, T)
  BY <1>1, <1>p2, <1>e, Grown
<1> HIDE DEF q
<1>q1. /\ Begun(q, S, T) /\ Len(q) = Len(p) + Len(e) /\ q[1] = p[1] /\ q[2] = p[2]
       /\ ToSet(q) = ToSet(p) \cup ToSet(e)
  BY <1>q DEF Longer
<1>q2. Begun(q, S, T)
  BY <1>q1
<1>s. Longer(s, q, u, S, T)
  BY <1>1, <1>q2, <1>v, Grown
<1> HIDE DEF s
<1>s1. /\ Begun(s, S, T) /\ Len(s) = Len(q) + Len(u) /\ s[1] = q[1] /\ s[2] = q[2]
       /\ ToSet(s) = ToSet(q) \cup ToSet(u)
  BY <1>s DEF Longer
<1>s2. \A j \in 3..Len(s) : s[j] \in S
  BY <1>s1 DEF Begun
<1>l. Len(e) \in Nat
  BY <1>e, LenProperties
<1>m. s \in Seq(T) /\ a \in Seq(T)
  BY <1>s1, <1>a DEF Begun
<1>4. r \in Seq(T)
  BY <1>m, Joined
<1>5. Len(r) = Len(s) + Len(a)
  BY <1>m, Joined
<1>6. ToSet(r) = ToSet(s) \cup ToSet(a)
  BY <1>m, Joined
<1>7. \A i \in 1..(Len(s) + Len(a)) : r[i] = IF i <= Len(s) THEN s[i] ELSE a[i - Len(s)]
  BY <1>m, ConcatProperties
<1> HIDE DEF r
<1>8. Len(s) \in Nat /\ Len(s) > 2 /\ DOMAIN r = 1..Len(r)
  BY <1>b, <1>u, <1>p1, <1>q1, <1>s1, <1>l, <1>4, LenProperties
<1>9. r[1] = s[1] /\ r[2] = s[2] /\ Len(r) = Len(s) + 1 /\ r[Len(r)] = Step("accept", "manifest")
  BY <1>5, <1>7, <1>8, <1>a
<1>10. \A j \in 3..(Len(r) - 1) : r[j] \in S
  BY <1>s2, <1>7, <1>8, <1>9, <1>a
<1>11. (x => Step("expected", "manifest") \in ToSet(r)) /\ \A f \in Leaves : Step("same", f) \in ToSet(r)
  BY <1>q1, <1>s1, <1>6, <1>f, <1>u
<1>12. r[1] = Step("compare", "database") /\ r[2] = Step("copied", "manifest")
  BY <1>b, <1>p1, <1>q1, <1>s1, <1>9
<1> QED
  BY <1>r, <1>8, <1>9, <1>10, <1>11, <1>12 DEF S

\* Where in the program a step may stand: s is step j of the n steps of a routine
\* of part p, run for item i; x says whether a baseline is expected.
LeafOps == {"digest", "same", "open", "read", "close", "abandon", "issue", "copy", "compare"}
Fits(s, x, p, i, j, n) ==
    /\ s.file \in Files /\ (s.op \in LeafOps => s.file \in Leaves)
    /\ p = 1 => s.op \in {"hold", "exact", "manifest", "digest"}
    /\ s.op = "digest" => p = 1
    /\ s.op = "issue" <=> p = 2 /\ j = n
    /\ s.op = "issue" => s.file = Tables[i]
    /\ s.op = "handles" => p > 2
    /\ s.op = "copy" <=> p = 8 /\ j = 3
    /\ s.op = "copied" => (p = 8 /\ j = 5) \/ (p = 10 /\ j = 2)
    /\ s.op = "compare" => p = 10 /\ j = 1
    /\ p = 10 => s.op \in {"compare", "copied", "exact", "manifest", "expected", "same", "accept"}
    /\ p = 10 /\ j = 2 => s.op = "copied"
    /\ s.op = "accept" <=> p = 10 /\ j = n
    /\ s.op = "expected" => x
    /\ p = 8 => n = 5
    /\ p = 10 => n > 2

\* A step out of a set of steps.
LEMMA StepOf ==
    ASSUME NEW P, NEW L, NEW s \in Steps(P, L)
    PROVE  /\ s.op \in P \cup L /\ s.file \in Files /\ (s.op \notin P => s.file \in Leaves)
           /\ (s.op \notin L => s.file = "manifest")
BY DEF Steps, Files, Leaves

\* The parts of the program, one by one.
LEMMA Routines ==
    ASSUME NEW m, NEW x \in BOOLEAN, NEW p \in 1..10, NEW i \in 1..Items(p)
    PROVE  LET r == Program(m, x, p, i)
           IN /\ Len(r) \in Nat \ {0} /\ DOMAIN r = 1..Len(r)
              /\ \A j \in 1..Len(r) : Fits(r[j], x, p, i, j, Len(r))
<1> DEFINE r == Program(m, x, p, i)
<1>t. p \in {2, 5, 9} => i \in 1..Len(Tables) /\ Tables[i] \in Leaves
  <2>1. p \in {2, 5, 9} => i \in 1..Len(Tables)
    BY DEF Items
  <2> QED BY <2>1, DeclaredLeaves, ElementOfSeq
<1>u. p = 4 => i \in 1..Len(Reports) /\ Reports[i] \in Leaves
  <2>1. p = 4 => i \in 1..Len(Reports)
    BY DEF Items
  <2> QED BY <2>1, DeclaredLeaves, ElementOfSeq
<1>1. CASE p = 1
  <2> DEFINE P == {"hold", "exact", "manifest"}
             L == {"digest"}
  <2>1. r = Inventory(m) /\ r \in Seq(Steps(P, L)) /\ Len(r) \in Nat \ {0}
    BY <1>1, InventorySteps DEF Program
  <2> HIDE DEF r
  <2>2. DOMAIN r = 1..Len(r) /\ \A j \in 1..Len(r) : r[j] \in Steps(P, L)
    BY <2>1, LenProperties, ElementOfSeq
  <2>3. \A j \in 1..Len(r) : r[j].op \in P \cup L /\ r[j].file \in Files /\ (r[j].op \notin P => r[j].file \in Leaves)
    <3> HIDE DEF P, L
    <3> QED BY <2>2, StepOf
  <2>4. \A j \in 1..Len(r) : Fits(r[j], x, p, i, j, Len(r))
    BY <1>1, <2>3 DEF Fits, LeafOps
  <2> QED BY <2>1, <2>2, <2>4 DEF r
<1>2. CASE p = 2
  <2>1. /\ r = VerifyTable(Tables[i]) /\ Len(r) \in Nat \ {0} /\ DOMAIN r = 1..Len(r)
        /\ r[Len(r)] = Step("issue", Tables[i])
        /\ \A j \in 1..(Len(r) - 1) : r[j] \in TableChecks
    BY <1>2, <1>t, VerifyTableSteps DEF Program
  <2> HIDE DEF r
  <2> DEFINE P == {"exact", "manifest"}
             L == {"open", "read", "close", "facts", "same"}
  <2>2. \A j \in 1..(Len(r) - 1) :
           r[j].op \in P \cup L /\ r[j].file \in Files /\ (r[j].op \notin P => r[j].file \in Leaves)
    <3> HIDE DEF P, L
    <3>1. \A j \in 1..(Len(r) - 1) : r[j] \in Steps(P, L)
      BY <2>1 DEF TableChecks, P, L
    <3> QED BY <3>1, StepOf
  <2>3. ASSUME NEW j \in 1..Len(r), j # Len(r) PROVE Fits(r[j], x, p, i, j, Len(r))
    <3>1. j \in 1..(Len(r) - 1)
      BY <2>1, <2>3
    <3> QED
      BY <1>2, <2>1, <2>2, <2>3, <3>1 DEF Fits, LeafOps
  <2>4. Fits(r[Len(r)], x, p, i, Len(r), Len(r))
    <3>1. r[Len(r)].op = "issue" /\ r[Len(r)].file = Tables[i] /\ Tables[i] \in Files /\ Tables[i] \in Leaves
      BY <1>2, <1>t, <2>1 DEF Step, Files, Leaves
    <3> QED
      BY <1>2, <3>1 DEF Fits
  <2> QED BY <2>1, <2>3, <2>4 DEF r
<1>3. CASE p \in {3, 4, 5, 6, 7, 9}
  <2>1. r \in Seq(Mid) /\ Len(r) \in Nat \ {0}
    <3>1. CASE p = 3 BY <3>1, VerifyTablesSteps DEF Program
    <3>2. CASE p = 4
      <4>1. r = Use(Reports[i]) /\ Reports[i] \in Leaves
        BY <3>2, <1>u DEF Program
      <4> HIDE DEF r
      <4> QED BY <4>1, UseSteps, SMTT(30) DEF Mid
    <3>3. CASE p = 5 BY <3>3, <1>t, BatchesSteps DEF Program
    <3>6. CASE p = 9 BY <3>6, <1>t, BatchesSteps DEF Program
    <3>4. CASE p = 6 BY <3>4, QualityJoinSteps DEF Program
    <3>5. CASE p = 7 BY <3>5, VerifyReportsSteps DEF Program
    <3> QED BY <1>3, <3>1, <3>2, <3>3, <3>4, <3>5, <3>6
  <2> DEFINE P == {"exact", "manifest", "handles", "facts"}
             L == {"same", "open", "read", "close", "abandon", "facts"}
  <2> HIDE DEF r
  <2>2. DOMAIN r = 1..Len(r) /\ \A j \in 1..Len(r) : r[j] \in Mid
    BY <2>1, LenProperties, ElementOfSeq
  <2>3. \A j \in 1..Len(r) : r[j].op \in P \cup L /\ r[j].file \in Files /\ (r[j].op \notin P => r[j].file \in Leaves)
    <3> HIDE DEF P, L
    <3>1. \A j \in 1..Len(r) : r[j] \in Steps(P, L)
      BY <2>2 DEF Mid, P, L
    <3> QED BY <3>1, StepOf
  <2>4. \A j \in 1..Len(r) : Fits(r[j], x, p, i, j, Len(r))
    BY <1>3, <2>3 DEF Fits, LeafOps
  <2> QED BY <2>1, <2>2, <2>4 DEF r
<1>4. CASE p = 8
  <2>1. /\ Len(r) = 5 /\ DOMAIN r = 1..5 /\ r[1] = Step("handles", "manifest")
        /\ r[2] = Step("open", "database") /\ r[3] = Step("copy", "database")
        /\ r[4] = Step("close", "database") /\ r[5] = Step("copied", "manifest")
    BY <1>4, CopyBaseSteps DEF Program
  <2> HIDE DEF r
  <2>2. "database" \in Leaves /\ "database" \in Files /\ "manifest" \in Files
    BY DeclaredLeaves DEF Files, Leaves
  <2>3. \A j \in 1..5 : Fits(r[j], x, 8, i, j, 5)
    <3>1. Fits(r[1], x, 8, i, 1, 5) BY <2>1, <2>2 DEF Fits, Step, LeafOps
    <3>2. Fits(r[2], x, 8, i, 2, 5) BY <2>1, <2>2 DEF Fits, Step, LeafOps
    <3>3. Fits(r[3], x, 8, i, 3, 5) BY <2>1, <2>2 DEF Fits, Step, LeafOps
    <3>4. Fits(r[4], x, 8, i, 4, 5) BY <2>1, <2>2 DEF Fits, Step, LeafOps
    <3>5. Fits(r[5], x, 8, i, 5, 5) BY <2>1, <2>2 DEF Fits, Step, LeafOps
    <3>6. \A j \in 1..5 : j = 1 \/ j = 2 \/ j = 3 \/ j = 4 \/ j = 5
      OBVIOUS
    <3> QED BY <3>1, <3>2, <3>3, <3>4, <3>5, <3>6
  <2>4. Len(r) \in Nat \ {0} /\ DOMAIN r = 1..Len(r) /\ \A j \in 1..Len(r) : Fits(r[j], x, p, i, j, Len(r))
    BY <1>4, <2>1, <2>3
  <2> QED BY <2>4 DEF r
<1>5. CASE p = 10
  <2>1. /\ Len(r) \in Nat /\ Len(r) > 2 /\ DOMAIN r = 1..Len(r)
        /\ r[1] = Step("compare", "database") /\ r[2] = Step("copied", "manifest")
        /\ r[Len(r)] = Step("accept", "manifest")
        /\ \A j \in 3..(Len(r) - 1) : r[j] \in LastChecks(x)
    BY <1>5, ConcludeSteps DEF Program
  <2> HIDE DEF r
  <2>2. "database" \in Leaves /\ "database" \in Files /\ "manifest" \in Files
    BY DeclaredLeaves DEF Files, Leaves
  <2> DEFINE P == {"exact", "manifest"} \cup {o \in {"expected"} : x}
             L == {"same"}
  <2>3. \A j \in 3..(Len(r) - 1) :
           r[j].op \in P \cup L /\ r[j].file \in Files /\ (r[j].op \notin P => r[j].file \in Leaves)
    <3> HIDE DEF P, L
    <3>1. \A j \in 3..(Len(r) - 1) : r[j] \in Steps(P, L)
      BY <2>1 DEF LastChecks, P, L
    <3> QED BY <3>1, StepOf
  <2>4. Fits(r[1], x, 10, i, 1, Len(r)) /\ Fits(r[2], x, 10, i, 2, Len(r)) /\ Fits(r[Len(r)], x, 10, i, Len(r), Len(r))
    <3>1. Fits(r[1], x, 10, i, 1, Len(r)) BY <2>1, <2>2 DEF Fits, Step, LeafOps
    <3>2. Fits(r[2], x, 10, i, 2, Len(r)) BY <2>1, <2>2 DEF Fits, Step, LeafOps
    <3>3. Fits(r[Len(r)], x, 10, i, Len(r), Len(r)) BY <2>1, <2>2 DEF Fits, Step, LeafOps
    <3> QED BY <3>1, <3>2, <3>3
  <2>5. ASSUME NEW j \in 3..(Len(r) - 1) PROVE Fits(r[j], x, 10, i, j, Len(r))
    BY <2>1, <2>3, <2>5 DEF Fits, LeafOps
  <2>6. ASSUME NEW j \in 1..Len(r) PROVE j = 1 \/ j = 2 \/ j = Len(r) \/ j \in 3..(Len(r) - 1)
    <3>1. Len(r) \in Nat
      BY <2>1
    <3> QED BY <3>1
  <2>7. \A j \in 1..Len(r) : Fits(r[j], x, 10, i, j, Len(r))
    BY <2>4, <2>5, <2>6
  <2>8. Len(r) \in Nat \ {0} /\ DOMAIN r = 1..Len(r) /\ \A j \in 1..Len(r) : Fits(r[j], x, p, i, j, Len(r))
    BY <1>5, <2>1, <2>7
  <2> QED BY <2>8 DEF r
<1> QED
  BY <1>1, <1>2, <1>3, <1>4, <1>5

\* Routines are nonempty sequences.
LEMMA RoutineLines ==
    ASSUME NEW m, NEW x \in BOOLEAN, NEW p \in 1..10, NEW i \in 1..Items(p)
    PROVE  /\ Len(Program(m, x, p, i)) \in Nat \ {0}
           /\ DOMAIN Program(m, x, p, i) = 1..Len(Program(m, x, p, i))
<1> DEFINE r == Program(m, x, p, i)
<1>1. /\ Len(r) \in Nat \ {0} /\ DOMAIN r = 1..Len(r)
      /\ \A j \in 1..Len(r) : Fits(r[j], x, p, i, j, Len(r))
  BY Routines, Zenon
<1> HIDE DEF r
<1>2. Len(r) \in Nat \ {0} /\ DOMAIN r = 1..Len(r)
  BY <1>1
<1> QED BY <1>2 DEF r

\* Every file is compared with the others somewhere after the inventory, and the
\* baseline is compared when it is expected.
LEMMA Judged ==
    ASSUME NEW m, NEW x \in BOOLEAN
    PROVE  /\ \A f \in Files : \E p \in 2..10 : \E i \in 1..Items(p) : Judge(f) \in ToSet(Program(m, x, p, i))
           /\ x => \E p \in 2..10 : \E i \in 1..Items(p) :
                      Step("expected", "manifest") \in ToSet(Program(m, x, p, i))
<1>1. ASSUME NEW f \in ToSet(Tables)
      PROVE  \E p \in 2..10 : \E i \in 1..Items(p) : Judge(f) \in ToSet(Program(m, x, p, i))
  <2>1. PICK i \in 1..Len(Tables) : f = Tables[i]
    BY TablesDistinct
  <2>2. f \in Leaves /\ i \in 1..Items(2) /\ Program(m, x, 2, i) = VerifyTable(f)
    BY <2>1, DeclaredLeaves DEF Items, Program
  <2>3. f # "database"
    <3>1. /\ Len(Tables \o Reports) = Len(Tables) + Len(Reports) /\ Tables \o Reports \in Seq(Leaves)
          /\ \A j \in 1..(Len(Tables) + Len(Reports)) : (Tables \o Reports)[j] =
                IF j <= Len(Tables) THEN Tables[j] ELSE Reports[j - Len(Tables)]
      BY DeclaredLeaves, ConcatProperties
    <3> DEFINE c == Tables \o Reports
               d == <<"database">>
    <3>m. c \in Seq(Leaves) /\ d \in Seq(Leaves)
      BY <3>1, DeclaredLeaves
    <3>2. Len(d) = 1 /\ d[1] = "database" /\ Declared = c \o d
      BY DEF Declared
    <3> HIDE DEF c, d
    <3>3. Len(c \o d) = Len(c) + Len(d)
      BY <3>m, ConcatProperties
    <3>4. \A j \in 1..(Len(c) + Len(d)) : (c \o d)[j] = IF j <= Len(c) THEN c[j] ELSE d[j - Len(c)]
      BY <3>m, ConcatProperties
    <3>5. Len(c) \in Nat /\ DOMAIN Declared = 1..Len(Declared)
      BY <3>m, LenProperties, DeclaredLeaves
    <3>6. Declared[Len(Declared)] = "database" /\ Len(Declared) \in DOMAIN Declared
      BY <3>2, <3>3, <3>4, <3>5
    <3>7. Declared[i] = f /\ i \in DOMAIN Declared /\ i # Len(Declared)
      BY <2>1, <3>1, <3>2, <3>3, <3>4, <3>5, TablesDistinct DEF c
    <3> QED
      BY <3>6, <3>7, VerificationAssumption DEF IsInjective
  <2>4. Judge(f) \in ToSet(Program(m, x, 2, i))
    BY <2>2, <2>3, VerifyTableSteps DEF Judge
  <2> QED BY <2>2, <2>4
<1>2. ASSUME NEW f \in ToSet(Reports) \cup {"manifest"}, f # "database"
      PROVE  \E p \in 2..10 : \E i \in 1..Items(p) : Judge(f) \in ToSet(Program(m, x, p, i))
  <2>1. Judge(f) \in ToSet(VerifyReports)
    BY <1>2, VerifyReportsSteps DEF Judge
  <2>2. 1 \in 1..Items(7) /\ Program(m, x, 7, 1) = VerifyReports /\ 7 \in 2..10
    BY DEF Items, Program
  <2> QED BY <2>1, <2>2
<1>3. /\ \E p \in 2..10 : \E i \in 1..Items(p) : Judge("database") \in ToSet(Program(m, x, p, i))
      /\ x => \E p \in 2..10 : \E i \in 1..Items(p) :
                 Step("expected", "manifest") \in ToSet(Program(m, x, p, i))
  <2>1. 1 \in 1..Items(10) /\ Program(m, x, 10, 1) = Conclude(x) /\ 10 \in 2..10
    BY DEF Items, Program
  <2>2. Judge("database") \in ToSet(Conclude(x))
    <3>1. 1 \in DOMAIN Conclude(x) /\ Conclude(x)[1] = Judge("database")
      BY ConcludeSteps DEF Judge
    <3> QED BY <3>1 DEF ToSet
  <2>3. x => Step("expected", "manifest") \in ToSet(Conclude(x))
    BY ConcludeSteps
  <2> QED BY <2>1, <2>2, <2>3
<1>4. Files = ToSet(Tables) \cup ToSet(Reports) \cup {"database"} \cup {"manifest"}
  BY DeclaredLeaves DEF Files, Leaves
<1> QED
  BY <1>1, <1>2, <1>3, <1>4

(***************************************************************************)
(* Advancing in the program.                                               *)
(***************************************************************************)

\* The step s is at or after line l of part p, run for item i.
Ahead(m, x, p, i, l, s) ==
    \/ \E j \in l..Len(Program(m, x, p, i)) : Program(m, x, p, i)[j] = s
    \/ \E k \in (i + 1)..Items(p) : s \in ToSet(Program(m, x, p, k))
    \/ \E q \in (p + 1)..10 : \E k \in 1..Items(q) : s \in ToSet(Program(m, x, q, k))

\* Every part runs at least once.
LEMMA ItemsPositive ==
    \A p \in 1..10 : Items(p) \in Nat /\ Items(p) >= 1
BY TablesDistinct DEF Items

\* A step still to come stays to come until it is reached.
LEMMA Later ==
    ASSUME NEW m, NEW x \in BOOLEAN, NEW p \in 1..10, NEW i \in 1..Items(p),
           NEW l \in 1..Len(Program(m, x, p, i)), NEW s, Ahead(m, x, p, i, l, s),
           s # Program(m, x, p, i)[l]
    PROVE  /\ l < Len(Program(m, x, p, i)) => Ahead(m, x, p, i, l + 1, s)
           /\ l = Len(Program(m, x, p, i)) /\ i < Items(p) => Ahead(m, x, p, i + 1, 1, s)
           /\ l = Len(Program(m, x, p, i)) /\ i = Items(p) => p < 10 /\ Ahead(m, x, p + 1, 1, 1, s)
<1> DEFINE R(q, k) == Program(m, x, q, k)
<1>r. \A q \in 1..10 : \A k \in 1..Items(q) : Len(R(q, k)) \in Nat \ {0} /\ DOMAIN R(q, k) = 1..Len(R(q, k))
  BY RoutineLines
<1>s. \A q \in 1..10 : \A k \in 1..Items(q) : s \in ToSet(R(q, k)) => \E j \in 1..Len(R(q, k)) : R(q, k)[j] = s
  <2> SUFFICES ASSUME NEW q \in 1..10, NEW k \in 1..Items(q), s \in ToSet(R(q, k))
               PROVE  \E j \in 1..Len(R(q, k)) : R(q, k)[j] = s
    OBVIOUS
  <2>1. DOMAIN R(q, k) = 1..Len(R(q, k))
    BY <1>r
  <2> HIDE DEF R
  <2> QED BY <2>1 DEF ToSet
<1>a. \/ \E j \in l..Len(R(p, i)) : R(p, i)[j] = s
      \/ \E k \in (i + 1)..Items(p) : s \in ToSet(R(p, k))
      \/ \E q \in (p + 1)..10 : \E k \in 1..Items(q) : s \in ToSet(R(q, k))
  BY DEF Ahead
<1>l. l \in 1..Len(R(p, i)) /\ s # R(p, i)[l] /\ Len(R(p, i)) \in Nat
  BY <1>r
<1>i. Items(p) \in Nat /\ Items(p) >= 1
  BY ItemsPositive
<1>g. \A q, k, n : Ahead(m, x, q, k, n, s) <=>
        \/ \E j \in n..Len(R(q, k)) : R(q, k)[j] = s
        \/ \E c \in (k + 1)..Items(q) : s \in ToSet(R(q, c))
        \/ \E c \in (q + 1)..10 : \E d \in 1..Items(c) : s \in ToSet(R(c, d))
  BY DEF Ahead
<1> HIDE DEF R
<1>1. ASSUME l < Len(R(p, i)) PROVE Ahead(m, x, p, i, l + 1, s)
  <2>1. CASE \E j \in l..Len(R(p, i)) : R(p, i)[j] = s
    <3>1. PICK j \in l..Len(R(p, i)) : R(p, i)[j] = s
      BY <2>1
    <3>2. j \in (l + 1)..Len(R(p, i))
      BY <3>1, <1>l
    <3> QED BY <3>1, <3>2, <1>g
  <2>2. CASE \E k \in (i + 1)..Items(p) : s \in ToSet(R(p, k))
    BY <2>2, <1>g
  <2>3. CASE \E q \in (p + 1)..10 : \E k \in 1..Items(q) : s \in ToSet(R(q, k))
    BY <2>3, <1>g
  <2> QED BY <1>a, <2>1, <2>2, <2>3
<1>2. ASSUME l = Len(R(p, i)) PROVE ~ \E j \in l..Len(R(p, i)) : R(p, i)[j] = s
  BY <1>2, <1>l
<1>3. ASSUME l = Len(R(p, i)), i < Items(p) PROVE Ahead(m, x, p, i + 1, 1, s)
  <2>1. CASE \E k \in (i + 1)..Items(p) : s \in ToSet(R(p, k))
    <3>1. PICK k \in (i + 1)..Items(p) : s \in ToSet(R(p, k))
      BY <2>1
    <3>2. CASE k = i + 1
      <4>1. i + 1 \in 1..Items(p)
        BY <1>3, <1>i
      <4>2. \E j \in 1..Len(R(p, i + 1)) : R(p, i + 1)[j] = s
        BY <3>1, <3>2, <4>1, <1>s
      <4> QED BY <4>2, <1>g
    <3>3. CASE k # i + 1
      <4>1. k \in (i + 1 + 1)..Items(p)
        BY <3>3, <1>i
      <4> QED BY <3>1, <4>1, <1>g
    <3> QED BY <3>2, <3>3
  <2>2. CASE \E q \in (p + 1)..10 : \E k \in 1..Items(q) : s \in ToSet(R(q, k))
    BY <2>2, <1>g
  <2> QED BY <1>a, <1>2, <1>3, <2>1, <2>2
<1>4. ASSUME l = Len(R(p, i)), i = Items(p) PROVE p < 10 /\ Ahead(m, x, p + 1, 1, 1, s)
  <2>1. ~ \E k \in (i + 1)..Items(p) : s \in ToSet(R(p, k))
    BY <1>4, <1>i
  <2>2. PICK q \in (p + 1)..10 : \E k \in 1..Items(q) : s \in ToSet(R(q, k))
    BY <1>a, <1>2, <1>4, <2>1
  <2>3. PICK k \in 1..Items(q) : s \in ToSet(R(q, k))
    BY <2>2
  <2>4. p < 10 /\ p + 1 \in 1..10
    BY <2>2
  <2>5. CASE q = p + 1
    <3>1. \E j \in 1..Len(R(p + 1, k)) : R(p + 1, k)[j] = s
      BY <2>3, <2>4, <2>5, <1>s
    <3>2. CASE k = 1
      BY <3>1, <3>2, <2>4, <1>g
    <3>3. CASE k # 1
      <4>1. k \in (1 + 1)..Items(p + 1)
        BY <2>5, <3>3, <2>4, ItemsPositive
      <4> QED BY <4>1, <2>3, <2>4, <2>5, <1>g
    <3> QED BY <3>2, <3>3
  <2>6. CASE q # p + 1
    <3>1. q \in (p + 1 + 1)..10
      BY <2>6
    <3> QED BY <3>1, <2>3, <2>4, <1>g
  <2> QED BY <2>5, <2>6
<1> QED
  BY <1>1, <1>3, <1>4 DEF R

\* The step the kernel is at fits its place.
LEMMA Here ==
    ASSUME KernelTypes, PlaceInv
    PROVE  /\ Len(Routine) \in Nat \ {0} /\ Items(part) \in Nat /\ Items(part) >= 1
           /\ Fits(Now, expecting, part, item, line, Len(Routine))
<1>1. /\ expecting \in BOOLEAN /\ part \in 1..10 /\ item \in 1..Items(part)
      /\ line \in 1..Len(Program(mode, expecting, part, item))
  BY DEF KernelTypes, PlaceInv, Routine
<1>2. LET r == Program(mode, expecting, part, item)
      IN /\ Len(r) \in Nat \ {0}
         /\ \A j \in 1..Len(r) : Fits(r[j], expecting, part, item, j, Len(r))
  BY <1>1, Routines
<1> QED
  BY <1>1, <1>2, ItemsPositive DEF Routine, Now

\* One step on: the next line, the next item or the next part.
Moves ==
    \/ part' = part /\ item' = item /\ line' = line + 1 /\ line < Len(Routine)
    \/ part' = part /\ item' = item + 1 /\ item < Items(part) /\ line' = 1 /\ line = Len(Routine)
    \/ part' = part + 1 /\ part < 10 /\ item' = 1 /\ item = Items(part) /\ line' = 1 /\ line = Len(Routine)

\* Going on leads to a place in the program; only acceptance leaves it.
LEMMA Advance ==
    ASSUME KernelTypes, PlaceInv, Proceed, UNCHANGED <<mode, expecting>>, Now.op # "accept"
    PROVE  /\ Moves /\ part' \in 1..10 /\ item' \in 1..Items(part') /\ line' \in 1..Len(Routine')
           /\ Len(Routine') \in Nat
<1>h. /\ Len(Routine) \in Nat \ {0} /\ Items(part) \in Nat /\ Items(part) >= 1
      /\ (Now.op = "accept" <=> part = 10 /\ line = Len(Routine)) /\ part \in 1..10
      /\ item \in 1..Items(part) /\ line \in 1..Len(Routine)
  BY Here DEF Fits, PlaceInv
<1>t. part = 10 => Items(part) = 1
  BY DEF Items
<1>1. Moves
  <2>1. CASE line < Len(Routine)
    BY <2>1 DEF Proceed, Moves
  <2>2. CASE ~(line < Len(Routine))
    <3>1. line = Len(Routine) /\ line' = 1 /\ NextItem /\ part # 10
      BY <1>h, <2>2 DEF Proceed
    <3>2. CASE item < Items(part)
      BY <3>1, <3>2 DEF NextItem, Moves
    <3>3. CASE ~(item < Items(part))
      <4>1. item = Items(part) /\ part < 10 /\ item' = 1 /\ part' = part + 1
        BY <1>h, <3>1, <3>3 DEF NextItem
      <4> QED BY <3>1, <4>1 DEF Moves
    <3> QED BY <3>2, <3>3
  <2> QED BY <2>1, <2>2
<1>2. part' \in 1..10 /\ item' \in 1..Items(part')
  <2>1. CASE part' = part /\ item' \in {item, item + 1} /\ (item' = item \/ item < Items(part))
    BY <1>h, <2>1
  <2>2. CASE part' = part + 1 /\ part < 10 /\ item' = 1
    <3>1. part' \in 1..10
      BY <1>h, <2>2
    <3>2. Items(part') \in Nat /\ Items(part') >= 1
      BY <3>1, ItemsPositive
    <3> QED BY <2>2, <3>1, <3>2
  <2> QED
    BY <1>1, <2>1, <2>2 DEF Moves
<1>3. mode' = mode /\ expecting' = expecting /\ expecting \in BOOLEAN
  BY DEF KernelTypes
<1>4. Len(Program(mode, expecting, part', item')) \in Nat \ {0}
  BY <1>2, <1>3, RoutineLines
<1>5. Routine' = Program(mode, expecting, part', item')
  BY <1>3 DEF Routine
<1>6. part' = part /\ item' = item => Routine' = Routine
  BY <1>5 DEF Routine
<1>7. line' \in 1..Len(Routine')
  BY <1>h, <1>1, <1>4, <1>5, <1>6 DEF Moves
<1> QED
  BY <1>1, <1>2, <1>4, <1>5, <1>7

\* What is to come after the current step is to come after it is taken.
LEMMA StaysPending ==
    ASSUME KernelTypes, PlaceInv, Proceed, UNCHANGED <<mode, expecting>>, Now.op # "accept",
           NEW s, Pending(s), s # Now
    PROVE  Pending(s)'
<1>1. Moves
  BY Advance
<1>2. /\ expecting \in BOOLEAN /\ part \in 1..10 /\ item \in 1..Items(part)
      /\ line \in 1..Len(Program(mode, expecting, part, item))
  BY DEF KernelTypes, PlaceInv, Routine
<1>3. Ahead(mode, expecting, part, item, line, s) /\ s # Program(mode, expecting, part, item)[line]
  BY DEF Pending, Ahead, Routine, Now
<1>4. /\ line < Len(Routine) => Ahead(mode, expecting, part, item, line + 1, s)
      /\ line = Len(Routine) /\ item < Items(part) => Ahead(mode, expecting, part, item + 1, 1, s)
      /\ line = Len(Routine) /\ item = Items(part) => Ahead(mode, expecting, part + 1, 1, 1, s)
  BY <1>2, <1>3, Later DEF Routine
<1>5. Ahead(mode', expecting', part', item', line', s)
  BY <1>1, <1>4 DEF Moves
<1> QED
  BY <1>5 DEF Pending, Ahead, Routine

\* The same within the routine.
Remains(s) == \E j \in line..Len(Routine) : Routine[j] = s

\* A step to come in this routine comes unless it is the current one.
LEMMA StaysInRoutine ==
    ASSUME KernelTypes, PlaceInv, Proceed, UNCHANGED <<mode, expecting>>, Now.op # "accept",
           NEW s, Remains(s), s # Now
    PROVE  line < Len(Routine) /\ Remains(s)'
<1>1. Moves
  BY Advance
<1>2. Len(Routine) \in Nat /\ line \in 1..Len(Routine)
  BY Here DEF PlaceInv
<1>3. PICK j \in line..Len(Routine) : Routine[j] = s
  BY DEF Remains
<1>4. j # line
  BY <1>3 DEF Now
<1>5. line < Len(Routine) /\ j \in (line + 1)..Len(Routine)
  BY <1>2, <1>4
<1>6. line' = line + 1 /\ Routine' = Routine
  BY <1>1, <1>2, <1>5 DEF Moves, Routine
<1> QED
  BY <1>3, <1>5, <1>6 DEF Remains

(***************************************************************************)
(* The parts of KernelInv when the kernel goes on.                         *)
(***************************************************************************)

\* Handles have been issued for the tables before the current one.
Issued(p, i) == {Tables[k] : k \in {j \in 1..Len(Tables) : p > 2 \/ (p = 2 /\ j < i)}}

\* Inventory first, then handles, then the copy: the place says what has run.
LEMMA PlaceKept ==
    ASSUME KernelTypes, PlaceInv, Proceed, UNCHANGED <<mode, expecting>>, Now.op # "accept",
           \A f \in Leaves : entry'[f] = 2 => entry[f] = 2 /\ ~(Now.op = "digest" /\ File = f),
           handles' = IF Now.op = "issue" THEN handles \cup {File} ELSE handles,
           copy' = "none" => copy = "none" /\ Now.op # "copy",
           part = 1 => used' = used /\ fresh' \subseteq fresh
    PROVE  PlaceInv'
<1>a. Moves /\ part' \in 1..10 /\ item' \in 1..Items(part') /\ line' \in 1..Len(Routine')
  BY Advance
<1>h. /\ Len(Routine) \in Nat \ {0} /\ Fits(Now, expecting, part, item, line, Len(Routine)) /\ part \in 1..10
      /\ item \in 1..Items(part) /\ line \in 1..Len(Routine)
  BY Here DEF PlaceInv
<1>1. part' = 1 => used' = {} /\ fresh' = {}
  BY <1>a, <1>h DEF Moves, PlaceInv
<1>2. ASSUME NEW f \in Leaves, entry'[f] = 2 PROVE part' = 1 /\ Remains(Step("digest", f))'
  <2>1. entry[f] = 2 /\ ~(Now.op = "digest" /\ File = f)
    BY <1>2
  <2>2. part = 1 /\ Remains(Step("digest", f))
    BY <2>1 DEF PlaceInv, Remains
  <2>3. Step("digest", f) # Now
    BY <2>1 DEF Step, File
  <2>4. line < Len(Routine) /\ Remains(Step("digest", f))'
    BY <2>2, <2>3, StaysInRoutine
  <2> QED
    BY <2>2, <2>4, <1>a, <1>h DEF Moves
<1>3. handles' = Issued(part', item')
  <2>1. handles = Issued(part, item)
    BY DEF PlaceInv, Issued
  <2>2. CASE Now.op = "issue"
    <3>1. part = 2 /\ line = Len(Routine) /\ File = Tables[item] /\ handles' = handles \cup {Tables[item]}
      BY <1>h, <2>2 DEF Fits, File
    <3>2. Items(2) = Len(Tables) /\ Len(Tables) \in Nat
      BY TablesDistinct DEF Items
    <3>3. item \in 1..Len(Tables)
      BY <1>h, <3>1, <3>2
    <3>4. CASE item' = item + 1 /\ part' = 2
      <4>1. Issued(2, item + 1) = Issued(2, item) \cup {Tables[item]}
        BY <3>2, <3>3 DEF Issued
      <4> QED BY <2>1, <3>1, <3>4, <4>1
    <3>5. CASE item' = 1 /\ part' = 3 /\ item = Len(Tables)
      <4>1. Issued(3, 1) = Issued(2, item) \cup {Tables[item]}
        BY <3>2, <3>3, <3>5 DEF Issued
      <4> QED BY <2>1, <3>1, <3>5, <4>1
    <3> QED BY <1>a, <1>h, <3>1, <3>2, <3>4, <3>5 DEF Moves
  <2>3. CASE Now.op # "issue"
    <3>1. handles' = handles /\ (part # 2 \/ line # Len(Routine))
      BY <1>h, <2>3 DEF Fits
    <3>2. \/ part' = part /\ (item' = item \/ part # 2)
          \/ part' = part + 1 /\ item' = 1 /\ part # 2
      BY <1>a, <1>h, <3>1 DEF Moves
    <3>3. CASE part = 2
      BY <2>1, <3>1, <3>2, <3>3
    <3>4. CASE part = 1
      <4>1. Issued(1, item) = {} /\ Issued(2, 1) = {} /\ \A i : Issued(1, i) = {}
        BY TablesDistinct DEF Issued
      <4> QED BY <2>1, <3>1, <3>2, <3>4, <4>1
    <3>5. CASE part > 2
      <4>1. \A p \in 1..10 : \A i : p > 2 => Issued(p, i) = ToSet(Tables)
        BY TablesDistinct DEF Issued
      <4>2. part' > 2
        BY <1>h, <3>2, <3>5
      <4>3. Issued(part, item) = ToSet(Tables)
        BY <1>h, <3>5, <4>1
      <4>4. Issued(part', item') = ToSet(Tables)
        BY <1>a, <4>1, <4>2
      <4> QED BY <2>1, <3>1, <4>3, <4>4
    <3> QED BY <1>h, <3>3, <3>4, <3>5
  <2> QED BY <2>2, <2>3
<1>4. copy' = "none" => part' < 8 \/ (part' = 8 /\ line' <= 3)
  <2> SUFFICES ASSUME copy' = "none" PROVE part' < 8 \/ (part' = 8 /\ line' <= 3)
    OBVIOUS
  <2>1. copy = "none" /\ Now.op # "copy"
    OBVIOUS
  <2>2. part < 8 \/ (part = 8 /\ line <= 3)
    BY <2>1 DEF PlaceInv
  <2>3. CASE part < 8
    BY <2>3, <1>a, <1>h DEF Moves
  <2>4. CASE part = 8
    <3>1. Len(Routine) = 5 /\ line # 3
      BY <1>h, <2>1, <2>4 DEF Fits
    <3> QED BY <2>2, <2>4, <3>1, <1>a, <1>h DEF Moves
  <2> QED BY <2>2, <2>3, <2>4
<1> QED
  BY <1>a, <1>1, <1>2, <1>3, <1>4 DEF PlaceInv, Remains, Issued

\* What a step does to the record of readings.
Reading ==
    \/ used' = used /\ fresh' = fresh /\ Now.op \notin {"same", "read", "compare"}
    \/ used' = used /\ fresh' = fresh \ {File} /\ Intact(File) /\ Now.op \in {"same", "close"}
    \/ /\ used' = used \cup {<<File, bytes[File][entry[File]]>>} /\ fresh' = fresh \cup {File}
       /\ Now.op = "read"
    \/ used' = used \cup {<<"copy", copy>>} /\ fresh' = fresh /\ Now.op = "compare"

\* A changed reading stays visible until a check that is still to come.
LEMMA TaintKept ==
    ASSUME KernelTypes, PlaceInv, TaintInv, Proceed, UNCHANGED <<mode, expecting, bytes>>,
           Now.op # "accept", Reading, copy' = copy \/ Now.op = "copy",
           Now.op = "copied" => copy = "declared",
           part # 1 => \A f \in Leaves : entry'[f] = entry[f]
    PROVE  TaintInv'
<1>a. Moves
  BY Advance
<1>h. /\ Len(Routine) \in Nat \ {0} /\ Fits(Now, expecting, part, item, line, Len(Routine)) /\ part \in 1..10
      /\ item \in 1..Items(part) /\ line \in 1..Len(Routine)
  BY Here DEF PlaceInv
<1>l. "copy" \notin Leaves /\ fresh \subseteq Leaves
  BY DeclaredLeaves DEF KernelTypes
<1>1. ASSUME NEW u \in used', u[2] = "other"
      PROVE  \/ u[1] \in fresh' /\ bytes'[u[1]][entry'[u[1]]] = "other"
             \/ u[1] = "copy" /\ copy' = "other" /\ part' = 10 /\ line' = 2
  <2>1. CASE u \in used
    <3>1. part # 1
      BY <2>1 DEF PlaceInv
    <3>2. \/ u[1] \in fresh /\ bytes[u[1]][entry[u[1]]] = "other"
          \/ u[1] = "copy" /\ copy = "other" /\ part = 10 /\ line = 2
      BY <1>1, <2>1 DEF TaintInv
    <3>3. ~(copy = "other" /\ part = 10 /\ line = 2)
      BY <1>h DEF Fits
    <3>4. u[1] \in fresh /\ bytes[u[1]][entry[u[1]]] = "other"
      BY <3>2, <3>3
    <3>5. bytes'[u[1]][entry'[u[1]]] = "other"
      BY <1>l, <3>1, <3>4
    <3>6. u[1] \in fresh'
      BY <3>4 DEF Reading, Intact
    <3> QED BY <3>5, <3>6
  <2>2. CASE u \notin used /\ Now.op = "read"
    <3>1. u = <<File, bytes[File][entry[File]]>> /\ File \in fresh'
      BY <2>2 DEF Reading
    <3>2. part # 1 /\ File \in Leaves
      BY <1>h, <2>2 DEF Fits, LeafOps, File
    <3> QED BY <1>1, <3>1, <3>2
  <2>3. CASE u \notin used /\ Now.op = "compare"
    <3>1. u = <<"copy", copy>>
      BY <2>3 DEF Reading
    <3>2. part = 10 /\ line = 1 /\ Len(Routine) > 2 /\ copy' = copy
      BY <1>h, <2>3 DEF Fits
    <3>3. part' = 10 /\ line' = 2
      BY <1>a, <3>2 DEF Moves
    <3> QED BY <1>1, <3>1, <3>2, <3>3
  <2> QED BY <2>1, <2>2, <2>3 DEF Reading
<1>2. ASSUME part' = 10, NEW f \in fresh' PROVE Remains(Step("same", f))'
  <2>1. f \in Leaves
    BY <1>h, <1>l DEF Reading, Fits, LeafOps, File
  <2>2. CASE part = 10
    <3>1. f \in fresh /\ ~(Now.op = "same" /\ File = f)
      BY <1>h, <2>2 DEF Reading, Fits
    <3>2. Remains(Step("same", f))
      BY <2>2, <3>1 DEF TaintInv, Remains
    <3>3. Step("same", f) # Now
      BY <3>1 DEF Step, File
    <3> QED BY <3>2, <3>3, StaysInRoutine
  <2>3. CASE part # 10
    <3>1. item' = 1 /\ line' = 1 /\ mode' = mode /\ expecting' = expecting /\ expecting \in BOOLEAN
      BY <1>a, <1>2, <2>3 DEF Moves, KernelTypes
    <3>2. Routine' = Conclude(expecting)
      BY <1>2, <3>1 DEF Routine, Program
    <3>3. Step("same", f) \in ToSet(Conclude(expecting)) /\ DOMAIN Conclude(expecting) = 1..Len(Conclude(expecting))
      BY <2>1, <3>1, ConcludeSteps
    <3>4. \E j \in 1..Len(Conclude(expecting)) : Conclude(expecting)[j] = Step("same", f)
      BY <3>3 DEF ToSet
    <3> QED BY <3>1, <3>2, <3>4 DEF Remains
  <2> QED BY <2>2, <2>3
<1> QED
  BY <1>1, <1>2 DEF TaintInv, Remains

\* What would refuse an unsound artifact is passed only with a changed reading.
LEMMA JudgeKept ==
    ASSUME KernelTypes, PlaceInv, JudgeInv, Proceed, UNCHANGED fixed, Now.op # "accept", used \subseteq used',
           \A f \in Files \ sound : Now = Judge(f) => Tainted',
           expecting /\ ~baseline => Now # Step("expected", "manifest")
    PROVE  JudgeInv'
<1>f. mode' = mode /\ expecting' = expecting /\ sound' = sound /\ baseline' = baseline
  BY DEF fixed
<1>1. ASSUME NEW f \in Files \ sound PROVE Pending(Judge(f))' \/ Tainted'
  <2>1. CASE Tainted
    BY <2>1 DEF Tainted
  <2>2. CASE Pending(Judge(f)) /\ Now # Judge(f)
    <3> DEFINE s == Judge(f)
    <3>1. Pending(s) /\ s # Now
      BY <2>2
    <3>2. s' = s
      BY DEF Judge
    <3> HIDE DEF s
    <3>3. Pending(s)'
      BY <1>f, <3>1, StaysPending
    <3> QED BY <3>3 DEF s
  <2>3. CASE Now = Judge(f)
    BY <1>1, <2>3
  <2> QED BY <1>1, <2>1, <2>2, <2>3 DEF JudgeInv
<1>2. ASSUME expecting, ~baseline PROVE Pending(Step("expected", "manifest"))'
  <2> DEFINE s == Step("expected", "manifest")
  <2>1. Pending(s) /\ s # Now
    BY <1>2 DEF JudgeInv
  <2> HIDE DEF s
  <2>2. Pending(s)'
    BY <1>f, <2>1, StaysPending
  <2> QED BY <2>2 DEF s
<1> QED
  BY <1>f, <1>1, <1>2 DEF JudgeInv

\* Nobody's change stays nobody's change.
LEMMA UntouchedKept ==
    ASSUME KernelTypes, UntouchedInv, UNCHANGED <<disk, changes>>,
           \A f \in Files : entry'[f] \in {entry[f], inode[f]},
           changes = 0 => copy' # "other" /\ ~Tainted'
    PROVE  UntouchedInv'
BY DEF UntouchedInv, KernelTypes, disk

\* The kernel goes on, or it refuses.
LEMMA Proceeds ==
    ASSUME KernelInv, verdict = "none", Proceed, seal' = seal, KernelTypes', UntouchedInv',
           PlaceInv', TaintInv', JudgeInv'
    PROVE  KernelInv'
BY DEF KernelInv, VerdictSound, Proceed

\* A refusal needs a fault or a change.
LEMMA Refuses ==
    ASSUME KernelInv, verdict = "none", Refuse, UNCHANGED <<fixed, seal, changes>>, KernelTypes',
           UntouchedInv', changes = 0 => sound # Files \/ (expecting /\ ~baseline)
    PROVE  KernelInv'
BY DEF KernelInv, VerdictSound, Refuse, fixed

(***************************************************************************)
(* The kernel's actions.                                                   *)
(***************************************************************************)

\* A step that checks something and records nothing but what was checked again.
Check == /\ UNCHANGED <<fixed, disk, used, handles, copy, seal, changes>>
         /\ entry' = entry \/ entry' = [entry EXCEPT !["manifest"] = inode["manifest"]]
         /\ Now.op \notin {"digest", "issue", "copy", "accept", "compare", "read"}
         /\ \/ fresh' = fresh /\ Now.op # "same"
            \/ fresh' = fresh \ {File} /\ Now.op \in {"same", "close"}

\* A check passes or refuses; what it checked again is no longer fresh.
LEMMA CheckKeeps ==
    ASSUME KernelInv, verdict = "none", Check, NEW cond \in BOOLEAN, Pass(cond),
           cond /\ Now.op \in {"same", "close"} => Intact(File),
           cond /\ Now.op = "copied" => copy = "declared",
           cond /\ Now.op = "facts" => File \in sound \/ Tainted,
           cond /\ Now.op = "expected" => baseline,
           ~cond /\ changes = 0 => sound # Files \/ (expecting /\ ~baseline)
    PROVE  KernelInv'
<1>i. KernelTypes /\ PlaceInv /\ TaintInv /\ JudgeInv /\ UntouchedInv
  BY DEF KernelInv
<1>l. "manifest" \in Files /\ "manifest" \notin Leaves /\ Leaves \subseteq Files
  BY DeclaredLeaves DEF Files, Leaves
<1>e. /\ entry' \in [Files -> 0..2] /\ \A f \in Leaves : entry'[f] = entry[f]
      /\ \A f \in Files : entry'[f] \in {entry[f], inode[f]}
  BY <1>i, <1>l DEF Check, KernelTypes
<1>u. /\ mode' = mode /\ expecting' = expecting /\ sound' = sound /\ baseline' = baseline
      /\ bytes' = bytes /\ inode' = inode /\ extra' = extra /\ moved' = moved
      /\ used' = used /\ handles' = handles /\ copy' = copy /\ seal' = seal /\ changes' = changes
      /\ fresh' \subseteq fresh
  BY DEF Check, fixed, disk
<1>t. KernelTypes'
  <2>1. verdict' \in {"none", "refused"}
    BY DEF Pass, Proceed, Refuse
  <2> QED BY <1>i, <1>e, <1>u, <2>1 DEF KernelTypes
<1>w. UntouchedInv'
  <2>1. changes = 0 => copy' # "other" /\ ~Tainted'
    BY <1>i, <1>u DEF UntouchedInv, Tainted
  <2> QED BY <1>i, <1>e, <1>u, <2>1, UntouchedKept DEF disk
<1>1. CASE cond
  <2>p. Proceed /\ Now.op # "accept"
    BY <1>1 DEF Pass, Check
  <2>1. PlaceInv'
    <3>1. \A f \in Leaves : entry'[f] = 2 => entry[f] = 2 /\ ~(Now.op = "digest" /\ File = f)
      BY <1>e DEF Check
    <3>2. /\ handles' = IF Now.op = "issue" THEN handles \cup {File} ELSE handles
          /\ (copy' = "none" => copy = "none" /\ Now.op # "copy")
      BY <1>u DEF Check
    <3> QED BY <1>i, <1>u, <2>p, <3>1, <3>2, PlaceKept
  <2>2. TaintInv'
    <3>1. Reading
      BY <1>1, <1>u DEF Check, Reading
    <3> QED BY <1>1, <1>i, <1>u, <1>e, <2>p, <3>1, TaintKept
  <2>3. JudgeInv'
    <3>1. \A f \in Files \ sound : Now = Judge(f) => Tainted'
      <4> SUFFICES ASSUME NEW f \in Files \ sound, Now = Judge(f) PROVE Tainted'
        OBVIOUS
      <4>1. Now.op = "facts" /\ File = f
        BY DEF Judge, Step, File, Check
      <4> QED BY <1>1, <1>u, <4>1 DEF Tainted
    <3>2. expecting /\ ~baseline => Now # Step("expected", "manifest")
      BY <1>1 DEF Step
    <3> QED BY <1>i, <1>u, <2>p, <3>1, <3>2, JudgeKept DEF fixed
  <2> QED BY <1>u, <1>t, <1>w, <2>p, <2>1, <2>2, <2>3, Proceeds
<1>2. CASE ~cond
  <2>1. Refuse
    BY <1>2 DEF Pass
  <2> QED BY <1>2, <1>u, <1>t, <1>w, <2>1, Refuses DEF fixed
<1> QED BY <1>1, <1>2

\* What nobody touched is intact, once the inventory has it.
LEMMA UntouchedIntact ==
    ASSUME KernelInv, verdict = "none", changes = 0
    PROVE  /\ ExactTree /\ ~moved /\ copy # "other" /\ ~Tainted
           /\ part # 1 => \A f \in Leaves : Intact(f)
           /\ \A f \in Files : bytes[f][inode[f]] = "declared"
<1>1. KernelTypes /\ PlaceInv /\ UntouchedInv
  BY DEF KernelInv
<1>2. Leaves \subseteq Files
  BY DEF Files, Leaves
<1> QED
  BY <1>1, <1>2 DEF UntouchedInv, PlaceInv, Intact, ExactTree

\* What a running kernel's place says.
LEMMA AtStep ==
    ASSUME KernelInv, verdict = "none"
    PROVE  /\ KernelTypes /\ PlaceInv /\ part \in 1..10 /\ line \in 1..Len(Routine)
           /\ Fits(Now, expecting, part, item, line, Len(Routine))
BY Here DEF KernelInv, PlaceInv

\* The root is held under its name.
LEMMA HoldRootKeeps == ASSUME KernelInv, HoldRoot PROVE KernelInv'
<1>1. verdict = "none" /\ Check /\ Pass(~moved)
  BY DEF HoldRoot, At, Check
<1>2. Now.op = "hold" /\ (changes = 0 => ~moved)
  BY <1>1, UntouchedIntact DEF HoldRoot, At
<1>3. (~moved) \in BOOLEAN
  OBVIOUS
<1> HIDE DEF Check
<1> QED BY <1>1, <1>2, <1>3, CheckKeeps

\* check_exact_tree records nothing.
LEMMA CheckTreeKeeps == ASSUME KernelInv, CheckTree PROVE KernelInv'
<1>1. verdict = "none" /\ Check /\ Pass(ExactTree)
  BY DEF CheckTree, At, Check
<1>2. Now.op = "exact" /\ (changes = 0 => ExactTree)
  BY <1>1, UntouchedIntact DEF CheckTree, At
<1>3. ExactTree \in BOOLEAN
  BY DEF ExactTree
<1> QED BY <1>1, <1>2, <1>3, CheckKeeps

\* The manifest is no leaf: recording its inode touches no reading.
LEMMA CheckManifestKeeps == ASSUME KernelInv, CheckManifest PROVE KernelInv'
<1> DEFINE good == /\ inode["manifest"] = entry'["manifest"]
                   /\ bytes["manifest"][inode["manifest"]] = "declared"
<1>1. verdict = "none" /\ Check /\ Pass(good) /\ Now.op = "manifest"
  BY DEF CheckManifest, At, Check
<1>2. changes = 0 => good
  <2>1. KernelTypes /\ UntouchedInv /\ "manifest" \in Files
    BY DEF KernelInv, Files
  <2> QED
    BY <2>1 DEF CheckManifest, UntouchedInv, KernelTypes
<1>3. good \in BOOLEAN
  OBVIOUS
<1> HIDE DEF good
<1> QED BY <1>1, <1>2, <1>3, CheckKeeps

\* A leaf seen intact carries no changed reading.
LEMMA ReassertKeeps == ASSUME KernelInv, Reassert PROVE KernelInv'
<1> DEFINE good == Intact(File) /\ ExactTree
<1>1. verdict = "none" /\ Check /\ Pass(good) /\ Now.op = "same"
  BY DEF Reassert, At, Check
<1>2. changes = 0 => good
  <2>1. part # 1 /\ File \in Leaves
    BY <1>1, AtStep DEF Fits, LeafOps, File
  <2> QED
    BY <1>1, <2>1, UntouchedIntact
<1>3. good \in BOOLEAN
  BY DEF Intact, ExactTree
<1>4. good => Intact(File)
  OBVIOUS
<1> HIDE DEF good
<1> QED BY <1>1, <1>2, <1>3, <1>4, CheckKeeps

\* Opening reads nothing yet.
LEMMA OpenEntryKeeps == ASSUME KernelInv, OpenEntry PROVE KernelInv'
<1> DEFINE good == Intact(File) /\ ~moved
<1>1. verdict = "none" /\ Check /\ Pass(good) /\ Now.op = "open"
  BY DEF OpenEntry, At, Check
<1>2. changes = 0 => good
  <2>1. part # 1 /\ File \in Leaves
    BY <1>1, AtStep DEF Fits, LeafOps, File
  <2> QED
    BY <1>1, <2>1, UntouchedIntact
<1>3. good \in BOOLEAN
  BY DEF Intact
<1> HIDE DEF good
<1> QED BY <1>1, <1>2, <1>3, CheckKeeps

\* The second digest of open_verified catches a changed reading.
LEMMA CloseEntryKeeps == ASSUME KernelInv, CloseEntry PROVE KernelInv'
<1> DEFINE good == Intact(File) /\ ExactTree
<1>1. verdict = "none" /\ Check /\ Pass(good) /\ Now.op = "close"
  BY DEF CloseEntry, At, Check
<1>2. changes = 0 => good
  <2>1. part # 1 /\ File \in Leaves
    BY <1>1, AtStep DEF Fits, LeafOps, File
  <2> QED
    BY <1>1, <2>1, UntouchedIntact
<1>3. good \in BOOLEAN
  BY DEF Intact, ExactTree
<1>4. good => Intact(File)
  OBVIOUS
<1> HIDE DEF good
<1> QED BY <1>1, <1>2, <1>3, <1>4, CheckKeeps

\* An abandoned iterator leaves its leaf fresh for the next assert_unchanged.
LEMMA AbandonEntryKeeps == ASSUME KernelInv, AbandonEntry PROVE KernelInv'
<1>1. verdict = "none" /\ Check /\ Pass(TRUE) /\ Now.op = "abandon"
  BY DEF AbandonEntry, At, Check, Pass
<1> QED BY <1>1, CheckKeeps

\* Facts that differ refuse, unless a changed reading hid the difference.
LEMMA CompareFactsKeeps == ASSUME KernelInv, CompareFacts PROVE KernelInv'
<1>1. verdict = "none" /\ Check /\ Now.op = "facts"
  BY DEF CompareFacts, At, Check
<1>2. \/ Pass(File \in sound)
      \/ Tainted /\ (Pass(TRUE) \/ Pass(FALSE))
  BY DEF CompareFacts, Tainted, Pass
<1>3. (changes = 0 => ~Tainted) /\ File \in Files
  BY <1>1, UntouchedIntact, AtStep DEF Fits, File
<1>4. CASE Pass(File \in sound)
  <2>1. (File \in sound) \in BOOLEAN
    OBVIOUS
  <2>2. File \notin sound => sound # Files
    BY <1>3
  <2> QED BY <1>1, <1>4, <2>1, <2>2, CheckKeeps
<1>5. CASE Tainted /\ Pass(TRUE)
  BY <1>1, <1>5, CheckKeeps
<1>6. CASE Tainted /\ Pass(FALSE)
  BY <1>1, <1>3, <1>6, CheckKeeps
<1> QED BY <1>2, <1>4, <1>5, <1>6

\* Every table has its handle by the time the handles are checked.
LEMMA CheckHandlesKeeps == ASSUME KernelInv, CheckHandles PROVE KernelInv'
<1> DEFINE good == handles = ToSet(Tables)
<1>1. verdict = "none" /\ Check /\ Pass(good) /\ Now.op = "handles"
  BY DEF CheckHandles, At, Check
<1>2. good
  <2>1. part > 2 /\ PlaceInv
    BY <1>1, AtStep DEF Fits
  <2> QED BY <2>1, TablesDistinct DEF PlaceInv
<1>3. good \in BOOLEAN
  OBVIOUS
<1> HIDE DEF good
<1> QED BY <1>1, <1>2, <1>3, CheckKeeps

\* The copy exists by the time its digest is checked.
LEMMA CheckCopyKeeps == ASSUME KernelInv, CheckCopy PROVE KernelInv'
<1> DEFINE good == copy = "declared"
<1>1. verdict = "none" /\ Check /\ Pass(good) /\ Now.op = "copied"
  BY DEF CheckCopy, At, Check
<1>2. changes = 0 => good
  <2>1. copy # "none" /\ copy \in {"none", "declared", "other"}
    BY <1>1, AtStep DEF Fits, PlaceInv, KernelTypes
  <2> QED BY <1>1, <2>1, UntouchedIntact
<1>3. good \in BOOLEAN /\ (good => copy = "declared")
  OBVIOUS
<1> HIDE DEF good
<1> QED BY <1>1, <1>2, <1>3, CheckKeeps

\* The baseline is compared only when it is expected.
LEMMA CompareExpectedKeeps == ASSUME KernelInv, CompareExpected PROVE KernelInv'
<1>1. verdict = "none" /\ Check /\ Pass(baseline) /\ Now.op = "expected"
  BY DEF CompareExpected, At, Check
<1>2. baseline \in BOOLEAN
  BY DEF KernelInv, KernelTypes
<1>3. expecting
  BY <1>1, AtStep DEF Fits
<1> QED BY <1>1, <1>2, <1>3, CheckKeeps

\* The variables most steps of the kernel leave alone, one by one.
Still == /\ mode' = mode /\ expecting' = expecting /\ sound' = sound /\ baseline' = baseline
         /\ bytes' = bytes /\ inode' = inode /\ extra' = extra /\ moved' = moved
         /\ seal' = seal /\ changes' = changes

\* The inventory records a leaf as it found it.
LEMMA InitialDigestKeeps == ASSUME KernelInv, InitialDigest PROVE KernelInv'
<1> DEFINE good == bytes[File][inode[File]] = "declared"
<1>1. verdict = "none" /\ Now.op = "digest" /\ Pass(good) /\ entry' = [entry EXCEPT ![File] = inode[File]]
  BY DEF InitialDigest, At
<1>u. Still /\ used' = used /\ fresh' = fresh /\ handles' = handles /\ copy' = copy
  BY DEF InitialDigest, fixed, disk, Still
<1>i. KernelTypes /\ PlaceInv /\ TaintInv /\ JudgeInv /\ UntouchedInv
  BY <1>1 DEF KernelInv
<1>2. part = 1 /\ File \in Leaves /\ File \in Files /\ Leaves \subseteq Files
  BY <1>1, AtStep DEF Fits, LeafOps, File, Files, Leaves
<1>e. /\ entry' \in [Files -> 0..2] /\ entry'[File] # 2
      /\ \A f \in Files : entry'[f] \in {entry[f], inode[f]} /\ (f # File => entry'[f] = entry[f])
  BY <1>i, <1>1, <1>2 DEF KernelTypes
<1>t. KernelTypes'
  <2>1. verdict' \in {"none", "refused"}
    BY <1>1 DEF Pass, Proceed, Refuse
  <2> QED BY <1>i, <1>e, <1>u, <2>1 DEF KernelTypes, Still
<1>w. UntouchedInv'
  <2>1. changes = 0 => copy' # "other" /\ ~Tainted'
    BY <1>i, <1>u DEF UntouchedInv, Tainted
  <2> QED BY <1>i, <1>e, <1>u, <2>1, UntouchedKept DEF disk, Still
<1>3. CASE good
  <2>p. Proceed /\ Now.op # "accept"
    BY <1>1, <1>3 DEF Pass
  <2>1. PlaceInv'
    <3>1. \A f \in Leaves : entry'[f] = 2 => entry[f] = 2 /\ ~(Now.op = "digest" /\ File = f)
      BY <1>e, <1>2
    <3>2. /\ handles' = IF Now.op = "issue" THEN handles \cup {File} ELSE handles
          /\ (copy' = "none" => copy = "none" /\ Now.op # "copy") /\ mode' = mode /\ expecting' = expecting
          /\ used' = used /\ fresh' \subseteq fresh
      BY <1>1, <1>u DEF Still
    <3> QED BY <1>i, <2>p, <3>1, <3>2, PlaceKept
  <2>2. TaintInv'
    <3>1. Reading /\ Now.op # "copied" /\ copy' = copy /\ UNCHANGED <<mode, expecting, bytes>>
      BY <1>1, <1>u DEF Reading, Still
    <3> QED BY <1>2, <1>i, <2>p, <3>1, TaintKept
  <2>3. JudgeInv'
    <3>1. \A f \in Files \ sound : Now = Judge(f) => Tainted'
      BY <1>1 DEF Judge, Step
    <3>2. Now # Step("expected", "manifest")
      BY <1>1 DEF Step
    <3>3. UNCHANGED fixed /\ used \subseteq used'
      BY <1>u DEF fixed, Still
    <3> QED BY <1>i, <2>p, <3>1, <3>2, <3>3, JudgeKept
  <2> QED BY <1>1, <1>u, <1>t, <1>w, <2>p, <2>1, <2>2, <2>3, Proceeds DEF Still
<1>4. CASE ~good
  <2>1. Refuse
    BY <1>1, <1>4 DEF Pass
  <2>2. changes # 0
    BY <1>1, <1>2, <1>4, UntouchedIntact
  <2> QED BY <1>1, <1>u, <1>t, <1>w, <2>1, <2>2, Refuses DEF fixed, Still
<1> QED BY <1>3, <1>4

\* A reading is fresh from the moment it is taken.
LEMMA ReadEntryKeeps == ASSUME KernelInv, ReadEntry PROVE KernelInv'
<1> DEFINE b == bytes[File][entry[File]]
<1>1. /\ verdict = "none" /\ Now.op = "read" /\ Proceed
      /\ used' = used \cup {<<File, b>>} /\ fresh' = fresh \cup {File}
  BY DEF ReadEntry, At
<1>u. Still /\ entry' = entry /\ handles' = handles /\ copy' = copy
  BY DEF ReadEntry, fixed, disk, Still
<1>i. KernelTypes /\ PlaceInv /\ TaintInv /\ JudgeInv /\ UntouchedInv
  BY <1>1 DEF KernelInv
<1>2. part # 1 /\ File \in Leaves /\ File \in Files
  BY <1>1, AtStep DEF Fits, LeafOps, File
<1>b. b \in {"declared", "other"} /\ (changes = 0 => b = "declared")
  <2>1. entry[File] \in 0..1
    BY <1>2, <1>i DEF PlaceInv, KernelTypes
  <2>2. b \in {"declared", "other"}
    BY <2>1, <1>2, <1>i DEF KernelTypes
  <2>3. changes = 0 => b = "declared"
    BY <1>1, <1>2, UntouchedIntact DEF Intact
  <2> QED BY <2>2, <2>3
<1>r. Reading
  BY <1>1 DEF Reading
<1> HIDE DEF b
<1>t. KernelTypes'
  <2>1. verdict' = "none"
    BY <1>1 DEF Proceed
  <2>2. used' \in SUBSET ((Leaves \cup {"copy"}) \X {"declared", "other"})
    BY <1>1, <1>2, <1>b, <1>i DEF KernelTypes
  <2> QED BY <1>1, <1>2, <1>i, <1>u, <2>1, <2>2 DEF KernelTypes, Still
<1>w. UntouchedInv'
  <2>1. changes = 0 => copy' # "other" /\ ~Tainted'
    BY <1>1, <1>b, <1>i, <1>u DEF UntouchedInv, Tainted
  <2> QED BY <1>i, <1>u, <2>1, UntouchedKept DEF disk, Still
<1>p. PlaceInv'
  <2>1. /\ \A f \in Leaves : entry'[f] = 2 => entry[f] = 2 /\ ~(Now.op = "digest" /\ File = f)
        /\ handles' = IF Now.op = "issue" THEN handles \cup {File} ELSE handles
        /\ (copy' = "none" => copy = "none" /\ Now.op # "copy") /\ mode' = mode /\ expecting' = expecting
    BY <1>1, <1>u DEF Still
  <2> QED BY <1>1, <1>2, <1>i, <2>1, PlaceKept
<1>a. TaintInv'
  <2>1. Now.op # "copied" /\ copy' = copy /\ UNCHANGED <<mode, expecting, bytes>> /\ entry' = entry
    BY <1>1, <1>u DEF Still
  <2> QED BY <1>1, <1>r, <1>i, <2>1, TaintKept
<1>j. JudgeInv'
  <2>1. \A f \in Files \ sound : Now = Judge(f) => Tainted'
    BY <1>1 DEF Judge, Step
  <2>2. Now # Step("expected", "manifest") /\ Now.op # "accept"
    BY <1>1 DEF Step
  <2>3. UNCHANGED fixed /\ used \subseteq used'
    BY <1>1, <1>u DEF fixed, Still
  <2> QED BY <1>1, <1>i, <2>1, <2>2, <2>3, JudgeKept
<1> QED BY <1>1, <1>u, <1>t, <1>w, <1>p, <1>a, <1>j, Proceeds DEF Still

\* No table gets a second handle.
LEMMA IssueHandleKeeps == ASSUME KernelInv, IssueHandle PROVE KernelInv'
<1> DEFINE good == File \notin handles /\ entry[File] # 2
<1>1. verdict = "none" /\ Now.op = "issue" /\ Pass(good) /\ handles' = handles \cup {File}
  BY DEF IssueHandle, At
<1>u. Still /\ used' = used /\ fresh' = fresh /\ entry' = entry /\ copy' = copy
  BY DEF IssueHandle, fixed, disk, Still
<1>i. KernelTypes /\ PlaceInv /\ TaintInv /\ JudgeInv /\ UntouchedInv
  BY <1>1 DEF KernelInv
<1>2. part = 2 /\ File = Tables[item] /\ File \in Leaves /\ item \in 1..Len(Tables)
  BY <1>1, AtStep DEF Fits, LeafOps, File, PlaceInv, Items
<1>g. good
  <2>1. entry[File] # 2
    BY <1>2, <1>i DEF PlaceInv
  <2>2. File \notin handles
    BY <1>2, <1>i, TablesDistinct DEF PlaceInv
  <2> QED BY <2>1, <2>2
<1>p. Proceed /\ Now.op # "accept"
  BY <1>1, <1>g DEF Pass
<1>t. KernelTypes'
  <2>1. verdict' = "none"
    BY <1>1, <1>p DEF Proceed
  <2> QED BY <1>i, <1>u, <2>1 DEF KernelTypes, Still
<1>w. UntouchedInv'
  <2>1. changes = 0 => copy' # "other" /\ ~Tainted'
    BY <1>i, <1>u DEF UntouchedInv, Tainted
  <2> QED BY <1>i, <1>u, <2>1, UntouchedKept DEF disk, Still
<1>3. PlaceInv'
  <2>1. /\ \A f \in Leaves : entry'[f] = 2 => entry[f] = 2 /\ ~(Now.op = "digest" /\ File = f)
        /\ handles' = IF Now.op = "issue" THEN handles \cup {File} ELSE handles
        /\ (copy' = "none" => copy = "none" /\ Now.op # "copy") /\ mode' = mode /\ expecting' = expecting
    BY <1>1, <1>u DEF Still
  <2> QED BY <1>2, <1>i, <1>p, <2>1, PlaceKept
<1>4. TaintInv'
  <2>1. /\ Reading /\ Now.op # "copied" /\ copy' = copy /\ UNCHANGED <<mode, expecting, bytes>>
        /\ entry' = entry
    BY <1>1, <1>u DEF Reading, Still
  <2> QED BY <1>i, <1>p, <2>1, TaintKept
<1>5. JudgeInv'
  <2>1. \A f \in Files \ sound : Now = Judge(f) => Tainted'
    BY <1>1 DEF Judge, Step
  <2>2. Now # Step("expected", "manifest")
    BY <1>1 DEF Step
  <2>3. UNCHANGED fixed /\ used \subseteq used'
    BY <1>u DEF fixed, Still
  <2> QED BY <1>i, <1>p, <2>1, <2>2, <2>3, JudgeKept
<1> QED BY <1>1, <1>u, <1>t, <1>w, <1>p, <1>3, <1>4, <1>5, Proceeds DEF Still

\* The copy has the bytes of the leaf the inventory recorded.
LEMMA CopyDatabaseKeeps == ASSUME KernelInv, CopyDatabase PROVE KernelInv'
<1> DEFINE b == bytes[File][entry[File]]
<1>1. verdict = "none" /\ Now.op = "copy" /\ Proceed /\ Now.op # "accept" /\ copy' = b
  BY DEF CopyDatabase, At
<1>u. Still /\ used' = used /\ fresh' = fresh /\ entry' = entry /\ handles' = handles
  BY DEF CopyDatabase, fixed, disk, Still
<1>i. KernelTypes /\ PlaceInv /\ TaintInv /\ JudgeInv /\ UntouchedInv
  BY <1>1 DEF KernelInv
<1>2. part = 8 /\ File \in Leaves /\ File \in Files
  BY <1>1, AtStep DEF Fits, LeafOps, File
<1>b. b \in {"declared", "other"} /\ (changes = 0 => b = "declared")
  <2>1. entry[File] \in 0..1
    BY <1>2, <1>i DEF PlaceInv, KernelTypes
  <2>2. b \in {"declared", "other"}
    BY <2>1, <1>2, <1>i DEF KernelTypes
  <2>3. changes = 0 => b = "declared"
    BY <1>1, <1>2, UntouchedIntact DEF Intact
  <2> QED BY <2>2, <2>3
<1> HIDE DEF b
<1>t. KernelTypes'
  <2>1. verdict' = "none"
    BY <1>1 DEF Proceed
  <2> QED BY <1>1, <1>b, <1>i, <1>u, <2>1 DEF KernelTypes, Still
<1>w. UntouchedInv'
  <2>1. changes = 0 => copy' # "other" /\ ~Tainted'
    BY <1>1, <1>b, <1>i, <1>u DEF UntouchedInv, Tainted
  <2> QED BY <1>i, <1>u, <2>1, UntouchedKept DEF disk, Still
<1>3. PlaceInv'
  <2>1. /\ \A f \in Leaves : entry'[f] = 2 => entry[f] = 2 /\ ~(Now.op = "digest" /\ File = f)
        /\ handles' = IF Now.op = "issue" THEN handles \cup {File} ELSE handles
        /\ (copy' = "none" => copy = "none" /\ Now.op # "copy") /\ mode' = mode /\ expecting' = expecting
    BY <1>1, <1>b, <1>u DEF Still
  <2> QED BY <1>1, <1>2, <1>i, <2>1, PlaceKept
<1>4. TaintInv'
  <2>1. /\ Reading /\ Now.op # "copied" /\ UNCHANGED <<mode, expecting, bytes>> /\ entry' = entry
    BY <1>1, <1>u DEF Reading, Still
  <2> QED BY <1>1, <1>i, <2>1, TaintKept
<1>5. JudgeInv'
  <2>1. \A f \in Files \ sound : Now = Judge(f) => Tainted'
    BY <1>1 DEF Judge, Step
  <2>2. Now # Step("expected", "manifest")
    BY <1>1 DEF Step
  <2>3. UNCHANGED fixed /\ used \subseteq used'
    BY <1>u DEF fixed, Still
  <2> QED BY <1>1, <1>i, <2>1, <2>2, <2>3, JudgeKept
<1> QED BY <1>1, <1>u, <1>t, <1>w, <1>3, <1>4, <1>5, Proceeds DEF Still

\* A changed copy is caught by the digest right after the comparison.
LEMMA CompareDatabaseKeeps == ASSUME KernelInv, CompareDatabase PROVE KernelInv'
<1>1. /\ verdict = "none" /\ Now.op = "compare" /\ Now.op # "accept"
      /\ used' = used \cup {<<"copy", copy>>}
      /\ \/ Proceed /\ ("database" \in sound \/ copy = "other")
         \/ Refuse /\ ("database" \notin sound \/ copy = "other")
  BY DEF CompareDatabase, At, Pass
<1>u. Still /\ fresh' = fresh /\ entry' = entry /\ handles' = handles /\ copy' = copy
  BY DEF CompareDatabase, fixed, disk, Still
<1>i. KernelTypes /\ PlaceInv /\ TaintInv /\ JudgeInv /\ UntouchedInv
  BY <1>1 DEF KernelInv
<1>2. part = 10 /\ copy \in {"declared", "other"} /\ "database" \in Files
  BY <1>1, AtStep, DeclaredLeaves DEF Fits, PlaceInv, KernelTypes, Files, Leaves
<1>t. KernelTypes'
  <2>1. verdict' \in {"none", "refused"}
    BY <1>1 DEF Proceed, Refuse
  <2>2. used' \in SUBSET ((Leaves \cup {"copy"}) \X {"declared", "other"})
    BY <1>1, <1>2, <1>i DEF KernelTypes
  <2> QED BY <1>i, <1>u, <2>1, <2>2 DEF KernelTypes, Still
<1>w. UntouchedInv'
  <2>1. changes = 0 => copy' # "other" /\ ~Tainted'
    BY <1>1, <1>2, <1>i, <1>u DEF UntouchedInv, Tainted
  <2> QED BY <1>i, <1>u, <2>1, UntouchedKept DEF disk, Still
<1>3. CASE Proceed /\ ("database" \in sound \/ copy = "other")
  <2>1. PlaceInv'
    <3>1. /\ \A f \in Leaves : entry'[f] = 2 => entry[f] = 2 /\ ~(Now.op = "digest" /\ File = f)
          /\ handles' = IF Now.op = "issue" THEN handles \cup {File} ELSE handles
          /\ (copy' = "none" => copy = "none" /\ Now.op # "copy") /\ mode' = mode /\ expecting' = expecting
      BY <1>1, <1>u DEF Still
    <3> QED BY <1>1, <1>2, <1>3, <1>i, <3>1, PlaceKept
  <2>2. TaintInv'
    <3>1. /\ Reading /\ Now.op # "copied" /\ UNCHANGED <<mode, expecting, bytes>> /\ entry' = entry
          /\ copy' = copy
      BY <1>1, <1>u DEF Reading, Still
    <3> QED BY <1>1, <1>3, <1>i, <3>1, TaintKept
  <2>3. JudgeInv'
    <3>1. \A f \in Files \ sound : Now = Judge(f) => Tainted'
      <4> SUFFICES ASSUME NEW f \in Files \ sound, Now = Judge(f) PROVE Tainted'
        OBVIOUS
      <4>1. f = "database"
        BY <1>1 DEF Judge, Step
      <4>2. copy = "other" /\ <<"copy", copy>> \in used'
        BY <1>1, <1>3, <4>1
      <4> QED BY <4>2 DEF Tainted
    <3>2. Now # Step("expected", "manifest")
      BY <1>1 DEF Step
    <3>3. UNCHANGED fixed /\ used \subseteq used'
      BY <1>1, <1>u DEF fixed, Still
    <3> QED BY <1>1, <1>3, <1>i, <3>1, <3>2, <3>3, JudgeKept
  <2> QED BY <1>1, <1>3, <1>u, <1>t, <1>w, <2>1, <2>2, <2>3, Proceeds DEF Still
<1>4. CASE Refuse /\ ("database" \notin sound \/ copy = "other")
  <2>1. changes = 0 => sound # Files
    BY <1>1, <1>2, <1>4, UntouchedIntact
  <2> QED BY <1>1, <1>4, <1>u, <1>t, <1>w, <2>1, Refuses DEF fixed, Still
<1> QED BY <1>1, <1>3, <1>4

\* Nothing is left to come at the last step, so nothing was missed.
LEMMA AcceptKeeps == ASSUME KernelInv, Accept PROVE KernelInv'
<1>1. /\ verdict = "none" /\ Now.op = "accept" /\ verdict' = "accepted"
      /\ seal' = IF mode = "root" /\ expecting THEN "recorded" ELSE seal
  BY DEF Accept, At
<1>u. /\ mode' = mode /\ expecting' = expecting /\ sound' = sound /\ baseline' = baseline
      /\ bytes' = bytes /\ inode' = inode /\ extra' = extra /\ moved' = moved
      /\ used' = used /\ fresh' = fresh /\ entry' = entry /\ handles' = handles /\ copy' = copy
      /\ changes' = changes
  BY DEF Accept, fixed, disk
<1>i. KernelTypes /\ PlaceInv /\ TaintInv /\ JudgeInv /\ UntouchedInv
  BY <1>1 DEF KernelInv
<1>2. part = 10 /\ line = Len(Routine) /\ Len(Routine) > 2 /\ Len(Routine) \in Nat /\ item = 1
  <2>1. part = 10 /\ line = Len(Routine) /\ Len(Routine) > 2 /\ Len(Routine) \in Nat
    BY <1>1, AtStep, Here DEF Fits
  <2> QED BY <2>1, <1>i DEF PlaceInv, Items
<1>3. ASSUME NEW s, s.op # "accept" PROVE ~Remains(s) /\ ~Pending(s)
  <2>1. ~Remains(s)
    BY <1>1, <1>2, <1>3 DEF Remains, Now
  <2>2. Items(part) = 1 /\ (item + 1)..Items(part) = {} /\ (part + 1)..10 = {}
    BY <1>2 DEF Items
  <2> QED BY <2>1, <2>2 DEF Pending, Remains
<1>4. ~Tainted
  <2> SUFFICES ASSUME NEW u \in used, u[2] = "other" PROVE FALSE
    BY DEF Tainted
  <2>1. u[1] \in fresh
    BY <1>2, <1>i DEF TaintInv
  <2>2. Remains(Step("same", u[1]))
    BY <1>2, <1>i, <2>1 DEF TaintInv, Remains
  <2>3. Step("same", u[1]).op # "accept"
    BY DEF Step
  <2> QED BY <1>3, <2>2, <2>3
<1>5. sound = Files
  <2>1. \A f \in Files : Judge(f).op # "accept"
    BY DEF Judge, Step
  <2>2. \A f \in Files \ sound : Pending(Judge(f)) \/ Tainted
    BY <1>i DEF JudgeInv
  <2>3. Files \ sound = {}
    BY <1>3, <1>4, <2>1, <2>2
  <2> QED BY <2>3, <1>i DEF KernelTypes
<1>6. expecting => baseline
  <2>1. Step("expected", "manifest").op # "accept"
    BY DEF Step
  <2>2. ~Pending(Step("expected", "manifest"))
    BY <1>3, <2>1
  <2> QED BY <2>2, <1>i DEF JudgeInv, KernelTypes
<1>7. handles = ToSet(Tables)
  BY <1>2, <1>i, TablesDistinct DEF PlaceInv
<1>8. \A u \in used : u[2] = "declared"
  BY <1>4, <1>i DEF Tainted, KernelTypes
<1>9. seal = "none"
  BY <1>1 DEF KernelInv, VerdictSound
<1>t. KernelTypes'
  BY <1>1, <1>u, <1>i, <1>9 DEF KernelTypes
<1>w. UntouchedInv'
  BY <1>u, <1>i, <1>4 DEF UntouchedInv, Tainted
<1>v. VerdictSound'
  BY <1>1, <1>u, <1>i, <1>5, <1>6, <1>7, <1>8, <1>9 DEF VerdictSound, KernelTypes
<1> QED BY <1>1, <1>t, <1>w, <1>v DEF KernelInv

\* The acceptance seal is taken and consumed after the verdict.
LEMMA SealKeeps == ASSUME KernelInv, TakeSeal \/ ConsumeSeal PROVE KernelInv'
<1>1. seal # "none" /\ seal' \in {"taken", "consumed"} /\ verdict = "accepted"
  BY DEF TakeSeal, ConsumeSeal, KernelInv, VerdictSound
<1>u. /\ mode' = mode /\ expecting' = expecting /\ sound' = sound /\ baseline' = baseline
      /\ bytes' = bytes /\ inode' = inode /\ extra' = extra /\ moved' = moved
      /\ used' = used /\ fresh' = fresh /\ entry' = entry /\ handles' = handles /\ copy' = copy
      /\ changes' = changes /\ verdict' = verdict
  BY DEF TakeSeal, ConsumeSeal, fixed, disk
<1>t. KernelTypes'
  BY <1>1, <1>u DEF KernelInv, KernelTypes
<1>w. UntouchedInv'
  BY <1>u DEF KernelInv, UntouchedInv, Tainted
<1>v. VerdictSound'
  BY <1>1, <1>u DEF KernelInv, VerdictSound
<1> QED BY <1>1, <1>u, <1>t, <1>w, <1>v DEF KernelInv

(***************************************************************************)
(* Other processes.                                                        *)
(***************************************************************************)

\* A change that leaves a changed reading visible is harmless.
LEMMA ChangeKeeps ==
    ASSUME KernelInv, Changing, Kept, KernelTypes', copy' = copy \/ (copy = "declared" /\ copy' = "other"),
           \A g \in fresh : bytes[g][entry[g]] = "other" => bytes'[g][entry[g]] = "other"
    PROVE  KernelInv'
<1>1. verdict = "none" /\ verdict' = "none" /\ changes' = changes + 1
  BY DEF Changing, Kept
<1>u. /\ mode' = mode /\ expecting' = expecting /\ sound' = sound /\ baseline' = baseline
      /\ part' = part /\ item' = item /\ line' = line /\ used' = used /\ fresh' = fresh
      /\ entry' = entry /\ handles' = handles /\ seal' = seal
  BY DEF Kept, fixed, at
<1>i. KernelTypes /\ PlaceInv /\ TaintInv /\ JudgeInv /\ UntouchedInv
  BY <1>1 DEF KernelInv
<1>r. Routine' = Routine
  BY <1>u DEF Routine
<1>2. PlaceInv'
  BY <1>i, <1>u, <1>r DEF PlaceInv
<1>3. TaintInv'
  BY <1>i, <1>u, <1>r DEF TaintInv
<1>4. JudgeInv'
  <2>1. \A s : Pending(s)' <=> Pending(s)
    BY <1>u, <1>r DEF Pending
  <2>2. Tainted' <=> Tainted
    BY <1>u DEF Tainted
  <2> QED BY <1>i, <1>u, <2>1, <2>2 DEF JudgeInv, Judge
<1>5. UntouchedInv'
  BY <1>1, <1>i DEF UntouchedInv, KernelTypes
<1>6. VerdictSound'
  BY <1>1, <1>u DEF KernelInv, VerdictSound
<1> QED BY <1>2, <1>3, <1>4, <1>5, <1>6 DEF KernelInv

\* The types of what a change leaves alone.
LEMMA ChangeTypes ==
    ASSUME KernelInv, Changing, Kept, bytes' \in [Files -> [0..1 -> {"declared", "other"}]],
           inode' \in [Files -> 0..1], extra' \in BOOLEAN, moved' \in BOOLEAN,
           copy' \in {"none", "declared", "other"}
    PROVE  KernelTypes'
<1>u. /\ mode' = mode /\ expecting' = expecting /\ sound' = sound /\ baseline' = baseline
      /\ used' = used /\ fresh' = fresh /\ entry' = entry /\ seal' = seal /\ verdict' = verdict
      /\ changes' = changes + 1
  BY DEF Kept, fixed, Changing
<1> QED BY <1>u DEF KernelInv, KernelTypes

\* A rewrite makes a reading more visible, never less.
LEMMA RewriteKeeps == ASSUME KernelInv, NEW f \in Files, Rewrite(f) PROVE KernelInv'
<1>i. KernelTypes
  BY DEF KernelInv
<1>1. /\ Changing /\ Kept /\ bytes' = [bytes EXCEPT ![f][inode[f]] = "other"]
      /\ inode' = inode /\ extra' = extra /\ moved' = moved /\ copy' = copy
  BY DEF Rewrite
<1>2. bytes' \in [Files -> [0..1 -> {"declared", "other"}]]
  BY <1>1, <1>i DEF KernelTypes
<1>3. KernelTypes'
  BY <1>1, <1>2, <1>i, ChangeTypes DEF KernelTypes
<1>4. \A g \in fresh : bytes[g][entry[g]] = "other" => bytes'[g][entry[g]] = "other"
  <2>1. fresh \subseteq Files
    BY <1>i DEF KernelTypes, Files, Leaves
  <2>2. /\ bytes \in [Files -> [0..1 -> {"declared", "other"}]] /\ entry \in [Files -> 0..2]
        /\ inode[f] \in 0..1
    BY <1>i DEF KernelTypes
  <2> SUFFICES ASSUME NEW g \in fresh, bytes[g][entry[g]] = "other" PROVE bytes'[g][entry[g]] = "other"
    OBVIOUS
  <2>3. CASE g # f
    <3>1. bytes'[g] = bytes[g]
      BY <1>1, <2>1, <2>2, <2>3
    <3> QED BY <3>1
  <2>4. CASE g = f
    <3>1. bytes'[f] = [bytes[f] EXCEPT ![inode[f]] = "other"]
      BY <1>1, <2>2
    <3>2. \A i : bytes'[f][i] = bytes[f][i] \/ bytes'[f][i] = "other"
      BY <3>1, <2>2
    <3> QED BY <2>4, <3>2
  <2> QED BY <2>3, <2>4
<1> QED BY <1>1, <1>3, <1>4, ChangeKeeps

\* Bytes are put back only where nothing was just read.
LEMMA PutBackKeeps == ASSUME KernelInv, NEW f \in Files, PutBack(f) PROVE KernelInv'
<1>i. KernelTypes
  BY DEF KernelInv
<1>1. /\ Changing /\ Kept /\ bytes' = [bytes EXCEPT ![f][inode[f]] = "declared"] /\ f \notin fresh
      /\ inode' = inode /\ extra' = extra /\ moved' = moved /\ copy' = copy
  BY DEF PutBack
<1>2. bytes' \in [Files -> [0..1 -> {"declared", "other"}]]
  BY <1>1, <1>i DEF KernelTypes
<1>3. KernelTypes'
  BY <1>1, <1>2, <1>i, ChangeTypes DEF KernelTypes
<1>4. \A g \in fresh : bytes'[g] = bytes[g]
  BY <1>1, <1>i DEF KernelTypes, Files, Leaves
<1> QED BY <1>1, <1>3, <1>4, ChangeKeeps

\* The recorded inode keeps its bytes when its name shows another.
LEMMA ReplaceKeeps == ASSUME KernelInv, NEW f \in Files, Replace(f) PROVE KernelInv'
<1>i. KernelTypes
  BY DEF KernelInv
<1>1. /\ Changing /\ Kept /\ inode' = [inode EXCEPT ![f] = 1 - @]
      /\ bytes' = bytes /\ extra' = extra /\ moved' = moved /\ copy' = copy
  BY DEF Replace
<1>2. inode' \in [Files -> 0..1]
  BY <1>1, <1>i DEF KernelTypes
<1>3. KernelTypes'
  BY <1>1, <1>2, <1>i, ChangeTypes DEF KernelTypes
<1> QED BY <1>1, <1>3, ChangeKeeps

\* Names outside the manifest are no readings.
LEMMA AddOrMoveKeeps == ASSUME KernelInv, AddOrMove PROVE KernelInv'
<1>i. KernelTypes
  BY DEF KernelInv
<1>1. /\ Changing /\ Kept /\ inode' = inode /\ bytes' = bytes /\ copy' = copy
      /\ extra' \in BOOLEAN /\ moved' \in BOOLEAN
  BY <1>i DEF AddOrMove, KernelTypes
<1>3. KernelTypes'
  BY <1>1, <1>i, ChangeTypes DEF KernelTypes
<1> QED BY <1>1, <1>3, ChangeKeeps

\* A touched copy never becomes the declared one again.
LEMMA TouchCopyKeeps == ASSUME KernelInv, TouchCopy PROVE KernelInv'
<1>i. KernelTypes
  BY DEF KernelInv
<1>1. /\ Changing /\ Kept /\ inode' = inode /\ bytes' = bytes /\ extra' = extra /\ moved' = moved
      /\ copy = "declared" /\ copy' = "other"
  BY DEF TouchCopy, disk
<1>3. KernelTypes'
  BY <1>1, <1>i, ChangeTypes DEF KernelTypes
<1> QED BY <1>1, <1>3, ChangeKeeps

(***************************************************************************)
(* The theorems.                                                           *)
(***************************************************************************)

\* A kernel that has done nothing has everything still to do.
LEMMA KernelStarts == VInit => KernelInv
<1> SUFFICES ASSUME VInit PROVE KernelInv
  OBVIOUS
<1>1. /\ mode \in {"path", "root"} /\ expecting \in BOOLEAN /\ part = 1 /\ item = 1 /\ line = 1
      /\ Routine = Inventory(mode) /\ Items(1) = 1
  BY DEF VInit, Routine, Program, Items
<1>2. /\ Len(Routine) \in Nat \ {0} /\ DOMAIN Routine = 1..Len(Routine)
      /\ \A f \in Leaves : Step("digest", f) \in ToSet(Routine)
  <2>1. Inventory(mode) \in Seq(Steps({"hold", "exact", "manifest"}, {"digest"}))
        /\ Len(Inventory(mode)) \in Nat \ {0}
        /\ \A f \in Leaves : Step("digest", f) \in ToSet(Inventory(mode))
    BY InventorySteps
  <2> QED BY <1>1, <2>1, LenProperties
<1>3. \A f \in Leaves : \E j \in line..Len(Routine) : Routine[j] = Step("digest", f)
  BY <1>1, <1>2 DEF ToSet
<1>b. bytes \in [Files -> [0..1 -> {"declared", "other"}]] /\ \A f \in Files : bytes[f][0] = "declared"
  BY DEF VInit
<1>t. KernelTypes
  <2>1. sound \in SUBSET Files
    BY DEF VInit
  <2>2. inode \in [Files -> 0..1] /\ entry \in [Files -> 0..2]
    BY DEF VInit
  <2> QED BY <1>b, <2>1, <2>2 DEF VInit, KernelTypes
<1>p. PlaceInv
  <2>1. handles = {Tables[i] : i \in {j \in 1..Len(Tables) : part > 2 \/ (part = 2 /\ j < item)}}
    BY DEF VInit
  <2> QED BY <1>1, <1>2, <1>3, <2>1 DEF VInit, PlaceInv
<1>a. TaintInv
  BY DEF VInit, TaintInv
<1>j. JudgeInv
  <2>1. part + 1 = 2
    BY <1>1
  <2>2. \A f \in Files : Pending(Judge(f))
    BY <1>1, <2>1, Judged DEF Pending
  <2>3. expecting => Pending(Step("expected", "manifest"))
    BY <1>1, <2>1, Judged DEF Pending
  <2> QED BY <2>2, <2>3 DEF JudgeInv
<1>w. UntouchedInv
  BY <1>b DEF VInit, UntouchedInv, Tainted
<1>v. VerdictSound
  BY DEF VInit, VerdictSound
<1> QED BY <1>t, <1>p, <1>a, <1>j, <1>w, <1>v DEF KernelInv

\* Every step keeps the invariant.
LEMMA KernelSteps == KernelInv /\ [VNext]_vvars => KernelInv'
<1> SUFFICES ASSUME KernelInv, [VNext]_vvars PROVE KernelInv'
  OBVIOUS
<1>1. CASE HoldRoot \/ CheckTree \/ CheckManifest \/ InitialDigest \/ Reassert
  BY <1>1, HoldRootKeeps, CheckTreeKeeps, CheckManifestKeeps, InitialDigestKeeps, ReassertKeeps
<1>2. CASE OpenEntry \/ ReadEntry \/ CloseEntry \/ AbandonEntry \/ CompareFacts
  BY <1>2, OpenEntryKeeps, ReadEntryKeeps, CloseEntryKeeps, AbandonEntryKeeps, CompareFactsKeeps
<1>3. CASE IssueHandle \/ CheckHandles \/ CopyDatabase \/ CheckCopy \/ CompareDatabase
  BY <1>3, IssueHandleKeeps, CheckHandlesKeeps, CopyDatabaseKeeps, CheckCopyKeeps, CompareDatabaseKeeps
<1>4. CASE CompareExpected \/ Accept \/ TakeSeal \/ ConsumeSeal
  BY <1>4, CompareExpectedKeeps, AcceptKeeps, SealKeeps
<1>5. CASE AddOrMove \/ TouchCopy
  BY <1>5, AddOrMoveKeeps, TouchCopyKeeps
<1>6. ASSUME NEW f \in Files, Rewrite(f) \/ PutBack(f) \/ Replace(f) PROVE KernelInv'
  BY <1>6, RewriteKeeps, PutBackKeeps, ReplaceKeeps
<1>7. CASE UNCHANGED vvars
  <2>u. /\ mode' = mode /\ expecting' = expecting /\ sound' = sound /\ baseline' = baseline
        /\ bytes' = bytes /\ inode' = inode /\ extra' = extra /\ moved' = moved
        /\ part' = part /\ item' = item /\ line' = line /\ entry' = entry /\ used' = used
        /\ fresh' = fresh /\ handles' = handles /\ copy' = copy /\ verdict' = verdict
        /\ seal' = seal /\ changes' = changes
    BY <1>7 DEF vvars, fixed, disk, at
  <2>r. Routine' = Routine
    BY <2>u DEF Routine
  <2>1. KernelTypes' /\ UntouchedInv' /\ VerdictSound'
    BY <2>u DEF KernelInv, KernelTypes, UntouchedInv, VerdictSound, Tainted
  <2>2. verdict = "none" => PlaceInv' /\ TaintInv'
    BY <2>u, <2>r DEF KernelInv, PlaceInv, TaintInv
  <2>3. verdict = "none" => JudgeInv'
    <3>1. \A s : Pending(s)' <=> Pending(s)
      BY <2>u, <2>r DEF Pending
    <3>2. Tainted' <=> Tainted
      BY <2>u DEF Tainted
    <3> QED BY <2>u, <3>1, <3>2 DEF KernelInv, JudgeInv, Judge
  <2> QED BY <2>u, <2>1, <2>2, <2>3 DEF KernelInv
<1> QED
  BY <1>1, <1>2, <1>3, <1>4, <1>5, <1>6, <1>7 DEF VNext, Kernel

\* The inductive invariant holds in every state of a verification.
THEOREM Verification == VSpec => []KernelInv
<1> QED BY KernelStarts, KernelSteps, PTL DEF VSpec

\* For every list of tables and reports and any number of changes by others: an
\* accepted artifact was judged by its declared bytes alone and is sound in every
\* part, a seal exists only for an accepted baseline, and what nobody touched is
\* refused only for a fault (ArtifactVerificationKernel).
THEOREM VerdictsAreSound == VSpec => []VerdictSound
<1>1. KernelInv => VerdictSound
  BY DEF KernelInv
<1> QED BY <1>1, Verification, PTL

=============================================================================
