---------------------------- MODULE EffectsProofs ----------------------------
(***************************************************************************)
(* Facts about what whole requests make of the sessions, for any tables.   *)
(***************************************************************************)
EXTENDS RequestEffects, FiniteSetTheorems, TLAPS

-----------------------------------------------------------------------------
(* The items of a snapshot in any order: AfterItems is defined by recursion *)
(* on the set of items done.                                               *)

LEMMA SmallestMember ==
    ASSUME NEW C, C # {}, \A X \in C : IsFiniteSet(X)
    PROVE  \E X \in C : \A Y \in C : Y \subseteq X => Y = X
<1> DEFINE All == UNION C
<1>1. IsWellFoundedOn(StrictSubsetOrdering(All), FiniteSubsetsOf(All))
    BY FS_StrictSubsetOrderingWellFounded, Zenon
<1>2. C \subseteq FiniteSubsetsOf(All)
    BY DEF FiniteSubsetsOf
<1>3. PICK X \in C : \A Y \in C : ~ (<<Y, X>> \in StrictSubsetOrdering(All))
    <2> HIDE DEF All
    <2> QED  BY <1>1, <1>2, WFMin, Zenon
<1>4. ASSUME NEW Y \in C, Y \subseteq X, Y # X
      PROVE  FALSE
    <2>1. Y \in SUBSET All /\ X \in SUBSET All
        OBVIOUS
    <2>2. <<Y, X>> \in StrictSubsetOrdering(All)
        BY <1>4, <2>1 DEF StrictSubsetOrdering
    <2> QED  BY <2>2, <1>3
<1> QED  BY <1>4

Start(table) == {[flushed |-> table, objects |-> table, matched |-> {}]}

\* The outcomes of a set of items, from those of the sets with one item less.
Last(p, order, g, done) ==
    UNION {UNION {AfterItem(p, x, item, order) : x \in g[done \ {item}]} : item \in done}

Unfolds(p, table, order, S, g) ==
    g = [done \in SUBSET S |-> IF done = {} THEN Start(table) ELSE Last(p, order, g, done)]

LEMMA UnfoldsAt ==
    ASSUME NEW p, NEW order, NEW table, NEW S, NEW g,
           Unfolds(p, table, order, S, g), NEW d \in SUBSET S
    PROVE  /\ d = {} => g[d] = Start(table)
           /\ d # {} => g[d] = Last(p, order, g, d)
<1>1. g[d] = [done \in SUBSET S |-> IF done = {} THEN Start(table) ELSE Last(p, order, g, done)][d]
    BY Zenon DEF Unfolds
<1> QED  BY <1>1, Zenon

LEMMA InLast ==
    ASSUME NEW p, NEW order, NEW g, NEW d, NEW y
    PROVE  y \in Last(p, order, g, d) <=>
               \E i \in d : \E x \in g[d \ {i}] : y \in AfterItem(p, x, i, order)
BY DEF Last

LEMMA LastAgrees ==
    ASSUME NEW p, NEW order, NEW g, NEW h, NEW d, \A i \in d : g[d \ {i}] = h[d \ {i}]
    PROVE  Last(p, order, g, d) = Last(p, order, h, d)
<1>1. ASSUME NEW y
      PROVE  y \in Last(p, order, g, d) <=> y \in Last(p, order, h, d)
    <2>1. \A i \in d : (\E x \in g[d \ {i}] : y \in AfterItem(p, x, i, order)) <=>
                           (\E x \in h[d \ {i}] : y \in AfterItem(p, x, i, order))
        OBVIOUS
    <2> QED  BY <2>1, InLast, Zenon
<1> QED  BY <1>1

LEMMA UnfoldsOneWay ==
    ASSUME NEW p, NEW order, NEW table, NEW S, NEW T, S \subseteq T, IsFiniteSet(S),
           NEW g, Unfolds(p, table, order, S, g),
           NEW h, Unfolds(p, table, order, T, h)
    PROVE  \A d \in SUBSET S : g[d] = h[d]
<1> DEFINE Differ == {d \in SUBSET S : g[d] # h[d]}
<1>1. ASSUME Differ # {}
      PROVE  FALSE
    <2>1. \A d \in Differ : IsFiniteSet(d)
        BY FS_Subset
    <2>2. PICK d \in Differ : \A c \in Differ : c \subseteq d => c = d
        <3> HIDE DEF Differ
        <3> QED  BY <1>1, <2>1, SmallestMember
    <2>3. d \in SUBSET S /\ d \in SUBSET T /\ g[d] # h[d]
        OBVIOUS
    <2>4. CASE d = {}
        BY <2>3, <2>4, UnfoldsAt
    <2>5. CASE d # {}
        <3>1. \A i \in d : g[d \ {i}] = h[d \ {i}]
            BY <2>2, <2>3
        <3>2. Last(p, order, g, d) = Last(p, order, h, d)
            BY <3>1, LastAgrees
        <3> QED  BY <2>3, <2>5, <3>2, UnfoldsAt
    <2> QED  BY <2>4, <2>5
<1> QED  BY <1>1

\* There is such a function for any finite set of items.
LEMMA UnfoldingExists ==
    ASSUME NEW p, NEW order, NEW table, NEW S, IsFiniteSet(S)
    PROVE  \E g : Unfolds(p, table, order, S, g)
<1> DEFINE Without == {T \in SUBSET S : ~ \E g : Unfolds(p, table, order, T, g)}
           G(d) == CHOOSE g : Unfolds(p, table, order, d, g)
<1>1. ASSUME Without # {}
      PROVE  FALSE
    <2>1. \A T \in Without : IsFiniteSet(T)
        BY FS_Subset
    <2>2. PICK T \in Without : \A U \in Without : U \subseteq T => U = T
        <3> HIDE DEF Without
        <3> QED  BY <1>1, <2>1, SmallestMember
    <2>3. T \in SUBSET S /\ ~ \E g : Unfolds(p, table, order, T, g)
        OBVIOUS
    <2>4. ASSUME NEW d, d \subseteq T, d # T
          PROVE  Unfolds(p, table, order, d, G(d)) /\ IsFiniteSet(d)
        <3>1. d \in SUBSET S
            BY <2>3, <2>4
        <3>2. \E g : Unfolds(p, table, order, d, g)
            BY <2>2, <2>4, <3>1
        <3> QED  BY <3>1, <3>2, FS_Subset
    <2> DEFINE h == [d \in SUBSET T |->
                        IF d = {} THEN Start(table)
                        ELSE UNION {UNION {AfterItem(p, x, item, order) :
                                           x \in G(d \ {item})[d \ {item}]} : item \in d}]
    <2> HIDE DEF G
    <2>5. ASSUME NEW c, c \subseteq T, c # T
          PROVE  h[c] = G(c)[c]
        <3>1. Unfolds(p, table, order, c, G(c)) /\ IsFiniteSet(c)
            BY <2>4, <2>5
        <3>2. CASE c = {}
            <4>1. G(c)[c] = Start(table)
                BY <3>1, <3>2, UnfoldsAt
            <4> QED  BY <3>2, <4>1
        <3>3. CASE c # {}
            <4>1. \A i \in c : G(c \ {i})[c \ {i}] = G(c)[c \ {i}]
                <5>1. ASSUME NEW i \in c
                      PROVE  G(c \ {i})[c \ {i}] = G(c)[c \ {i}]
                    <6>1. c \ {i} \subseteq T /\ c \ {i} # T /\ c \ {i} \subseteq c
                        BY <2>5
                    <6>2. Unfolds(p, table, order, c \ {i}, G(c \ {i})) /\ IsFiniteSet(c \ {i})
                        BY <2>4, <6>1
                    <6>3. c \ {i} \in SUBSET (c \ {i})
                        OBVIOUS
                    <6>4. \A d \in SUBSET (c \ {i}) : G(c \ {i})[d] = G(c)[d]
                        <7> DEFINE rest == c \ {i}
                                   g == G(rest)
                                   f == G(c)
                        <7>1. /\ rest \subseteq c
                              /\ IsFiniteSet(rest)
                              /\ Unfolds(p, table, order, rest, g)
                              /\ Unfolds(p, table, order, c, f)
                            BY <3>1, <6>1, <6>2
                        <7> HIDE DEF rest, g, f
                        <7>2. \A d \in SUBSET rest : g[d] = f[d]
                            BY <7>1, UnfoldsOneWay
                        <7> QED  BY <7>2 DEF rest, g, f
                    <6> QED  BY <6>3, <6>4, Zenon
                <5> QED  BY <5>1
            <4>2. h[c] = UNION {UNION {AfterItem(p, x, item, order) :
                                       x \in G(c \ {item})[c \ {item}]} : item \in c}
                BY <2>5, <3>3
            <4>3. UNION {UNION {AfterItem(p, x, item, order) : x \in G(c \ {item})[c \ {item}]} :
                         item \in c} = Last(p, order, G(c), c)
                BY <4>1 DEF Last
            <4>4. G(c)[c] = Last(p, order, G(c), c)
                BY <3>1, <3>3, UnfoldsAt
            <4> QED  BY <4>2, <4>3, <4>4
        <3> QED  BY <3>2, <3>3
    <2>6. ASSUME NEW d \in SUBSET T, d # {}
          PROVE  h[d] = Last(p, order, h, d)
        <3>1. \A i \in d : G(d \ {i})[d \ {i}] = h[d \ {i}]
            <4>1. ASSUME NEW i \in d
                  PROVE  G(d \ {i})[d \ {i}] = h[d \ {i}]
                <5>1. d \ {i} \subseteq T /\ d \ {i} # T
                    OBVIOUS
                <5> HIDE DEF h
                <5> QED  BY <2>5, <5>1
            <4> QED  BY <4>1
        <3>2. h[d] = UNION {UNION {AfterItem(p, x, item, order) : x \in G(d \ {item})[d \ {item}]} :
                            item \in d}
            BY <2>6
        <3> HIDE DEF h
        <3>3. UNION {UNION {AfterItem(p, x, item, order) : x \in G(d \ {item})[d \ {item}]} :
                     item \in d} = Last(p, order, h, d)
            BY <3>1 DEF Last
        <3> QED  BY <3>2, <3>3
    <2>7. h[{}] = Start(table)
        OBVIOUS
    <2>8. h = [d \in SUBSET T |-> h[d]]
        OBVIOUS
    <2>9. Unfolds(p, table, order, T, h)
        <3> HIDE DEF h
        <3>1. \A d \in SUBSET T :
                  h[d] = IF d = {} THEN Start(table) ELSE Last(p, order, h, d)
            BY <2>6, <2>7
        <3> QED  BY <2>8, <3>1 DEF Unfolds
    <2> QED  BY <2>3, <2>9
<1>2. S \notin Without
    BY <1>1
<1> QED  BY <1>2

LEMMA AfterItemsUnfold ==
    ASSUME NEW p, NEW order, NEW table, NEW S, IsFiniteSet(S)
    PROVE  \E g : Unfolds(p, table, order, S, g) /\ AfterItems(p, table, S, order) = g[S]
<1> DEFINE g == CHOOSE g : Unfolds(p, table, order, S, g)
<1>1. Unfolds(p, table, order, S, g)
    BY UnfoldingExists
<1>2. AfterItems(p, table, S, order) = g[S]
    BY DEF AfterItems, Unfolds, Start, Last
<1> QED  BY <1>1, <1>2

\* Nothing done leaves the rows, and anything done ends with one of the items.
LEMMA NoItems ==
    ASSUME NEW p, NEW table, NEW order
    PROVE  AfterItems(p, table, {}, order) = Start(table)
<1>1. PICK g : Unfolds(p, table, order, {}, g) /\ AfterItems(p, table, {}, order) = g[{}]
    BY AfterItemsUnfold, FS_EmptySet
<1> QED  BY <1>1, UnfoldsAt

LEMMA LastItem ==
    ASSUME NEW p, NEW table, NEW order, NEW S, IsFiniteSet(S), NEW i \in S,
           NEW x \in AfterItems(p, table, S \ {i}, order),
           NEW y \in AfterItem(p, x, i, order)
    PROVE  y \in AfterItems(p, table, S, order)
<1> DEFINE R == S \ {i}
<1>1. PICK g : Unfolds(p, table, order, S, g) /\ AfterItems(p, table, S, order) = g[S]
    BY AfterItemsUnfold
<1>2. R \subseteq S /\ IsFiniteSet(R)
    BY FS_Subset
<1> HIDE DEF R
<1>3. PICK h : Unfolds(p, table, order, R, h) /\ AfterItems(p, table, R, order) = h[R]
    BY <1>2, AfterItemsUnfold
<1>4. h[R] = g[R]
    <2>1. \A d \in SUBSET R : h[d] = g[d]
        BY <1>1, <1>2, <1>3, UnfoldsOneWay
    <2> QED  BY <2>1
<1>5. x \in g[S \ {i}]
    BY <1>3, <1>4 DEF R
<1>6. y \in Last(p, order, g, S)
    <2>1. \E j \in S : \E z \in g[S \ {j}] : y \in AfterItem(p, z, j, order)
        BY <1>5, Zenon
    <2> QED  BY <2>1, InLast
<1>7. S \in SUBSET S /\ S # {}
    OBVIOUS
<1>8. g[S] = Last(p, order, g, S)
    BY <1>1, <1>7, UnfoldsAt
<1> QED  BY <1>1, <1>6, <1>8

LEMMA MatchedItem ==
    ASSUME NEW p, NEW i, NEW order, NEW table, NEW objs, NEW done,
           NEW s \in MatchedWith(p, table, objs, i)
    PROVE  [flushed |-> table, objects |-> [objs EXCEPT ![s] = RefreshRow(@, p, i)],
            matched |-> done \cup {s}]
               \in AfterItem(p, [flushed |-> table, objects |-> objs, matched |-> done], i, order)
<1> DEFINE x == [flushed |-> table, objects |-> objs, matched |-> done]
           found == MatchedWith(p, x.flushed, x.objects, i)
           new(t) == [x EXCEPT !.objects[t] = RefreshRow(@, p, i), !.matched = @ \cup {t}]
<1>1. found # {} /\ s \in found
    OBVIOUS
<1>2. AfterItem(p, x, i, order) = {new(t) : t \in found}
    <2> HIDE DEF x
    <2> QED  BY <1>1, Zenon DEF AfterItem
<1>3. new(s) = [flushed |-> table, objects |-> [objs EXCEPT ![s] = RefreshRow(@, p, i)],
                matched |-> done \cup {s}]
    <2> DEFINE o == [objs EXCEPT ![s] = RefreshRow(@, p, i)]
               m == done \cup {s}
    <2>1. new(s) = [x EXCEPT !.objects = o, !.matched = m]
        BY Zenon
    <2> HIDE DEF new, o, m
    <2>2. new(s) = [flushed |-> table, objects |-> o, matched |-> m]
        BY <2>1
    <2> QED  BY <2>2 DEF o, m
<1> HIDE DEF new, found
<1>4. new(s) \in {new(t) : t \in found}
    BY <1>1
<1> QED  BY <1>2, <1>3, <1>4

LEMMA InsertedItem ==
    ASSUME NEW p, NEW i, NEW order, NEW table, NEW objs, NEW done,
           MatchedWith(p, table, objs, i) = {},
           NEW later \in Inserted(objs, ReconciledRow(p, i), order)
    PROVE  [flushed |-> later, objects |-> later,
            matched |-> done \cup {s \in SessionId : later[s] # objs[s]}]
               \in AfterItem(p, [flushed |-> table, objects |-> objs, matched |-> done], i, order)
<1> DEFINE x == [flushed |-> table, objects |-> objs, matched |-> done]
           found == MatchedWith(p, x.flushed, x.objects, i)
           new(t) == [flushed |-> t, objects |-> t,
                      matched |-> x.matched \cup {s \in SessionId : t[s] # x.objects[s]}]
<1>1. found = {} /\ x.objects = objs /\ x.matched = done
    OBVIOUS
<1>2. AfterItem(p, x, i, order) = {new(t) : t \in Inserted(x.objects, ReconciledRow(p, i), order)}
    <2> HIDE DEF x
    <2> QED  BY <1>1, Zenon DEF AfterItem
<1>3. new(later) = [flushed |-> later, objects |-> later,
                    matched |-> done \cup {s \in SessionId : later[s] # objs[s]}]
    BY <1>1
<1> HIDE DEF new, found
<1>4. new(later) \in {new(t) : t \in Inserted(x.objects, ReconciledRow(p, i), order)}
    BY <1>1
<1> QED  BY <1>2, <1>3, <1>4
=============================================================================
