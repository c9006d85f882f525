------------------------- MODULE ExecutionPartsProofs -------------------------
(***************************************************************************)
(* What holds of the parts of an execution for every value of the          *)
(* constants: the cache keeps the scripts used last, for any capacity; the *)
(* conversion accepts exactly the values it should, for any object graph   *)
(* and any limits; and the observer of a native call records what belongs  *)
(* to its operation and cleans up, whoever wins it, for any number of      *)
(* operations and threads.  The parts share no state, so each has an       *)
(* invariant and a specification of its own.                               *)
(***************************************************************************)
EXTENDS ScriptCache, ResultTraversal, CompletionObserver, FiniteSetTheorems, SequenceTheorems, TLAPS

----------------------------------------------------------------------------
(* The cache of compiled scripts. *)

\* The two lists agree as far as the shorter one goes.
Agrees(r, u) == \A i \in 1..Len(r) : r[i] = u[i]

\* No text twice in a list.
Distinct(s) == \A i, j \in 1..Len(s) : s[i] = s[j] => i = j

\* The list of recency is the beginning of the history, cut at the capacity.
IsBeginning(r, u) ==
  /\ r \in Seq(Code) /\ u \in Seq(Code) /\ Distinct(u)
  /\ Len(r) <= Capacity /\ Len(r) <= Len(u)
  /\ Len(r) \in {Capacity, Len(u)}
  /\ Agrees(r, u)

CacheInv ==
  /\ IsBeginning(recency, used)
  /\ DOMAIN entries = ToSet(recency)
  /\ \A c \in DOMAIN entries : entries[c] \in Script /\ entries[c].text = c /\ c \notin Broken
  /\ text \in [Executor -> Code \cup {None}]
  /\ script \in [Executor -> Script \cup {None}]
  /\ \A e \in Executor : script[e] # None => script[e].text = text[e]

\* The place of a text is where it stands, or just past the end.
LEMMA PlaceOf ==
  ASSUME NEW s \in Seq(Code), NEW c
  PROVE  /\ Place(s, c) \in 1..(Len(s) + 1)
         /\ Place(s, c) <= Len(s) => s[Place(s, c)] = c
         /\ Place(s, c) > Len(s) => \A i \in 1..Len(s) : s[i] # c
         /\ c \in ToSet(s) <=> Place(s, c) <= Len(s)
<1>1. DOMAIN s = 1..Len(s) /\ Len(s) \in Nat
  OBVIOUS
<1>2. c \in ToSet(s) <=> \E i \in 1..Len(s) : s[i] = c
  BY <1>1 DEF ToSet
<1>3. CASE c \in ToSet(s)
  BY <1>1, <1>2, <1>3 DEF Place
<1>4. CASE c \notin ToSet(s)
  BY <1>1, <1>2, <1>4 DEF Place
<1> QED BY <1>3, <1>4

\* What moving a text to the front does, place by place.
LEMMA Touched ==
  ASSUME NEW s \in Seq(Code), NEW c \in Code
  PROVE  /\ Touch(s, c) \in Seq(Code)
         /\ Len(Touch(s, c)) = IF Place(s, c) > Len(s) THEN Len(s) + 1 ELSE Len(s)
         /\ Touch(s, c)[1] = c
         /\ \A k \in 2..Len(Touch(s, c)) :
              Touch(s, c)[k] = IF k <= Place(s, c) THEN s[k - 1] ELSE s[k]
<1> DEFINE p == Place(s, c)
           n == IF p > Len(s) THEN p ELSE Len(s)
<1>1. p \in 1..(Len(s) + 1) /\ Len(s) \in Nat
  BY PlaceOf
<1>2. n \in Nat \ {0} /\ n = IF p > Len(s) THEN Len(s) + 1 ELSE Len(s)
  BY <1>1
<1>3. Touch(s, c) = [k \in 1..n |-> IF k = 1 THEN c ELSE IF k <= p THEN s[k - 1] ELSE s[k]]
  BY DEF Touch
<1> HIDE DEF p
<1>4. \A k \in 1..n : (IF k = 1 THEN c ELSE IF k <= p THEN s[k - 1] ELSE s[k]) \in Code
  BY <1>1, <1>2
<1>5. Touch(s, c) \in [1..n -> Code]
  BY <1>3, <1>4
<1>6. Touch(s, c) \in Seq(Code) /\ Len(Touch(s, c)) = n
  BY <1>2, <1>5, SeqDef, LenProperties
<1> QED BY <1>2, <1>3, <1>6 DEF p

\* Touching a text leaves every text once in the list.
LEMMA TouchedDistinct ==
  ASSUME NEW s \in Seq(Code), NEW c \in Code, Distinct(s)
  PROVE  Distinct(Touch(s, c))
<1> DEFINE t == Touch(s, c)
           p == Place(s, c)
<1>1. /\ Len(t) \in Nat /\ Len(s) \in Nat /\ p \in 1..(Len(s) + 1)
      /\ Len(t) = IF p > Len(s) THEN Len(s) + 1 ELSE Len(s)
  BY PlaceOf, Touched
<1>2. t[1] = c /\ \A k \in 2..Len(t) : t[k] = IF k <= p THEN s[k - 1] ELSE s[k]
  BY Touched
<1>3. \A i \in 1..Len(s) : s[i] = c => i = p
  BY PlaceOf, <1>1 DEF Distinct
<1> HIDE DEF t, p
<1>4. \A k \in 2..Len(t) : t[k] # c
  BY <1>1, <1>2, <1>3
<1>5. \A i, j \in 2..Len(t) : t[i] = t[j] => i = j
  BY <1>1, <1>2 DEF Distinct
<1>6. \A i, j \in 1..Len(t) : t[i] = t[j] => i = j
  BY <1>1, <1>2, <1>4, <1>5
<1> QED BY <1>6 DEF Distinct, t

\* A text has the same place in the beginning, or none there.
LEMMA SamePlace ==
  ASSUME NEW r, NEW u, IsBeginning(r, u), NEW c \in Code
  PROVE  \/ Place(r, c) <= Len(r) /\ Place(u, c) = Place(r, c)
         \/ Place(r, c) = Len(r) + 1 /\ Place(u, c) \in (Len(r) + 1)..(Len(u) + 1)
<1>1. /\ r \in Seq(Code) /\ u \in Seq(Code) /\ Len(r) \in Nat /\ Len(u) \in Nat
      /\ Len(r) <= Len(u) /\ Agrees(r, u) /\ Distinct(u)
  BY DEF IsBeginning
<1>2. CASE Place(r, c) <= Len(r)
  <2>1. Place(r, c) \in 1..Len(r) /\ u[Place(r, c)] = c
    BY <1>1, <1>2, PlaceOf DEF Agrees
  <2>2. Place(u, c) <= Len(u) /\ Place(u, c) \in 1..Len(u) /\ u[Place(u, c)] = c
    BY <1>1, <2>1, PlaceOf
  <2> QED BY <1>1, <1>2, <2>1, <2>2 DEF Distinct
<1>3. CASE Place(r, c) > Len(r)
  <2>1. Place(r, c) = Len(r) + 1 /\ \A i \in 1..Len(r) : r[i] # c
    BY <1>1, <1>3, PlaceOf
  <2>2. Place(u, c) \in 1..(Len(u) + 1) /\ (Place(u, c) <= Len(u) => u[Place(u, c)] = c)
    BY <1>1, PlaceOf
  <2> QED BY <1>1, <2>1, <2>2 DEF Agrees
<1>4. Place(r, c) \in Nat
  BY <1>1, PlaceOf
<1> QED BY <1>1, <1>2, <1>3, <1>4

\* The newest texts are the beginning of the list, as many as fit.
LEMMA NewestOf ==
  ASSUME NEW s \in Seq(Code)
  PROVE  /\ Newest(s) \in Seq(Code)
         /\ Len(Newest(s)) = IF Len(s) < Capacity THEN Len(s) ELSE Capacity
         /\ Agrees(Newest(s), s)
<1> DEFINE n == IF Len(s) < Capacity THEN Len(s) ELSE Capacity
<1>1. n \in Nat /\ n <= Len(s) /\ Len(s) \in Nat
  BY CacheAssumption
<1>2. Newest(s) = [i \in 1..n |-> s[i]]
  BY <1>1 DEF Newest
<1>3. Newest(s) \in [1..n -> Code]
  BY <1>1, <1>2
<1>4. Newest(s) \in Seq(Code) /\ Len(Newest(s)) = n
  BY <1>1, <1>3, SeqDef, LenProperties
<1> QED BY <1>2, <1>4 DEF Agrees

\* A use keeps the beginning, with an entry for the text or without one.
LEMMA UseKeepsBeginning ==
  ASSUME NEW r, NEW u, IsBeginning(r, u), NEW c \in Code
  PROVE  /\ c \in ToSet(r) => IsBeginning(Touch(r, c), Touch(u, c))
         /\ IsBeginning(Newest(Touch(r, c)), Touch(u, c))
         /\ Newest(Touch(r, c))[1] = c /\ 1 \in 1..Len(Newest(Touch(r, c)))
<1> DEFINE r1 == Touch(r, c)
           u1 == Touch(u, c)
           r2 == Newest(r1)
           p == Place(r, c)
           q == Place(u, c)
<1>1. /\ r \in Seq(Code) /\ u \in Seq(Code) /\ Distinct(u) /\ Agrees(r, u)
      /\ Len(r) \in Nat /\ Len(u) \in Nat /\ Capacity \in Nat \ {0}
      /\ Len(r) <= Capacity /\ Len(r) <= Len(u) /\ Len(r) \in {Capacity, Len(u)}
  BY CacheAssumption DEF IsBeginning
<1>2. /\ r1 \in Seq(Code) /\ u1 \in Seq(Code)
      /\ Len(r1) = (IF p > Len(r) THEN Len(r) + 1 ELSE Len(r))
      /\ Len(u1) = (IF q > Len(u) THEN Len(u) + 1 ELSE Len(u))
      /\ r1[1] = c /\ u1[1] = c
  BY <1>1, Touched
<1>3. /\ \A k \in 2..Len(r1) : r1[k] = IF k <= p THEN r[k - 1] ELSE r[k]
      /\ \A k \in 2..Len(u1) : u1[k] = IF k <= q THEN u[k - 1] ELSE u[k]
  BY <1>1, Touched
<1>4. \/ p \in 1..Len(r) /\ q = p
      \/ p = Len(r) + 1 /\ q \in (Len(r) + 1)..(Len(u) + 1)
  BY <1>1, SamePlace, PlaceOf
<1>5. Distinct(u1)
  BY <1>1, TouchedDistinct
<1>6. r2 \in Seq(Code) /\ Len(r2) = (IF Len(r1) < Capacity THEN Len(r1) ELSE Capacity)
      /\ Agrees(r2, r1)
  BY <1>2, NewestOf
<1>7. c \in ToSet(r) => p <= Len(r)
  BY <1>1, PlaceOf
<1> HIDE DEF r1, u1, r2, p, q
<1>8. Len(r1) \in Nat \ {0} /\ Len(u1) \in Nat /\ Len(r1) <= Len(u1)
  BY <1>1, <1>2, <1>4
<1>9. Agrees(r1, u1)
  <2>1. ASSUME NEW k \in 2..Len(r1) PROVE r1[k] = u1[k]
    <3>1. k \in 2..Len(u1) /\ (k <= p => k - 1 \in 1..Len(r)) /\ (k > p => k \in 1..Len(r))
      BY <1>1, <1>2, <1>4, <1>8
    <3>2. (k <= p <=> k <= q)
      BY <1>1, <1>2, <1>4, <3>1
    <3> QED BY <1>1, <1>3, <1>4, <3>1, <3>2 DEF Agrees
  <2> QED BY <1>2, <1>8, <2>1 DEF Agrees
<1>10. ASSUME c \in ToSet(r) PROVE IsBeginning(r1, u1)
  BY <1>1, <1>2, <1>4, <1>5, <1>7, <1>8, <1>9, <1>10 DEF IsBeginning
<1>11. Len(r2) \in {Capacity, Len(u1)} /\ Len(r2) <= Capacity /\ Len(r2) <= Len(u1)
       /\ Len(r2) \in Nat \ {0}
  <2>1. CASE p \in 1..Len(r) /\ q = p
    BY <1>1, <1>2, <1>6, <1>8, <2>1
  <2>2. CASE p = Len(r) + 1 /\ q \in (Len(r) + 1)..(Len(u) + 1)
    BY <1>1, <1>2, <1>6, <1>8, <2>2
  <2> QED BY <1>4, <2>1, <2>2
<1>12. Agrees(r2, u1)
  BY <1>6, <1>8, <1>9, <1>11 DEF Agrees
<1>13. IsBeginning(r2, u1)
  BY <1>2, <1>5, <1>6, <1>11, <1>12 DEF IsBeginning
<1>14. r2[1] = c /\ 1 \in 1..Len(r2)
  BY <1>2, <1>6, <1>11 DEF Agrees
<1> QED BY <1>10, <1>13, <1>14 DEF r1, u1, r2

\* What the beginning holds after a use: the text, and texts it held before.
LEMMA UseHolds ==
  ASSUME NEW r \in Seq(Code), NEW c \in Code
  PROVE  /\ ToSet(Newest(Touch(r, c))) \subseteq ToSet(r) \cup {c}
         /\ c \in ToSet(r) => ToSet(Touch(r, c)) = ToSet(r)
<1> DEFINE r1 == Touch(r, c)
           r2 == Newest(r1)
           p == Place(r, c)
<1>1. /\ r1 \in Seq(Code) /\ r1[1] = c /\ Len(r) \in Nat /\ p \in 1..(Len(r) + 1)
      /\ Len(r1) = (IF p > Len(r) THEN Len(r) + 1 ELSE Len(r))
      /\ \A k \in 2..Len(r1) : r1[k] = IF k <= p THEN r[k - 1] ELSE r[k]
  BY Touched, PlaceOf
<1>2. /\ r2 \in Seq(Code) /\ Agrees(r2, r1)
      /\ Len(r2) = (IF Len(r1) < Capacity THEN Len(r1) ELSE Capacity)
  BY <1>1, NewestOf
<1>3. /\ ToSet(r) = {r[i] : i \in 1..Len(r)}
      /\ ToSet(r1) = {r1[i] : i \in 1..Len(r1)}
      /\ ToSet(r2) = {r2[i] : i \in 1..Len(r2)}
  BY <1>1, <1>2 DEF ToSet
<1>4. p <= Len(r) => r[p] = c
  BY PlaceOf
<1>5. c \in ToSet(r) => p <= Len(r)
  BY PlaceOf
<1> HIDE DEF r1, r2, p
<1>6. ToSet(r1) \subseteq ToSet(r) \cup {c}
  <2>1. ASSUME NEW k \in 2..Len(r1) PROVE r1[k] \in ToSet(r)
    <3>1. (k <= p => k - 1 \in 1..Len(r)) /\ (k > p => k \in 1..Len(r))
      BY <1>1
    <3> QED BY <1>1, <1>3, <3>1
  <2> QED BY <1>1, <1>3, <2>1
<1>7. ToSet(r2) \subseteq ToSet(r1)
  <2>1. Capacity \in Nat /\ Len(r1) \in Nat
    BY <1>1, CacheAssumption
  <2>2. \A i \in 1..Len(r2) : i \in 1..Len(r1) /\ r2[i] = r1[i]
    BY <1>2, <2>1 DEF Agrees
  <2> QED BY <1>3, <2>2
<1>8. ASSUME c \in ToSet(r) PROVE ToSet(r) \subseteq ToSet(r1)
  <2>1. p \in 1..Len(r) /\ Len(r1) = Len(r)
    BY <1>1, <1>5, <1>8
  <2>2. ASSUME NEW i \in 1..Len(r) PROVE r[i] \in ToSet(r1)
    <3>1. CASE i < p
      <4>1. i + 1 \in 2..Len(r1) /\ r1[i + 1] = r[i] /\ i + 1 \in 1..Len(r1)
        BY <1>1, <2>1, <3>1
      <4> QED BY <1>3, <4>1
    <3>2. CASE i = p
      BY <1>1, <1>3, <1>4, <2>1, <3>2
    <3>3. CASE i > p
      <4>1. i \in 2..Len(r1) /\ r1[i] = r[i] /\ i \in 1..Len(r1)
        BY <1>1, <2>1, <3>3
      <4> QED BY <1>3, <4>1
    <3> QED BY <1>1, <3>1, <3>2, <3>3
  <2> QED BY <1>3, <2>2
<1> QED BY <1>6, <1>7, <1>8 DEF r1, r2

\* An empty cache satisfies the invariant.
LEMMA CacheInitInv == CacheInit => CacheInv
<1> SUFFICES ASSUME CacheInit PROVE CacheInv
  OBVIOUS
<1>1. recency = <<>> /\ used = <<>> /\ entries = <<>>
  BY DEF CacheInit
<1>2. IsBeginning(recency, used)
  BY <1>1, CacheAssumption DEF IsBeginning, Distinct, Agrees
<1>3. DOMAIN entries = {} /\ ToSet(recency) = {}
  BY <1>1 DEF ToSet
<1>4. /\ text \in [Executor -> Code \cup {None}]
      /\ script \in [Executor -> Script \cup {None}]
      /\ \A e \in Executor : script[e] = None
  BY DEF CacheInit
<1> QED BY <1>2, <1>3, <1>4 DEF CacheInv

\* Every step of the cache preserves it.
LEMMA CacheStep == CacheInv /\ [CacheNext]_cacheVars => CacheInv'
<1> SUFFICES ASSUME CacheInv, [CacheNext]_cacheVars PROVE CacheInv'
  OBVIOUS
<1> USE CacheAssumption
<1>1. ASSUME NEW e \in Executor, NEW c \in Code, TryGet(e, c) PROVE CacheInv'
  <2>1. c \in ToSet(recency) /\ entries[c] \in Script /\ entries[c].text = c
    BY <1>1 DEF TryGet, CacheInv
  <2>2. IsBeginning(recency', used')
    BY <1>1, <2>1, UseKeepsBeginning DEF TryGet, CacheInv
  <2>3. ToSet(recency') = ToSet(recency)
    BY <1>1, <2>1, UseHolds DEF TryGet, CacheInv, IsBeginning
  <2>4. /\ text' \in [Executor -> Code \cup {None}]
        /\ script' \in [Executor -> Script \cup {None}]
    BY <1>1, <2>1 DEF TryGet, CacheInv
  <2>5. \A d \in Executor : script'[d] # None => script'[d].text = text'[d]
    BY <1>1, <2>1 DEF TryGet, CacheInv
  <2> QED BY <1>1, <2>2, <2>3, <2>4, <2>5 DEF TryGet, CacheInv
<1>2. ASSUME NEW e \in Executor, NEW c \in Code, Miss(e, c) PROVE CacheInv'
  <2>1. script[e] = None
    <3>1. script[e] # None => script[e] \in Script /\ script[e].text = None
      BY <1>2 DEF Miss, CacheInv
    <3> QED BY <3>1 DEF Script
  <2>2. \A d \in Executor : script'[d] # None => script'[d].text = text'[d]
    BY <1>2, <2>1 DEF Miss, CacheInv
  <2> QED BY <1>2, <2>2 DEF Miss, CacheInv
<1>3. ASSUME NEW e \in Executor, Compile(e) PROVE CacheInv'
  <2> DEFINE c == text[e]
             s == [text |-> c, by |-> e]
  <2>1. c \in Code /\ s \in Script /\ s.text = c
    BY <1>3 DEF Compile, CacheInv, Script
  <2>2. script' = [script EXCEPT ![e] = s] /\ text' = text
    BY <1>3 DEF Compile
  <2>3. /\ script' \in [Executor -> Script \cup {None}]
        /\ \A d \in Executor : script'[d] # None => script'[d].text = text'[d]
    BY <2>1, <2>2 DEF CacheInv
  <2>4. CASE Fails(c)
    <3>1. UNCHANGED <<entries, recency, used>>
      BY <1>3, <2>4 DEF Compile
    <3> QED BY <2>2, <2>3, <3>1 DEF CacheInv
  <2>5. CASE ~Fails(c)
    <3>1. /\ recency' = Newest(Touch(recency, c)) /\ used' = Touch(used, c)
          /\ entries' = Remember(c, s, ToSet(recency'))
      BY <1>3, <2>5 DEF Compile
    <3>2. IsBeginning(recency', used')
      BY <2>1, <3>1, UseKeepsBeginning DEF CacheInv
    <3>3. ToSet(recency') \subseteq ToSet(recency) \cup {c}
      BY <2>1, <3>1, UseHolds DEF CacheInv, IsBeginning
    <3>4. DOMAIN entries' = ToSet(recency')
      BY <3>1 DEF Remember
    <3>5. \A d \in DOMAIN entries' : entries'[d] = IF d = c THEN s ELSE entries[d]
      BY <3>1, <3>4 DEF Remember
    <3>6. \A d \in DOMAIN entries' :
            entries'[d] \in Script /\ entries'[d].text = d /\ d \notin Broken
      BY <2>1, <2>5, <3>3, <3>4, <3>5 DEF CacheInv, Fails
    <3> QED BY <2>2, <2>3, <3>2, <3>4, <3>6 DEF CacheInv
  <2> QED BY <2>4, <2>5
<1>4. ASSUME NEW e \in Executor, CompileThrows(e) PROVE CacheInv'
  BY <1>4 DEF CompileThrows, CacheInv
<1>5. ASSUME NEW e \in Executor, Run(e) PROVE CacheInv'
  BY <1>5 DEF Run, CacheInv
<1>6. CASE Clear
  <2>1. recency' = <<>> /\ used' = <<>> /\ entries' = <<>> /\ UNCHANGED <<text, script>>
    BY <1>6 DEF Clear
  <2>2. IsBeginning(<<>>, <<>>)
    BY DEF IsBeginning, Distinct, Agrees
  <2>3. IsBeginning(recency', used')
    BY <2>1, <2>2
  <2>4. DOMAIN entries' = {} /\ ToSet(recency') = {}
    BY <2>1 DEF ToSet
  <2> QED BY <2>1, <2>3, <2>4 DEF CacheInv
<1>7. CASE UNCHANGED cacheVars
  BY <1>7 DEF cacheVars, CacheInv
<1> QED BY <1>1, <1>2, <1>3, <1>4, <1>5, <1>6, <1>7 DEF CacheNext

\* The list is the beginning of the history of use, and the dictionary is of the
\* same texts, after every lookup, addition, eviction and clearing.
THEOREM CacheInvariance == CacheSpec => []CacheInv
BY CacheInitInv, CacheStep, PTL DEF CacheSpec

\* Whatever was looked up, added twice or evicted and added again, the cache
\* holds the texts used last, in that order, for every capacity.
THEOREM CacheHoldsTheLastUsed == CacheSpec => []HoldsTheLastUsed
<1>1. CacheInv => HoldsTheLastUsed
  <2> SUFFICES ASSUME CacheInv PROVE HoldsTheLastUsed
    OBVIOUS
  <2>1. IsBeginning(recency, used)
    BY DEF CacheInv
  <2>2. /\ recency \in Seq(Code) /\ used \in Seq(Code) /\ Len(recency) \in Nat
        /\ Len(recency) <= Len(used) /\ Len(recency) \in {Capacity, Len(used)}
    BY <2>1 DEF IsBeginning
  <2>3. SubSeq(used, 1, Len(recency)) = [i \in 1..Len(recency) |-> used[i]]
    BY <2>2
  <2>4. recency = [i \in 1..Len(recency) |-> recency[i]]
    BY <2>2
  <2>5. \A i \in 1..Len(recency) : recency[i] = used[i]
    BY <2>1 DEF IsBeginning, Agrees
  <2> QED BY <2>2, <2>3, <2>4, <2>5 DEF HoldsTheLastUsed
<1> QED BY <1>1, CacheInvariance, PTL

\* Dictionary and list name the same texts, each once and no more than fit.
THEOREM CacheTypes == CacheSpec => []CacheTypeOK
<1>1. CacheInv => CacheTypeOK
  <2> SUFFICES ASSUME CacheInv PROVE CacheTypeOK
    OBVIOUS
  <2>1. IsBeginning(recency, used)
    BY DEF CacheInv
  <2>2. DOMAIN recency = 1..Len(recency)
    BY <2>1 DEF IsBeginning
  <2>3. \A i, j \in DOMAIN recency : recency[i] = recency[j] => i = j
    BY <2>1, <2>2 DEF IsBeginning, Distinct, Agrees
  <2>4. IsInjective(recency)
    BY <2>3 DEF IsInjective
  <2> QED BY <2>1, <2>4 DEF CacheTypeOK, CacheInv, IsBeginning
<1> QED BY <1>1, CacheInvariance, PTL

\* A script that runs is the one of the text that was sent, and no text that
\* does not compile is kept.
THEOREM ScriptsAreOfTheirText == CacheSpec => []ScriptIsOfItsText
<1>1. CacheInv => ScriptIsOfItsText
  BY DEF CacheInv, ScriptIsOfItsText
<1> QED BY <1>1, CacheInvariance, PTL

\* An addition replaces what was there and is never the entry that is evicted.
THEOREM NewestAreKept == CacheSpec => NewestIsKept
<1> DEFINE KeepsNewest == \A e \in Executor :
       text[e] # None /\ script[e] = None /\ script'[e] # None /\ text[e] \notin Broken =>
         text[e] \in DOMAIN entries' /\ entries'[text[e]] = script'[e]
<1>1. CacheInv /\ [CacheNext]_cacheVars => [KeepsNewest]_cacheVars
  <2> SUFFICES ASSUME CacheInv, CacheNext, NEW e \in Executor, 
                      text[e] # None, script[e] = None, script'[e] # None, text[e] \notin Broken
               PROVE  text[e] \in DOMAIN entries' /\ entries'[text[e]] = script'[e]
    BY DEF cacheVars
  <2>1. text \in [Executor -> Code \cup {None}] /\ script \in [Executor -> Script \cup {None}]
    BY DEF CacheInv
  <2>2. Compile(e)
    <3>1. PICK d \in Executor : \/ \E c \in Code : TryGet(d, c) \/ Miss(d, c)
                                \/ Compile(d) \/ CompileThrows(d) \/ Run(d)
      BY DEF CacheNext, Clear
    <3>2. ASSUME NEW c \in Code, TryGet(d, c) PROVE FALSE
      BY <2>1, <3>2 DEF TryGet
    <3>3. ASSUME NEW c \in Code, Miss(d, c) PROVE FALSE
      BY <3>3 DEF Miss
    <3>4. ~CompileThrows(d) /\ ~Run(d)
      BY <2>1 DEF CompileThrows, Run
    <3>5. ASSUME Compile(d) PROVE d = e
      BY <2>1, <3>5 DEF Compile
    <3> QED BY <3>1, <3>2, <3>3, <3>4, <3>5
  <2> DEFINE c == text[e]
             s == [text |-> c, by |-> e]
  <2>3. /\ recency' = Newest(Touch(recency, c)) /\ script' = [script EXCEPT ![e] = s]
        /\ entries' = Remember(c, s, ToSet(recency'))
    BY <2>2 DEF Compile, Fails
  <2>4. c \in Code /\ IsBeginning(recency, used)
    BY <2>1 DEF CacheInv
  <2>5. recency'[1] = c /\ 1 \in 1..Len(recency') /\ recency' \in Seq(Code)
    BY <2>3, <2>4, UseKeepsBeginning DEF IsBeginning
  <2>6. c \in ToSet(recency')
    BY <2>5 DEF ToSet
  <2>7. c \in DOMAIN entries' /\ entries'[c] = s
    BY <2>3, <2>6 DEF Remember
  <2> QED BY <2>1, <2>3, <2>7
<1> QED BY <1>1, CacheInvariance, PTL DEF CacheSpec, NewestIsKept

----------------------------------------------------------------------------
(* The conversion of a return value: first the unfolding of the value.     *)

\* Induction, for a set of numbers: the least one it lacks would be a successor.
LEMMA AllNumbers ==
  ASSUME NEW T \in SUBSET Nat, 0 \in T, \A n \in T : n + 1 \in T
  PROVE  T = Nat
<1> DEFINE R == OpToRel(<, Nat)
           Rest == Nat \ T
<1>1. IsWellFoundedOn(R, Nat)
  BY NatLessThanWellFounded
<1>2. \A m, n \in Nat : <<m, n>> \in R <=> m < n
  BY DEF OpToRel
<1> HIDE DEF R
<1>3. ASSUME Rest # {} PROVE FALSE
  <2>1. PICK n \in Rest : \A m \in Rest : ~(<<m, n>> \in R)
    BY <1>1, <1>3, WFMin
  <2>2. n \in Nat \ {0} /\ n - 1 \in Nat /\ n - 1 < n
    BY <2>1
  <2>3. n - 1 \notin Rest
    BY <1>2, <2>1, <2>2
  <2>4. (n - 1) + 1 \in T
    BY <2>2, <2>3
  <2> QED BY <2>1, <2>2, <2>4
<1> QED BY <1>3

Objects == DOMAIN graph.kids
Calls == [obj : Objects, path : Seq(Nat)]
RootCall == [obj |-> Root, path |-> <<>>]
Kid(v, i) == [obj |-> Kids(v.obj)[i], path |-> Append(v.path, i)]

\* The calls one level below those of L.
Below(L) ==
  UNION {{[obj |-> Kids(v.obj)[i], path |-> Append(v.path, i)] : i \in 1..Kept(v.obj)} : v \in L}

\* What lies one level below some calls.
LEMMA BelowOf ==
  ASSUME NEW L, NEW w
  PROVE  w \in Below(L) <=> \E v \in L : \E i \in 1..Kept(v.obj) : w = Kid(v, i)
BY DEF Below, Kid

\* The recursion has a solution, so that Level is one.
LEMMA LevelIs ==
  Level = [d \in 0..(MaxDepth + 1) |-> IF d = 0 THEN {RootCall} ELSE Below(Level[d - 1])]
<1> DEFINE Solves(f, n) == f = [d \in 0..n |-> IF d = 0 THEN {RootCall} ELSE Below(f[d - 1])]
           T == {n \in Nat : \E f : Solves(f, n)}
<1> HIDE DEF Solves
<1>1. 0 \in T
  <2> DEFINE f == [d \in 0..0 |-> {RootCall}]
  <2>1. f = [d \in 0..0 |-> IF d = 0 THEN {RootCall} ELSE Below(f[d - 1])]
    OBVIOUS
  <2> HIDE DEF f
  <2>2. Solves(f, 0)
    BY <2>1 DEF Solves
  <2> QED BY <2>2
<1>2. ASSUME NEW n \in T PROVE n + 1 \in T
  <2>1. PICK f : Solves(f, n)
    OBVIOUS
  <2> DEFINE g == [d \in 0..(n + 1) |-> IF d = n + 1 THEN Below(f[n]) ELSE f[d]]
  <2>2. f = [d \in 0..n |-> IF d = 0 THEN {RootCall} ELSE Below(f[d - 1])]
    BY <2>1 DEF Solves
  <2>3. ASSUME NEW d \in 0..(n + 1)
        PROVE  g[d] = IF d = 0 THEN {RootCall} ELSE Below(g[d - 1])
    <3>1. CASE d = n + 1
      <4>1. g[d] = Below(f[n]) /\ d # 0 /\ d - 1 = n /\ n \in 0..(n + 1) /\ n # n + 1
        BY <3>1
      <4>2. g[n] = f[n]
        BY <4>1
      <4> HIDE DEF g
      <4> QED BY <4>1, <4>2
    <3>2. CASE d # n + 1 /\ d # 0
      <4>1. d \in 0..n /\ d - 1 \in 0..n /\ d - 1 # n + 1 /\ d - 1 \in 0..(n + 1)
        BY <3>2
      <4>2. g[d] = f[d] /\ g[d - 1] = f[d - 1]
        BY <3>2, <4>1
      <4> HIDE DEF g
      <4> QED BY <2>2, <3>2, <4>1, <4>2
    <3>3. CASE d = 0
      <4>1. g[d] = f[d] /\ d \in 0..n
        BY <3>3
      <4> HIDE DEF g
      <4> QED BY <2>2, <3>3, <4>1
    <3> QED BY <3>1, <3>2, <3>3
  <2>4. g = [d \in 0..(n + 1) |-> g[d]]
    OBVIOUS
  <2> HIDE DEF g
  <2>5. g = [d \in 0..(n + 1) |-> IF d = 0 THEN {RootCall} ELSE Below(g[d - 1])]
    BY <2>3, <2>4
  <2>6. Solves(g, n + 1)
    BY <2>5 DEF Solves
  <2> QED BY <2>6
<1>3. T = Nat
  BY <1>1, <1>2, AllNumbers
<1>4. MaxDepth + 1 \in Nat
  BY LimitAssumption
<1>5. PICK f : Solves(f, MaxDepth + 1)
  BY <1>3, <1>4
<1>6. f = [d \in 0..(MaxDepth + 1) |-> IF d = 0 THEN {RootCall} ELSE Below(f[d - 1])]
  BY <1>5 DEF Solves
<1>7. Level = CHOOSE h : h = [d \in 0..(MaxDepth + 1) |->
                                IF d = 0 THEN {RootCall} ELSE Below(h[d - 1])]
  BY DEF Level, Below, RootCall
<1> QED BY <1>6, <1>7

\* Levels, as steps of the proofs use them.
LEMMA LevelZero == Level[0] = {RootCall}
<1>1. 0 \in 0..(MaxDepth + 1)
  BY LimitAssumption
<1> QED BY <1>1, LevelIs

\* Each level is what lies below the level before.
LEMMA LevelNext ==
  ASSUME NEW d \in 0..MaxDepth, NEW w
  PROVE  w \in Level[d + 1] <=> \E v \in Level[d] : \E i \in 1..Kept(v.obj) : w = Kid(v, i)
<1>1. d + 1 \in 0..(MaxDepth + 1) /\ d + 1 # 0 /\ (d + 1) - 1 = d
  BY LimitAssumption
<1>2. Level[d + 1] = Below(Level[d])
  BY <1>1, LevelIs
<1> QED BY <1>2, BelowOf

\* What the assumption on graphs says of the value that is converted.
LEMMA GraphOf ==
  ASSUME graph \in Graphs
  PROVE  /\ Root \in Objects
         /\ \A o \in Objects : /\ Kind(o) \in Kinds /\ Kids(o) \in Seq(Objects)
                               /\ Kind(o) = "scalar" => Kids(o) = <<>>
         /\ None \notin Calls
BY GraphAssumption DEF Objects, Kind, Kids, Calls

\* How many children the result keeps: all, or as many as a list may have.
LEMMA KeptOf ==
  ASSUME graph \in Graphs, NEW o \in Objects
  PROVE  /\ Kept(o) \in Nat /\ Len(Kids(o)) \in Nat /\ Kept(o) <= Len(Kids(o))
         /\ Kind(o) \notin Lists => Kept(o) = Len(Kids(o))
         /\ Kind(o) \in Lists =>
              Kept(o) = IF Len(Kids(o)) <= MaxCollectionItems THEN Len(Kids(o)) ELSE MaxCollectionItems
<1> DEFINE m == Len(Kids(o))
           n == MaxCollectionItems
<1>1. m \in Nat /\ n \in Nat
  BY GraphOf, LimitAssumption
<1>2. Min({m, n}) = IF m <= n THEN m ELSE n
  <2>1. Min({m, n}) = CHOOSE x \in {m, n} : \A y \in {m, n} : x <= y
    BY DEF Min
  <2> HIDE DEF m, n
  <2>2. \E x \in {m, n} : \A y \in {m, n} : x <= y
    BY <1>1
  <2>3. Min({m, n}) \in {m, n} /\ \A y \in {m, n} : Min({m, n}) <= y
    BY <2>1, <2>2
  <2> QED BY <1>1, <2>3
<1> QED BY <1>1, <1>2 DEF Kept

\* A child of a call is a call, one place deeper.
LEMMA KidOf ==
  ASSUME graph \in Graphs, NEW v \in Calls, NEW i \in 1..Kept(v.obj)
  PROVE  Kid(v, i) \in Calls /\ Len(Kid(v, i).path) = Len(v.path) + 1
<1>1. v.obj \in Objects /\ v.path \in Seq(Nat) /\ i \in Nat
  BY KeptOf DEF Calls
<1>2. i \in 1..Len(Kids(v.obj)) /\ Kids(v.obj) \in Seq(Objects)
  BY <1>1, KeptOf, GraphOf
<1>3. Kids(v.obj)[i] \in Objects
  BY <1>2, ElementOfSeq
<1>4. Append(v.path, i) \in Seq(Nat) /\ Len(Append(v.path, i)) = Len(v.path) + 1
  BY <1>1
<1> QED BY <1>3, <1>4 DEF Kid, Calls

\* The levels hold calls, each as deep as its path is long.
LEMMA LevelTypes ==
  ASSUME graph \in Graphs
  PROVE  \A d \in 0..(MaxDepth + 1) : \A v \in Level[d] : v \in Calls /\ Len(v.path) = d
<1> DEFINE T == {d \in Nat : d \in 0..(MaxDepth + 1) => \A v \in Level[d] : v \in Calls /\ Len(v.path) = d}
<1>1. 0 \in T
  <2>1. RootCall \in Calls /\ Len(RootCall.path) = 0
    BY GraphOf DEF RootCall, Calls
  <2> QED BY <2>1, LevelZero
<1>2. ASSUME NEW d \in T PROVE d + 1 \in T
  <2>1. SUFFICES ASSUME d + 1 \in 0..(MaxDepth + 1), NEW w \in Level[d + 1]
                 PROVE  w \in Calls /\ Len(w.path) = d + 1
    BY <1>2
  <2>2. d \in 0..MaxDepth /\ d \in 0..(MaxDepth + 1)
    BY <2>1, LimitAssumption
  <2>3. PICK v \in Level[d] : \E i \in 1..Kept(v.obj) : w = Kid(v, i)
    BY <2>1, <2>2, LevelNext
  <2>4. v \in Calls /\ Len(v.path) = d
    BY <2>2
  <2> QED BY <2>3, <2>4, KidOf
<1>3. T = Nat
  BY <1>1, <1>2, AllNumbers
<1> QED BY <1>3

\* What stands where in a path that grew by one place.
LEMMA AppendAt ==
  ASSUME NEW s \in Seq(Nat), NEW e \in Nat
  PROVE  /\ \A k \in 1..Len(s) : Append(s, e)[k] = s[k]
         /\ Append(s, e)[Len(s) + 1] = e
OBVIOUS

\* Paths that grew to the same path were the same.
LEMMA AppendCancels ==
  \A s, t \in Seq(Nat) : \A i, j \in Nat : Append(s, i) = Append(t, j) => s = t /\ i = j
<1> SUFFICES ASSUME NEW s \in Seq(Nat), NEW t \in Seq(Nat), NEW i \in Nat, NEW j \in Nat,
                    Append(s, i) = Append(t, j)
             PROVE  s = t /\ i = j
  OBVIOUS
<1>1. /\ Len(Append(s, i)) = Len(s) + 1 /\ Len(Append(t, j)) = Len(t) + 1
      /\ Len(s) \in Nat /\ Len(t) \in Nat
  OBVIOUS
<1>2. Len(s) = Len(t)
  BY <1>1
<1>3. /\ \A k \in 1..Len(s) : Append(s, i)[k] = s[k]
      /\ Append(s, i)[Len(s) + 1] = i
  BY AppendAt
<1>4. /\ \A k \in 1..Len(t) : Append(t, j)[k] = t[k]
      /\ Append(t, j)[Len(t) + 1] = j
  BY AppendAt
<1>5. \A k \in 1..Len(s) : s[k] = t[k]
  BY <1>2, <1>3, <1>4
<1>6. s = t
  BY <1>2, <1>5, SeqEqual
<1> QED BY <1>2, <1>3, <1>4, <1>6

\* A path leads to one object.
LEMMA PathsLeadToOne ==
  ASSUME graph \in Graphs
  PROVE  \A d \in 0..(MaxDepth + 1) : \A v, w \in Level[d] : v.path = w.path => v = w
<1> DEFINE T == {d \in Nat : d \in 0..(MaxDepth + 1) => \A v, w \in Level[d] : v.path = w.path => v = w}
<1>1. 0 \in T
  BY LevelZero
<1>2. ASSUME NEW d \in T PROVE d + 1 \in T
  <2>1. SUFFICES ASSUME d + 1 \in 0..(MaxDepth + 1), NEW v \in Level[d + 1], NEW w \in Level[d + 1],
                        v.path = w.path
                 PROVE  v = w
    BY <1>2
  <2>2. d \in 0..MaxDepth /\ d \in 0..(MaxDepth + 1)
    BY <2>1, LimitAssumption
  <2>3. PICK p \in Level[d] : \E i \in 1..Kept(p.obj) : v = Kid(p, i)
    BY <2>2, LevelNext
  <2>4. PICK i \in 1..Kept(p.obj) : v = Kid(p, i)
    BY <2>3
  <2>5. PICK q \in Level[d] : \E j \in 1..Kept(q.obj) : w = Kid(q, j)
    BY <2>2, LevelNext
  <2>6. PICK j \in 1..Kept(q.obj) : w = Kid(q, j)
    BY <2>5
  <2>7. p.path \in Seq(Nat) /\ q.path \in Seq(Nat)
    BY <2>2, LevelTypes DEF Calls
  <2>8. Append(p.path, i) = Append(q.path, j) /\ i \in Nat /\ j \in Nat
    BY <2>1, <2>4, <2>6 DEF Kid
  <2>9. p.path = q.path /\ i = j
    BY <2>7, <2>8, AppendCancels
  <2>10. p = q
    BY <2>2, <2>9
  <2> QED BY <2>4, <2>6, <2>9, <2>10
<1>3. T = Nat
  BY <1>1, <1>2, AllNumbers
<1> QED BY <1>3

\* The unfolding holds calls, each in the level of its depth, one for each path.
LEMMA UnfoldedTypes ==
  ASSUME graph \in Graphs
  PROVE  /\ \A v : v \in Unfolded <=> \E d \in 0..MaxDepth : v \in Level[d]
         /\ \A v \in Unfolded : v \in Calls /\ Len(v.path) \in 0..MaxDepth /\ v \in Level[Len(v.path)]
         /\ \A v, w \in Unfolded : v.path = w.path => v = w
<1>1. \A v : v \in Unfolded <=> \E d \in 0..MaxDepth : v \in Level[d]
  BY DEF Unfolded
<1>2. \A d \in 0..MaxDepth : d \in 0..(MaxDepth + 1)
  BY LimitAssumption
<1>3. \A v \in Unfolded : v \in Calls /\ Len(v.path) \in 0..MaxDepth /\ v \in Level[Len(v.path)]
  BY <1>1, <1>2, LevelTypes
<1>4. ASSUME NEW v \in Unfolded, NEW w \in Unfolded, v.path = w.path PROVE v = w
  <2>1. v \in Level[Len(v.path)] /\ w \in Level[Len(v.path)] /\ Len(v.path) \in 0..(MaxDepth + 1)
    BY <1>2, <1>3, <1>4
  <2> QED BY <1>4, <2>1, PathsLeadToOne
<1> QED BY <1>1, <1>3, <1>4

\* An image of a finite set is finite.
LEMMA ImageIsFinite ==
  ASSUME NEW S, IsFiniteSet(S), NEW f, DOMAIN f = S
  PROVE  /\ IsFiniteSet({f[x] : x \in S})
         /\ Cardinality({f[x] : x \in S}) <= Cardinality(S)
<1> DEFINE g == [x \in S |-> f[x]]
           T == {f[x] : x \in S}
<1>1. g \in Surjection(S, T)
  BY DEF Surjection
<1> HIDE DEF g
<1> QED BY <1>1, FS_Surjection

\* Each level is finite.
LEMMA LevelsAreFinite ==
  ASSUME graph \in Graphs
  PROVE  \A d \in 0..(MaxDepth + 1) : IsFiniteSet(Level[d])
<1> DEFINE T == {d \in Nat : d \in 0..(MaxDepth + 1) => IsFiniteSet(Level[d])}
<1>1. 0 \in T
  BY LevelZero, FS_Singleton
<1>2. ASSUME NEW d \in T PROVE d + 1 \in T
  <2>1. SUFFICES ASSUME d + 1 \in 0..(MaxDepth + 1) PROVE IsFiniteSet(Level[d + 1])
    BY <1>2
  <2>2. d \in 0..MaxDepth /\ d \in 0..(MaxDepth + 1)
    BY <2>1, LimitAssumption
  <2> DEFINE kids == [v \in Level[d] |-> {Kid(v, i) : i \in 1..Kept(v.obj)}]
             sets == {kids[v] : v \in Level[d]}
  <2>3. IsFiniteSet(sets)
    BY <2>2, ImageIsFinite
  <2>4. ASSUME NEW v \in Level[d] PROVE IsFiniteSet(kids[v])
    <3>1. Kept(v.obj) \in Nat
      BY <2>2, LevelTypes, KeptOf DEF Calls
    <3> DEFINE numbers == 1..Kept(v.obj)
               f == [i \in numbers |-> Kid(v, i)]
    <3>2. IsFiniteSet(numbers)
      BY <3>1, FS_Interval
    <3>3. kids[v] = {f[i] : i \in numbers} /\ DOMAIN f = numbers
      OBVIOUS
    <3> HIDE DEF f, numbers, kids
    <3> QED BY <3>2, <3>3, ImageIsFinite
  <2>5. Level[d + 1] = UNION sets
    <3>1. \A w : w \in UNION sets <=> \E v \in Level[d] : w \in kids[v]
      OBVIOUS
    <3>2. \A v \in Level[d] : \A w : w \in kids[v] <=> \E i \in 1..Kept(v.obj) : w = Kid(v, i)
      OBVIOUS
    <3> HIDE DEF sets, kids
    <3>3. \A w : w \in UNION sets <=> w \in Level[d + 1]
      BY <2>2, <3>1, <3>2, LevelNext
    <3> QED BY <3>3
  <2>6. \A S \in sets : IsFiniteSet(S)
    BY <2>4
  <2> HIDE DEF sets
  <2> QED BY <2>3, <2>5, <2>6, FS_UNION
<1>3. T = Nat
  BY <1>1, <1>2, AllNumbers
<1> QED BY <1>3

\* The unfolding within the depth limit is finite, also of a cyclic value.
LEMMA UnfoldedIsFinite ==
  ASSUME graph \in Graphs
  PROVE  IsFiniteSet(Unfolded)
<1> DEFINE numbers == 0..MaxDepth
           f == [d \in numbers |-> Level[d]]
           levels == {f[d] : d \in numbers}
<1>1. IsFiniteSet(numbers)
  BY LimitAssumption, FS_Interval
<1>2. \A d \in numbers : IsFiniteSet(f[d])
  BY LevelsAreFinite, LimitAssumption
<1>3. Unfolded = UNION levels
  BY DEF Unfolded
<1> HIDE DEF f, numbers
<1>4. DOMAIN f = numbers
  BY DEF f
<1>5. IsFiniteSet(levels)
  BY <1>1, <1>4, ImageIsFinite
<1>6. \A L \in levels : IsFiniteSet(L)
  BY <1>2
<1> HIDE DEF levels
<1> QED BY <1>3, <1>5, <1>6, FS_UNION

\* As many places as there are paths to them, for any finite set of places.
LEMMA PlacesAreCounted ==
  ASSUME graph \in Graphs, NEW P \in SUBSET Seq(Nat), IsFiniteSet(P)
  PROVE  /\ (\A p \in P : \E v \in Unfolded : v.path = p) => Cardinality(P) <= Cardinality(Unfolded)
         /\ (\A v \in Unfolded : v.path \in P) => Cardinality(Unfolded) <= Cardinality(P)
<1>1. ASSUME \A p \in P : \E v \in Unfolded : v.path = p
      PROVE  Cardinality(P) <= Cardinality(Unfolded)
  <2> DEFINE f == [p \in P |-> CHOOSE v \in Unfolded : v.path = p]
  <2>1. \A p \in P : f[p] \in Unfolded /\ f[p].path = p
    BY <1>1
  <2>2. f \in [P -> Unfolded]
    BY <2>1
  <2> HIDE DEF f
  <2>3. f \in Injection(P, Unfolded)
    BY <2>1, <2>2 DEF Injection, IsInjective
  <2> QED BY <2>3, UnfoldedIsFinite, FS_Injection
<1>2. ASSUME \A v \in Unfolded : v.path \in P
      PROVE  Cardinality(Unfolded) <= Cardinality(P)
  <2> DEFINE f == [v \in Unfolded |-> v.path]
  <2>1. f \in [Unfolded -> P] /\ \A v \in Unfolded : f[v] = v.path
    BY <1>2
  <2> HIDE DEF f
  <2>2. f \in Injection(Unfolded, P)
    BY <2>1, UnfoldedTypes DEF Injection, IsInjective
  <2> QED BY <2>2, FS_Injection
<1> QED BY <1>1, <1>2

(* Then the walk, half way: what it has converted, and what it owes.       *)
(* fs are the frames, ps the places, ac the active references, pd the call *)
(* that is pending, n the nodes and ts the notes.                          *)

CallOf(f) == [obj |-> f.obj, path |-> f.path]

\* What is told of an object when it is converted, and when it is done.
FineAtSight(o) ==
  Kind(o) # "unsupported" /\ (Kind(o) \notin Lists => Len(Kids(o)) <= MaxCollectionItems)
FineAtEnd(o) ==
  /\ Kind(o) = "failing" => Len(Kids(o)) > MaxCollectionItems
  /\ Kind(o) = "clashing" => Len(Kids(o)) < 2

CutNote(v) == [path |-> v.path, total |-> IF Kind(v.obj) = "list" THEN Len(Kids(v.obj)) ELSE None]

Frame == [obj : Objects, path : Seq(Nat), taken : Nat]

\* A frame is a container of the unfolding, of which some children were taken.
FrameInv(f, k) ==
  /\ k <= MaxDepth + 1 /\ CallOf(f) \in Level[k - 1]
  /\ Kind(f.obj) \in Containers /\ f.taken <= Kept(f.obj)
  /\ Kind(f.obj) = "clashing" => f.taken <= 1

\* The frames are a branch of the unfolding, without an object twice.
FramesInv(fs, ps, ac) ==
  /\ fs \in Seq(Frame)
  /\ \A k \in 1..Len(fs) : FrameInv(fs[k], k) /\ fs[k].path \in ps
  /\ \A k \in 1..(Len(fs) - 1) :
       fs[k].taken > 0 /\ CallOf(fs[k + 1]) = Kid(CallOf(fs[k]), fs[k].taken)
  /\ \A j, k \in 1..Len(fs) : fs[j].obj = fs[k].obj => j = k
  /\ ac = {fs[k].obj : k \in 1..Len(fs)}

\* The call continues the branch, at a place that was not converted before.
PendingInv(pd, fs, ps) ==
  pd # None =>
    /\ Len(fs) <= MaxDepth + 1 /\ pd \in Level[Len(fs)] /\ pd.path \notin ps
    /\ fs # <<>> => fs[Len(fs)].taken > 0 /\ pd = Kid(CallOf(fs[Len(fs)]), fs[Len(fs)].taken)

\* The places are counted, are of the unfolding, and are never there without
\* the place above.
PlacesInv(ps, n, pd, fs) ==
  /\ ps \subseteq Seq(Nat) /\ IsFiniteSet(ps)
  /\ n = Cardinality(ps) /\ n <= MaxTotalNodes
  /\ \A p \in ps : \E v \in Unfolded : v.path = p
  /\ \A q \in Seq(Nat), i \in Nat : Append(q, i) \in ps => q \in ps
  /\ <<>> \in ps \/ (pd # None /\ fs = <<>>)

\* A frame has converted exactly the children it took, but for the call.
TakenInv(fs, ps, pd) ==
  \A k \in 1..Len(fs), i \in Nat \ {0} :
    /\ i > fs[k].taken => Append(fs[k].path, i) \notin ps
    /\ i <= fs[k].taken =>
         \/ Append(fs[k].path, i) \in ps
         \/ k = Len(fs) /\ pd # None /\ i = fs[k].taken

\* A value that is done has all its children, was fit for it, and is noted if cut.
ClosedInv(ps, fs, ts) ==
  \A v \in Unfolded : v.path \in ps =>
    /\ FineAtSight(v.obj)
    /\ v.path \notin {fs[k].path : k \in 1..Len(fs)} =>
         /\ FineAtEnd(v.obj)
         /\ \A i \in 1..Kept(v.obj) : Append(v.path, i) \in ps
         /\ Overlong(v) => CutNote(v) \in ts

NotesInv(ts) == \A t \in ts : \E v \in Unfolded : Overlong(v) /\ t = CutNote(v)

WalkInv(pd, fs, ac, n, ps, ts) ==
  /\ FramesInv(fs, ps, ac) /\ PendingInv(pd, fs, ps) /\ PlacesInv(ps, n, pd, fs)
  /\ TakenInv(fs, ps, pd) /\ ClosedInv(ps, fs, ts) /\ NotesInv(ts)

\* What holds of an outcome, given the frames and the call.
OutcomeInv(oc, pd, fs) ==
  /\ oc \in {"running", "converted", "refused"}
  /\ oc # "running" => pd = None
  /\ oc = "converted" => fs = <<>>
  /\ oc = "refused" => ~Acceptable(MaxCollectionItems)

TraversalInv ==
  /\ graph \in Graphs /\ OutcomeInv(outcome, pending, frames)
  /\ outcome # "refused" => WalkInv(pending, frames, active, nodes, places, truncations)

\* The value stays as it is, and with it what is said of it.
LEMMA SameGraph ==
  ASSUME graph' = graph, graph \in Graphs,
         OutcomeInv(outcome', pending', frames'),
         outcome' # "refused" => WalkInv(pending', frames', active', nodes', places', truncations')
  PROVE  TraversalInv'
<1>1. Level' = Level
  BY DEF Level, Kids, Kept, Kind, Lists
<1>2. Unfolded' = Unfolded
  BY <1>1 DEF Unfolded
<1>3. Acceptable(MaxCollectionItems)' = Acceptable(MaxCollectionItems)
  BY <1>1, <1>2 DEF Acceptable, Kids, Kind
<1>4. OutcomeInv(outcome, pending, frames)'
  BY <1>3 DEF OutcomeInv
<1>5. ASSUME outcome' # "refused"
      PROVE  WalkInv(pending, frames, active, nodes, places, truncations)'
  <2> USE <1>5
  <2>1. FramesInv(frames, places, active)'
    BY <1>1 DEF WalkInv, FramesInv, FrameInv, Frame, Objects, Kind, Kept, Kids, Kid
  <2>2. PendingInv(pending, frames, places)'
    BY <1>1 DEF WalkInv, PendingInv, Kids, Kid
  <2>3. PlacesInv(places, nodes, pending, frames)'
    BY <1>2 DEF WalkInv, PlacesInv
  <2>4. TakenInv(frames, places, pending)'
    BY DEF WalkInv, TakenInv
  <2>5. ClosedInv(places, frames, truncations)'
    BY <1>2 DEF WalkInv, ClosedInv, FineAtSight, FineAtEnd, Overlong, CutNote, Kept, Kids, Kind
  <2>6. NotesInv(truncations)'
    BY <1>2 DEF WalkInv, NotesInv, Overlong, CutNote, Kids, Kind
  <2> QED BY <2>1, <2>2, <2>3, <2>4, <2>5, <2>6 DEF WalkInv
<1> QED BY <1>4, <1>5 DEF TraversalInv

\* What the invariant says of one frame and of its call.
LEMMA FrameOf ==
  ASSUME graph \in Graphs, FramesInv(frames, places, active), NEW k \in 1..Len(frames)
  PROVE  /\ frames[k] \in Frame /\ FrameInv(frames[k], k) /\ frames[k].path \in places
         /\ frames[k].obj \in Objects /\ frames[k].path \in Seq(Nat) /\ frames[k].taken \in Nat
         /\ CallOf(frames[k]) \in Unfolded /\ CallOf(frames[k]) \in Calls
         /\ CallOf(frames[k]).obj = frames[k].obj /\ CallOf(frames[k]).path = frames[k].path
         /\ k - 1 \in 0..MaxDepth /\ CallOf(frames[k]) \in Level[k - 1]
         /\ Len(frames[k].path) = k - 1
<1>1. frames \in Seq(Frame) /\ FrameInv(frames[k], k) /\ frames[k].path \in places
  BY DEF FramesInv
<1>2. frames[k] \in Frame
  BY <1>1, ElementOfSeq
<1>3. k - 1 \in 0..MaxDepth /\ k - 1 \in 0..(MaxDepth + 1) /\ CallOf(frames[k]) \in Level[k - 1]
  BY <1>1, LimitAssumption DEF FrameInv
<1>4. CallOf(frames[k]) \in Calls /\ Len(CallOf(frames[k]).path) = k - 1
  BY <1>3, LevelTypes
<1>5. CallOf(frames[k]) \in Unfolded
  BY <1>3, UnfoldedTypes
<1> QED BY <1>1, <1>2, <1>3, <1>4, <1>5 DEF Frame, CallOf

\* Below the last frame whatever it names is at the next level.
LEMMA PendingOf ==
  ASSUME graph \in Graphs, PendingInv(pending, frames, places), pending # None,
         Len(frames) \in Nat
  PROVE  /\ pending \in Calls /\ Len(pending.path) = Len(frames)
         /\ pending.obj \in Objects /\ pending.path \in Seq(Nat)
         /\ pending = [obj |-> pending.obj, path |-> pending.path]
         /\ Len(frames) <= MaxDepth => pending \in Unfolded
<1>1. Len(frames) \in 0..(MaxDepth + 1) /\ pending \in Level[Len(frames)]
  BY LimitAssumption DEF PendingInv
<1>2. pending \in Calls /\ Len(pending.path) = Len(frames)
  BY <1>1, LevelTypes
<1>3. Len(frames) <= MaxDepth => pending \in Unfolded
  BY <1>1, UnfoldedTypes, LimitAssumption
<1> QED BY <1>2, <1>3 DEF Calls

\* A call of an object that is being converted: the unfolding has no end.
LEMMA CyclesAreDeep ==
  ASSUME graph \in Graphs, FramesInv(frames, places, active), PendingInv(pending, frames, places),
         pending # None, pending.obj \in active
  PROVE  Level[MaxDepth + 1] # {}
<1> DEFINE T == {d \in Nat : d \in 0..(MaxDepth + 1) => \E v \in Level[d] : v.obj \in active}
<1>1. /\ frames \in Seq(Frame) /\ Len(frames) \in Nat
      /\ active = {frames[k].obj : k \in 1..Len(frames)}
      /\ 1 \in 1..Len(frames)
  BY DEF FramesInv
<1>2. 0 \in T
  <2>1. CallOf(frames[1]) \in Level[1 - 1] /\ CallOf(frames[1]).obj = frames[1].obj
    BY <1>1, FrameOf
  <2> QED BY <1>1, <2>1
<1>3. ASSUME NEW d \in T PROVE d + 1 \in T
  <2>1. SUFFICES ASSUME d + 1 \in 0..(MaxDepth + 1)
                 PROVE  \E w \in Level[d + 1] : w.obj \in active
    BY <1>3
  <2>2. d \in 0..MaxDepth /\ d \in 0..(MaxDepth + 1)
    BY <2>1, LimitAssumption
  <2>3. PICK v \in Level[d] : v.obj \in active
    BY <2>2
  <2>4. PICK j \in 1..Len(frames) : v.obj = frames[j].obj
    BY <1>1, <2>3
  <2> DEFINE i == frames[j].taken
  <2>5. /\ CallOf(frames[j]).obj = v.obj /\ i \in Nat
        /\ i <= Kept(v.obj) /\ v.obj \in Objects
    BY <2>4, FrameOf DEF FrameInv
  <2>6. i > 0 /\ Kids(v.obj)[i] \in active
    <3>1. CASE j < Len(frames)
      <4>1. j \in 1..(Len(frames) - 1) /\ j + 1 \in 1..Len(frames)
        BY <1>1, <3>1
      <4>2. i > 0 /\ CallOf(frames[j + 1]) = Kid(CallOf(frames[j]), i)
        BY <4>1 DEF FramesInv
      <4>3. frames[j + 1].obj = Kids(v.obj)[i]
        BY <2>5, <4>2 DEF Kid, CallOf
      <4> QED BY <1>1, <4>1, <4>2, <4>3
    <3>2. CASE j = Len(frames)
      <4>1. i > 0 /\ pending = Kid(CallOf(frames[j]), i)
        BY <1>1, <3>2 DEF PendingInv
      <4>2. pending.obj = Kids(v.obj)[i]
        BY <2>5, <4>1 DEF Kid
      <4> QED BY <4>1, <4>2
    <3> QED BY <1>1, <3>1, <3>2
  <2>7. i \in 1..Kept(v.obj)
    BY <2>5, <2>6, KeptOf
  <2>8. Kid(v, i) \in Level[d + 1] /\ Kid(v, i).obj = Kids(v.obj)[i]
    BY <2>2, <2>7, LevelNext DEF Kid
  <2> QED BY <2>6, <2>8
<1>4. T = Nat
  BY <1>2, <1>3, AllNumbers
<1>5. MaxDepth + 1 \in Nat /\ MaxDepth + 1 \in 0..(MaxDepth + 1)
  BY LimitAssumption
<1> QED BY <1>4, <1>5

\* What is refused when it is seen should be refused.
LEMMA RefusedAtSight ==
  ASSUME graph \in Graphs, WalkInv(pending, frames, active, nodes, places, truncations),
         pending # None, Throws(pending.obj, pending.path)
  PROVE  ~Acceptable(MaxCollectionItems)
<1>1. /\ FramesInv(frames, places, active) /\ PendingInv(pending, frames, places)
      /\ PlacesInv(places, nodes, pending, frames) /\ Len(frames) \in Nat
  BY DEF WalkInv, FramesInv
<1>2. /\ pending \in Calls /\ Len(pending.path) = Len(frames)
      /\ pending.path \in Seq(Nat) /\ pending.path \notin places
      /\ Len(frames) <= MaxDepth + 1 /\ pending \in Level[Len(frames)]
      /\ Len(frames) <= MaxDepth => pending \in Unfolded
  BY <1>1, PendingOf DEF PendingInv
<1>3. CASE Len(pending.path) > MaxDepth
  <2>1. Len(frames) = MaxDepth + 1
    BY <1>1, <1>2, <1>3, LimitAssumption
  <2> QED BY <1>2, <2>1 DEF Acceptable
<1>4. CASE ~(Len(pending.path) > MaxDepth)
  <2>1. pending \in Unfolded
    BY <1>1, <1>2, <1>4, LimitAssumption
  <2>2. CASE nodes + 1 > MaxTotalNodes
    <3> DEFINE ps == places \cup {pending.path}
    <3>1. ps \in SUBSET Seq(Nat) /\ IsFiniteSet(ps) /\ Cardinality(ps) = nodes + 1
      BY <1>1, <1>2, FS_AddElement DEF PlacesInv
    <3>2. \A p \in ps : \E v \in Unfolded : v.path = p
      BY <1>1, <2>1 DEF PlacesInv
    <3> HIDE DEF ps
    <3>3. nodes + 1 <= Cardinality(Unfolded)
      BY <3>1, <3>2, PlacesAreCounted
    <3>4. Cardinality(Unfolded) \in Nat /\ nodes \in Nat /\ MaxTotalNodes \in Nat
      BY <1>1, UnfoldedIsFinite, FS_CardinalityType, LimitAssumption DEF PlacesInv
    <3> QED BY <2>2, <3>3, <3>4 DEF Acceptable
  <2>3. CASE Kind(pending.obj) = "unsupported"
    BY <2>1, <2>3 DEF Acceptable
  <2>4. CASE Kind(pending.obj) \in Containers \ Lists /\ Len(Kids(pending.obj)) > MaxCollectionItems
    <3>1. Len(Kids(pending.obj)) \in Nat /\ MaxCollectionItems \in Nat
      BY <1>1, PendingOf, KeptOf, LimitAssumption
    <3> QED BY <2>1, <2>4, <3>1 DEF Acceptable
  <2>5. CASE pending.obj \in active
    BY <1>1, <2>5, CyclesAreDeep DEF Acceptable
  <2> QED BY <1>4, <2>2, <2>3, <2>4, <2>5 DEF Throws
<1> QED BY <1>3, <1>4

\* Converting a value that is fit for it: a place more, and a frame if it has children.
LEMMA ConvertKeeps ==
  ASSUME graph \in Graphs, WalkInv(pending, frames, active, nodes, places, truncations),
         Convert
  PROVE  WalkInv(pending', frames', active', nodes', places', truncations')
<1> DEFINE o == pending.obj
           p == pending.path
           n == Len(frames)
           ps == places \cup {p}
           new == [obj |-> o, path |-> p, taken |-> 0]
           opens == Kind(o) \in Containers
<1>1. /\ pending # None /\ ~Throws(o, p)
      /\ pending' = None /\ nodes' = nodes + 1 /\ places' = ps /\ truncations' = truncations
      /\ IF opens THEN frames' = Append(frames, new) /\ active' = active \cup {o}
                  ELSE frames' = frames /\ active' = active
  BY DEF Convert
<1>2. /\ FramesInv(frames, places, active) /\ PendingInv(pending, frames, places)
      /\ PlacesInv(places, nodes, pending, frames) /\ TakenInv(frames, places, pending)
      /\ ClosedInv(places, frames, truncations) /\ NotesInv(truncations)
      /\ frames \in Seq(Frame) /\ n \in Nat
  BY DEF WalkInv, FramesInv
<1>3. /\ pending \in Calls /\ o \in Objects /\ p \in Seq(Nat) /\ Len(p) = n
      /\ pending = [obj |-> o, path |-> p] /\ p \notin places /\ pending \in Level[n]
  BY <1>1, <1>2, PendingOf DEF PendingInv
<1>4. /\ n <= MaxDepth /\ nodes + 1 <= MaxTotalNodes /\ o \notin active
      /\ FineAtSight(o)
  <2>1. MaxDepth \in Nat /\ MaxTotalNodes \in Nat /\ MaxCollectionItems \in Nat /\ nodes \in Nat
    BY <1>2, LimitAssumption, FS_CardinalityType DEF PlacesInv
  <2>2. Len(Kids(o)) \in Nat /\ Kind(o) \in Kinds /\ (Kind(o) = "scalar" => Len(Kids(o)) = 0)
    BY <1>3, GraphOf
  <2> QED BY <1>1, <1>2, <1>3, <2>1, <2>2 DEF Throws, FineAtSight, Kinds, Containers, Lists
<1>5. pending \in Unfolded
  BY <1>1, <1>2, <1>4, PendingOf
<1>6. ASSUME NEW k \in 1..n
      PROVE  /\ frames[k].path \in Seq(Nat) /\ Len(frames[k].path) = k - 1
             /\ frames[k].path \in places /\ frames[k].taken \in Nat
             /\ frames[k].obj \in active
  BY <1>2, FrameOf DEF FramesInv
<1>7. ASSUME n > 0
      PROVE  /\ frames[n].taken > 0 /\ p = Append(frames[n].path, frames[n].taken)
             /\ pending = Kid(CallOf(frames[n]), frames[n].taken)
  <2>1. frames # <<>>
    BY <1>7
  <2>2. frames[n].taken > 0 /\ pending = Kid(CallOf(frames[n]), frames[n].taken)
    BY <1>1, <1>2, <2>1 DEF PendingInv
  <2> QED BY <2>2 DEF Kid, CallOf
<1>8. /\ frames' \in Seq(Frame)
      /\ Len(frames') = IF opens THEN n + 1 ELSE n
      /\ \A k \in 1..n : frames'[k] = frames[k]
      /\ opens => frames'[n + 1] = new
  <2>1. new \in Frame
    BY <1>3 DEF Frame
  <2> QED BY <1>1, <1>2, <2>1
<1>9. ASSUME NEW q \in Seq(Nat), NEW i \in Nat, Append(q, i) = p
      PROVE  n > 0 /\ q = frames[n].path /\ i = frames[n].taken
  <2>1. Len(p) = Len(q) + 1 /\ Len(q) \in Nat
    BY <1>9
  <2>2. n > 0 /\ n \in 1..n
    BY <1>2, <1>3, <2>1
  <2>3. p = Append(frames[n].path, frames[n].taken)
    BY <1>7, <2>2
  <2>4. /\ Append(q, i) = Append(frames[n].path, frames[n].taken)
        /\ frames[n].path \in Seq(Nat) /\ frames[n].taken \in Nat
    BY <1>6, <1>9, <2>2, <2>3
  <2>5. q = frames[n].path /\ i = frames[n].taken
    BY <2>4, AppendCancels
  <2> QED BY <2>2, <2>5
<1> HIDE DEF o, p, n, ps, new, opens
<1>10. FramesInv(frames', ps, active')
  <2>1. ASSUME NEW k \in 1..n PROVE FrameInv(frames'[k], k) /\ frames'[k].path \in ps
    BY <1>2, <1>6, <1>8 DEF FramesInv, ps, n
  <2>2. ASSUME opens PROVE FrameInv(new, n + 1) /\ new.path \in ps
    <3>1. CallOf(new) = pending /\ new.taken = 0 /\ new.obj = o /\ new.path = p
      BY <1>3 DEF CallOf, new
    <3>2. Kept(o) \in Nat /\ n + 1 <= MaxDepth + 1 /\ (n + 1) - 1 = n
      BY <1>2, <1>3, <1>4, KeptOf, LimitAssumption
    <3> QED BY <1>3, <2>2, <3>1, <3>2 DEF FrameInv, ps, opens
  <2>3. \A k \in 1..Len(frames') : FrameInv(frames'[k], k) /\ frames'[k].path \in ps
    BY <1>2, <1>8, <2>1, <2>2
  <2>4. ASSUME NEW k \in 1..(Len(frames') - 1)
        PROVE  frames'[k].taken > 0 /\ CallOf(frames'[k + 1]) = Kid(CallOf(frames'[k]), frames'[k].taken)
    <3>1. CASE k < n
      <4>1. k \in 1..(Len(frames) - 1) /\ k \in 1..n /\ k + 1 \in 1..n
        BY <1>2, <3>1 DEF n
      <4> QED BY <1>2, <1>8, <4>1 DEF FramesInv
    <3>2. CASE ~(k < n)
      <4>1. k = n /\ opens /\ n > 0 /\ n \in 1..n
        BY <1>2, <1>8, <3>2
      <4>2. CallOf(new) = pending
        BY <1>3 DEF CallOf, new
      <4> QED BY <1>7, <1>8, <4>1, <4>2
    <3> QED BY <3>1, <3>2
  <2>5. \A j, k \in 1..n : frames[j].obj = frames[k].obj => j = k
    BY <1>2 DEF FramesInv, n
  <2>6. \A j, k \in 1..Len(frames') : frames'[j].obj = frames'[k].obj => j = k
    <3>1. \A k \in 1..n : frames[k].obj # o
      BY <1>4, <1>6
    <3>2. new.obj = o
      BY DEF new
    <3> QED BY <1>2, <1>8, <2>5, <3>1, <3>2
  <2>7. active = {frames[k].obj : k \in 1..n}
    BY <1>2 DEF FramesInv, n
  <2>8. active' = {frames'[k].obj : k \in 1..Len(frames')}
    <3>1. CASE opens
      <4>1. active' = active \cup {o} /\ Len(frames') = n + 1 /\ frames'[n + 1].obj = o
        BY <1>1, <1>8, <3>1 DEF new
      <4>2. \A k \in 1..(n + 1) : k = n + 1 \/ k \in 1..n
        BY <1>2
      <4>3. n + 1 \in 1..(n + 1) /\ \A k \in 1..n : k \in 1..(n + 1)
        BY <1>2
      <4> QED BY <1>8, <2>7, <4>1, <4>2, <4>3
    <3>2. CASE ~opens
      BY <1>1, <1>8, <2>7, <3>2
    <3> QED BY <3>1, <3>2
  <2> QED BY <1>8, <2>3, <2>4, <2>6, <2>8 DEF FramesInv
<1>11. PendingInv(None, frames', ps)
  BY DEF PendingInv
<1>12. PlacesInv(ps, nodes + 1, None, frames')
  <2>1. ps \subseteq Seq(Nat) /\ IsFiniteSet(ps) /\ nodes + 1 = Cardinality(ps)
    BY <1>2, <1>3, FS_AddElement DEF PlacesInv, ps
  <2>2. \A q \in ps : \E v \in Unfolded : v.path = q
    BY <1>2, <1>5 DEF PlacesInv, ps, p
  <2>3. ASSUME NEW q \in Seq(Nat), NEW i \in Nat, Append(q, i) \in ps PROVE q \in ps
    <3>1. CASE Append(q, i) \in places
      BY <1>2, <3>1 DEF PlacesInv, ps
    <3>2. CASE Append(q, i) = p
      <4>1. n > 0 /\ q = frames[n].path /\ n \in 1..n
        BY <1>2, <1>9, <3>2
      <4> QED BY <1>6, <4>1 DEF ps
    <3> QED BY <2>3, <3>1, <3>2 DEF ps
  <2>4. <<>> \in ps
    <3>1. CASE <<>> \in places
      BY <3>1 DEF ps
    <3>2. CASE frames = <<>>
      <4>1. n = 0
        BY <3>2 DEF n
      <4>2. p = <<>>
        BY <1>3, <4>1
      <4> QED BY <4>2 DEF ps
    <3> QED BY <1>2, <3>1, <3>2 DEF PlacesInv
  <2> QED BY <1>4, <2>1, <2>2, <2>3, <2>4 DEF PlacesInv
<1>13. TakenInv(frames', ps, None)
  <2> SUFFICES ASSUME NEW k \in 1..Len(frames'), NEW i \in Nat \ {0}
               PROVE  /\ i > frames'[k].taken => Append(frames'[k].path, i) \notin ps
                      /\ i <= frames'[k].taken => Append(frames'[k].path, i) \in ps
    BY DEF TakenInv
  <2>1. CASE k \in 1..n
    <3>1. frames'[k] = frames[k] /\ frames[k].path \in Seq(Nat) /\ frames[k].taken \in Nat
      BY <1>6, <1>8, <2>1
    <3>2. /\ i > frames[k].taken => Append(frames[k].path, i) \notin places
          /\ i <= frames[k].taken => \/ Append(frames[k].path, i) \in places
                                     \/ k = n /\ i = frames[k].taken
      BY <1>2, <2>1 DEF TakenInv, n
    <3>3. Append(frames[k].path, i) = p <=> k = n /\ i = frames[k].taken
      <4>1. ASSUME Append(frames[k].path, i) = p PROVE k = n /\ i = frames[k].taken
        <5>1. n > 0 /\ frames[k].path = frames[n].path /\ i = frames[n].taken /\ n \in 1..n
          <6>1. i \in Nat /\ frames[k].path \in Seq(Nat)
            BY <3>1
          <6>2. n > 0 /\ frames[k].path = frames[n].path /\ i = frames[n].taken
            BY <1>9, <4>1, <6>1
          <6> QED BY <1>2, <6>2
        <5>2. k - 1 = n - 1
          BY <1>6, <2>1, <5>1
        <5> QED BY <1>2, <2>1, <5>1, <5>2
      <4>2. ASSUME k = n, i = frames[k].taken PROVE Append(frames[k].path, i) = p
        BY <1>2, <1>7, <2>1, <4>2
      <4> QED BY <4>1, <4>2
    <3> QED BY <3>1, <3>2, <3>3 DEF ps
  <2>2. CASE k \notin 1..n
    <3>1. k = n + 1 /\ frames'[k] = new /\ new.path = p /\ new.taken = 0
      BY <1>2, <1>8, <2>2 DEF new
    <3>2. Append(p, i) \notin places
      BY <1>2, <1>3 DEF PlacesInv
    <3>3. Append(p, i) # p
      <4>1. Len(Append(p, i)) = n + 1
        BY <1>3
      <4> QED BY <1>2, <1>3, <4>1
    <3> QED BY <3>1, <3>2, <3>3 DEF ps
  <2> QED BY <2>1, <2>2
<1>14. ClosedInv(ps, frames', truncations)
  <2> SUFFICES ASSUME NEW v \in Unfolded, v.path \in ps
               PROVE  /\ FineAtSight(v.obj)
                      /\ v.path \notin {frames'[k].path : k \in 1..Len(frames')} =>
                           /\ FineAtEnd(v.obj)
                           /\ \A i \in 1..Kept(v.obj) : Append(v.path, i) \in ps
                           /\ Overlong(v) => CutNote(v) \in truncations
    BY DEF ClosedInv
  <2>1. CASE v.path \in places
    <3>1. \A k \in 1..n : k \in 1..Len(frames') /\ frames'[k] = frames[k]
      BY <1>2, <1>8
    <3>2. v.path \notin {frames'[k].path : k \in 1..Len(frames')} =>
            v.path \notin {frames[k].path : k \in 1..n}
      BY <3>1
    <3>3. /\ FineAtSight(v.obj)
          /\ v.path \notin {frames[k].path : k \in 1..n} =>
               /\ FineAtEnd(v.obj)
               /\ \A i \in 1..Kept(v.obj) : Append(v.path, i) \in places
               /\ Overlong(v) => CutNote(v) \in truncations
      BY <1>2, <2>1 DEF ClosedInv, n
    <3> QED BY <3>2, <3>3 DEF ps
  <2>2. CASE v.path = p
    <3>1. v = pending
      BY <1>5, <2>2, UnfoldedTypes DEF p
    <3>2. CASE opens
      <4>1. n + 1 \in 1..Len(frames') /\ frames'[n + 1].path = p
        BY <1>2, <1>8, <3>2 DEF new
      <4> QED BY <1>4, <2>2, <3>1, <4>1 DEF o
    <3>3. CASE ~opens
      <4>1. Kind(o) = "scalar"
        BY <1>3, <1>4, <3>3, GraphOf DEF FineAtSight, Kinds, opens
      <4>2. Kind(o) \notin Lists
        BY <4>1 DEF Lists
      <4>3. Kept(o) = 0
        BY <1>3, <4>1, <4>2, KeptOf, GraphOf
      <4> QED BY <1>4, <3>1, <4>1, <4>2, <4>3 DEF o, FineAtEnd, Overlong
    <3> QED BY <3>2, <3>3
  <2> QED BY <2>1, <2>2 DEF ps
<1> QED BY <1>1, <1>2, <1>10, <1>11, <1>12, <1>13, <1>14 DEF WalkInv

\* While children are taken, the last frame is there.
LEMMA TopOf ==
  ASSUME graph \in Graphs, WalkInv(pending, frames, active, nodes, places, truncations), Taking
  PROVE  /\ Len(frames) \in Nat /\ Len(frames) \in 1..Len(frames) /\ frames \in Seq(Frame)
         /\ Top = frames[Len(frames)] /\ pending = None
         /\ Top.obj \in Objects /\ Top.taken \in Nat /\ Top.taken <= Kept(Top.obj)
         /\ Top.path \in Seq(Nat) /\ CallOf(Top) \in Unfolded
         /\ CallOf(Top).obj = Top.obj /\ CallOf(Top).path = Top.path
         /\ Kind(Top.obj) \in Containers /\ (Kind(Top.obj) = "clashing" => Top.taken <= 1)
         /\ Len(Kids(Top.obj)) \in Nat /\ Kept(Top.obj) \in Nat /\ Kept(Top.obj) <= Len(Kids(Top.obj))
         /\ MaxCollectionItems \in Nat
<1>1. FramesInv(frames, places, active) /\ frames \in Seq(Frame) /\ frames # <<>> /\ pending = None
  BY DEF WalkInv, FramesInv, Taking
<1>2. Len(frames) \in Nat /\ Len(frames) \in 1..Len(frames) /\ Top = frames[Len(frames)]
  BY <1>1 DEF Top
<1>3. /\ FrameInv(Top, Len(frames)) /\ Top.obj \in Objects /\ Top.taken \in Nat
      /\ Top.path \in Seq(Nat) /\ CallOf(Top) \in Unfolded
      /\ CallOf(Top).obj = Top.obj /\ CallOf(Top).path = Top.path
  BY <1>1, <1>2, FrameOf
<1> QED BY <1>1, <1>2, <1>3, KeptOf, LimitAssumption DEF FrameInv

\* Taking the next child preserves the walk's invariant.
LEMMA TakeNextKeeps ==
  ASSUME graph \in Graphs, WalkInv(pending, frames, active, nodes, places, truncations),
         TakeNext
  PROVE  WalkInv(pending', frames', active', nodes', places', truncations')
<1> DEFINE n == Len(frames)
           i == Top.taken + 1
           call == CallOf(Top)
<1>1. /\ Taking /\ HasNext /\ ~AtLimit /\ ~Clashes
      /\ pending' = [obj |-> Kids(Top.obj)[i], path |-> Append(Top.path, i)]
      /\ frames' = [frames EXCEPT ![n].taken = @ + 1]
      /\ active' = active /\ nodes' = nodes /\ places' = places /\ truncations' = truncations
  BY DEF TakeNext
<1>2. /\ FramesInv(frames, places, active)
      /\ PlacesInv(places, nodes, pending, frames) /\ TakenInv(frames, places, pending)
      /\ ClosedInv(places, frames, truncations) /\ NotesInv(truncations)
  BY DEF WalkInv
<1>3. /\ n \in Nat /\ n \in 1..n /\ frames \in Seq(Frame) /\ Top = frames[n] /\ pending = None
      /\ Top.obj \in Objects /\ Top.taken \in Nat /\ Top.taken <= Kept(Top.obj)
      /\ Top.path \in Seq(Nat) /\ call \in Unfolded /\ call.obj = Top.obj /\ call.path = Top.path
      /\ Kind(Top.obj) \in Containers /\ (Kind(Top.obj) = "clashing" => Top.taken <= 1)
      /\ Len(Kids(Top.obj)) \in Nat /\ Kept(Top.obj) \in Nat /\ Kept(Top.obj) <= Len(Kids(Top.obj))
      /\ MaxCollectionItems \in Nat
  BY <1>1, TopOf
<1>4. i \in 1..Kept(Top.obj)
  BY <1>1, <1>3, KeptOf DEF HasNext, AtLimit
<1>5. pending' = Kid(call, i)
  BY <1>1, <1>3 DEF Kid
<1>6. /\ n - 1 \in 0..MaxDepth /\ call \in Level[n - 1] /\ FrameInv(frames[n], n)
  BY <1>2, <1>3, FrameOf
<1>7. n <= MaxDepth + 1 /\ pending' \in Level[n] /\ pending' \in Calls
  <2>1. (n - 1) + 1 = n /\ n \in 0..(MaxDepth + 1)
    BY <1>3, <1>6, LimitAssumption
  <2>2. pending' \in Level[n]
    BY <1>3, <1>4, <1>5, <1>6, <2>1, LevelNext
  <2> QED BY <2>1, <2>2, LevelTypes
<1>8. pending' # None
  BY <1>7, GraphOf
<1>9. Append(Top.path, i) \notin places
  BY <1>2, <1>3 DEF TakenInv
<1>10. /\ frames' \in Seq(Frame) /\ Len(frames') = n
       /\ \A k \in 1..n : /\ frames'[k] \in Frame /\ frames'[k].path = frames[k].path
                          /\ frames'[k].obj = frames[k].obj
                          /\ CallOf(frames'[k]) = CallOf(frames[k])
                          /\ k # n => frames'[k] = frames[k]
       /\ frames'[n].taken = i
  <2> DEFINE f == frames[n]
             new == [obj |-> f.obj, path |-> f.path, taken |-> i]
  <2>1. f \in Frame /\ i \in Nat /\ i = f.taken + 1
    BY <1>3, <1>4
  <2>2. new \in Frame /\ new.taken = i /\ new.obj = f.obj /\ new.path = f.path
    BY <2>1 DEF Frame
  <2>3. frames' = [frames EXCEPT ![n] = new]
    <3>1. frames' = [frames EXCEPT ![n] = [f EXCEPT !.taken = @ + 1]]
      BY <1>1
    <3> HIDE DEF f
    <3>2. [f EXCEPT !.taken = @ + 1] = new
      BY <2>1 DEF Frame
    <3> QED BY <3>1, <3>2
  <2> HIDE DEF new
  <2>4. frames' \in Seq(Frame) /\ Len(frames') = n
    BY <1>3, <2>2, <2>3, ExceptSeq
  <2>5. \A k \in 1..n : frames'[k] = IF k = n THEN new ELSE frames[k]
    BY <1>3, <2>2, <2>3, ExceptSeq
  <2>6. \A k \in 1..n : frames'[k] \in Frame
    BY <2>4, ElementOfSeq
  <2> QED BY <1>3, <2>2, <2>4, <2>5, <2>6 DEF CallOf
<1> HIDE DEF n, i, call
<1>11. FramesInv(frames', places, active)
  <2>1. ASSUME NEW k \in 1..n PROVE FrameInv(frames'[k], k) /\ frames'[k].path \in places
    <3>1. FrameInv(frames[k], k) /\ frames[k].path \in places
      BY <1>2 DEF FramesInv, n
    <3>2. CASE k # n
      BY <1>10, <3>1, <3>2
    <3>3. CASE k = n
      <4>1. Kind(Top.obj) = "clashing" => i <= 1
        BY <1>1, <1>3 DEF Clashes, i
      <4> QED BY <1>3, <1>4, <1>10, <3>1, <3>3, <4>1 DEF FrameInv
    <3> QED BY <3>2, <3>3
  <2>2. ASSUME NEW k \in 1..(n - 1)
        PROVE  frames'[k].taken > 0 /\ CallOf(frames'[k + 1]) = Kid(CallOf(frames'[k]), frames'[k].taken)
    <3>1. k \in 1..n /\ k + 1 \in 1..n /\ k # n
      BY <1>3
    <3>2. frames[k].taken > 0 /\ CallOf(frames[k + 1]) = Kid(CallOf(frames[k]), frames[k].taken)
      BY <1>2 DEF FramesInv, n
    <3> QED BY <1>10, <3>1, <3>2
  <2>3. \A j, k \in 1..n : frames'[j].obj = frames'[k].obj => j = k
    BY <1>2, <1>10 DEF FramesInv, n
  <2>4. active = {frames'[k].obj : k \in 1..n}
    BY <1>2, <1>10 DEF FramesInv, n
  <2> QED BY <1>10, <2>1, <2>2, <2>3, <2>4 DEF FramesInv
<1>12. PendingInv(pending', frames', places)
  <2>1. CallOf(frames'[n]) = call /\ frames'[n].taken = i /\ i > 0
    BY <1>3, <1>4, <1>10 DEF call
  <2>2. pending'.path \notin places
    BY <1>1, <1>9 DEF i
  <2> QED BY <1>5, <1>7, <1>10, <2>1, <2>2 DEF PendingInv
<1>13. PlacesInv(places, nodes, pending', frames')
  BY <1>2, <1>3 DEF PlacesInv
<1>14. TakenInv(frames', places, pending')
  <2> SUFFICES ASSUME NEW k \in 1..n, NEW j \in Nat \ {0}
               PROVE  /\ j > frames'[k].taken => Append(frames'[k].path, j) \notin places
                      /\ j <= frames'[k].taken =>
                           \/ Append(frames'[k].path, j) \in places
                           \/ k = n /\ j = frames'[k].taken
    BY <1>8, <1>10 DEF TakenInv
  <2>1. /\ j > frames[k].taken => Append(frames[k].path, j) \notin places
        /\ j <= frames[k].taken => Append(frames[k].path, j) \in places
    BY <1>2, <1>3 DEF TakenInv, n
  <2>2. CASE k # n
    BY <1>10, <2>1, <2>2
  <2>3. CASE k = n
    <3>1. frames[k].taken \in Nat /\ frames'[k].taken = frames[k].taken + 1
      BY <1>3, <1>10, <2>3 DEF i
    <3> QED BY <1>10, <2>1, <2>3, <3>1
  <2> QED BY <2>2, <2>3
<1>15. ClosedInv(places, frames', truncations)
  <2>1. {frames'[k].path : k \in 1..Len(frames')} = {frames[k].path : k \in 1..Len(frames)}
    BY <1>10 DEF n
  <2> QED BY <1>2, <2>1 DEF ClosedInv
<1> QED BY <1>1, <1>2, <1>11, <1>12, <1>13, <1>14, <1>15 DEF WalkInv

\* What is refused at its next child, or after its last, should be refused.
LEMMA RefusedAtNext ==
  ASSUME graph \in Graphs, WalkInv(pending, frames, active, nodes, places, truncations),
         NextThrows
  PROVE  ~Acceptable(MaxCollectionItems)
<1>1. /\ Taking
      /\ \/ HasNext /\ Clashes
         \/ ~HasNext /\ Kind(Top.obj) = "failing"
  BY DEF NextThrows
<1>2. /\ CallOf(Top) \in Unfolded /\ CallOf(Top).obj = Top.obj /\ Top.obj \in Objects
      /\ Top.taken \in Nat /\ Top.taken <= Kept(Top.obj) /\ Kept(Top.obj) \in Nat
      /\ Len(Kids(Top.obj)) \in Nat /\ MaxCollectionItems \in Nat
  BY <1>1, TopOf
<1>3. CASE HasNext /\ Clashes
  <2>1. Kind(Top.obj) = "clashing" /\ ~(Len(Kids(Top.obj)) < 2)
    BY <1>2, <1>3 DEF HasNext, Clashes
  <2> QED BY <1>2, <2>1 DEF Acceptable
<1>4. CASE ~HasNext /\ Kind(Top.obj) = "failing"
  <2>1. Kind(Top.obj) \in Lists
    BY <1>4 DEF Lists
  <2>2. ~(Len(Kids(Top.obj)) > MaxCollectionItems)
    BY <1>2, <1>4, <2>1, KeptOf DEF HasNext
  <2> QED BY <1>2, <1>4, <2>2 DEF Acceptable
<1> QED BY <1>1, <1>3, <1>4

\* Leaving the last frame, when what it took is what the result keeps.
LEMMA LeaveKeeps ==
  ASSUME graph \in Graphs, WalkInv(pending, frames, active, nodes, places, truncations),
         Taking, Leave, NEW ts, truncations \subseteq ts, NotesInv(ts),
         FineAtEnd(Top.obj), Top.taken = Kept(Top.obj),
         Overlong(CallOf(Top)) => CutNote(CallOf(Top)) \in ts
  PROVE  WalkInv(pending, frames', active', nodes, places, ts)
<1> DEFINE n == Len(frames)
           call == CallOf(Top)
<1>1. /\ FramesInv(frames, places, active)
      /\ PlacesInv(places, nodes, pending, frames) /\ TakenInv(frames, places, pending)
      /\ ClosedInv(places, frames, truncations)
  BY DEF WalkInv
<1>2. /\ n \in Nat /\ n \in 1..n /\ frames \in Seq(Frame) /\ Top = frames[n] /\ pending = None
      /\ Top.obj \in Objects /\ Top.path \in Seq(Nat)
      /\ call \in Unfolded /\ call.obj = Top.obj /\ call.path = Top.path
      /\ Kept(Top.obj) \in Nat
  BY TopOf
<1>3. frames' = SubSeq(frames, 1, n - 1) /\ active' = active \ {Top.obj}
  BY DEF Leave
<1>4. /\ frames' \in Seq(Frame) /\ Len(frames') = n - 1
      /\ \A k \in 1..(n - 1) : frames'[k] = frames[k] /\ k \in 1..n /\ k # n
  <2>1. 1 \in Int /\ n - 1 \in Int /\ \A k \in 1..(n - 1) : frames[k] \in Frame
    BY <1>2
  <2>2. /\ SubSeq(frames, 1, n - 1) \in Seq(Frame)
        /\ Len(SubSeq(frames, 1, n - 1)) = IF 1 <= n - 1 THEN (n - 1) - 1 + 1 ELSE 0
        /\ \A k \in 1..((n - 1) - 1 + 1) : SubSeq(frames, 1, n - 1)[k] = frames[1 + k - 1]
    BY <2>1, SubSeqProperties
  <2>3. \A k \in 1..(n - 1) : k \in 1..((n - 1) - 1 + 1) /\ 1 + k - 1 = k /\ k \in 1..n /\ k # n
    BY <1>2
  <2>4. Len(frames') = n - 1
    <3> HIDE DEF n, call
    <3>1. n \in Nat /\ n >= 1
      BY <1>2
    <3>2. n - 1 = IF 1 <= n - 1 THEN (n - 1) - 1 + 1 ELSE 0
      BY <3>1
    <3> QED BY <1>3, <2>2, <3>2
  <2>5. \A k \in 1..(n - 1) : frames'[k] = frames[k]
    <3> TAKE k \in 1..(n - 1)
    <3>1. frames'[k] = frames[1 + k - 1]
      BY <1>3, <2>2, <2>3
    <3> QED BY <2>3, <3>1
  <2> QED BY <1>3, <2>2, <2>3, <2>4, <2>5
<1> HIDE DEF n, call
<1>5. FramesInv(frames', places, active')
  <2>1. \A k \in 1..(n - 1) : FrameInv(frames'[k], k) /\ frames'[k].path \in places
    BY <1>1, <1>4 DEF FramesInv, n
  <2>2. ASSUME NEW k \in 1..((n - 1) - 1)
        PROVE  frames'[k].taken > 0 /\ CallOf(frames'[k + 1]) = Kid(CallOf(frames'[k]), frames'[k].taken)
    <3>1. k \in 1..(n - 1) /\ k + 1 \in 1..(n - 1)
      BY <1>2
    <3> QED BY <1>1, <1>4, <3>1 DEF FramesInv, n
  <2>3. \A j, k \in 1..n : frames[j].obj = frames[k].obj => j = k
    BY <1>1 DEF FramesInv, n
  <2>4. \A j, k \in 1..(n - 1) : frames'[j].obj = frames'[k].obj => j = k
    BY <1>4, <2>3
  <2>5. active' = {frames'[k].obj : k \in 1..(n - 1)}
    <3>1. active = {frames[k].obj : k \in 1..n}
      BY <1>1 DEF FramesInv, n
    <3>2. \A k \in 1..n : frames[k].obj = Top.obj <=> k = n
      BY <1>2, <2>3
    <3>3. \A k \in 1..n : k = n \/ k \in 1..(n - 1)
      BY <1>2
    <3> QED BY <1>2, <1>3, <1>4, <3>1, <3>2, <3>3
  <2> QED BY <1>4, <2>1, <2>2, <2>4, <2>5 DEF FramesInv
<1>6. PendingInv(pending, frames', places)
  BY <1>2 DEF PendingInv
<1>7. PlacesInv(places, nodes, pending, frames')
  BY <1>1, <1>2 DEF PlacesInv
<1>8. TakenInv(frames', places, pending)
  BY <1>1, <1>2, <1>4 DEF TakenInv, n
<1>9. ClosedInv(places, frames', ts)
  <2> SUFFICES ASSUME NEW v \in Unfolded, v.path \in places
               PROVE  /\ FineAtSight(v.obj)
                      /\ v.path \notin {frames'[k].path : k \in 1..(n - 1)} =>
                           /\ FineAtEnd(v.obj)
                           /\ \A i \in 1..Kept(v.obj) : Append(v.path, i) \in places
                           /\ Overlong(v) => CutNote(v) \in ts
    BY <1>4 DEF ClosedInv
  <2>1. CASE v.path = Top.path
    <3>1. v = call
      BY <1>2, <2>1, UnfoldedTypes
    <3>2. FineAtSight(v.obj)
      BY <1>1 DEF ClosedInv
    <3>3. \A i \in 1..Kept(v.obj) : Append(v.path, i) \in places
      <4>1. \A i \in 1..Kept(v.obj) : i \in Nat \ {0} /\ i <= Top.taken
        BY <1>2, <3>1
      <4>2. \A i \in Nat \ {0} : i <= Top.taken => Append(Top.path, i) \in places
        BY <1>1, <1>2 DEF TakenInv, n
      <4> QED BY <2>1, <4>1, <4>2
    <3> QED BY <1>2, <3>1, <3>2, <3>3 DEF call
  <2>2. CASE v.path # Top.path
    <3>1. \A k \in 1..n : k = n \/ k \in 1..(n - 1)
      BY <1>2
    <3>2. v.path \notin {frames'[k].path : k \in 1..(n - 1)} =>
            v.path \notin {frames[k].path : k \in 1..n}
      BY <1>2, <1>4, <2>2, <3>1
    <3> QED BY <1>1, <3>2 DEF ClosedInv, n
  <2> QED BY <2>1, <2>2
<1> QED BY <1>5, <1>6, <1>7, <1>8, <1>9 DEF WalkInv

\* Closing a container preserves it.
LEMMA CloseKeeps ==
  ASSUME graph \in Graphs, WalkInv(pending, frames, active, nodes, places, truncations),
         Close
  PROVE  WalkInv(pending', frames', active', nodes', places', truncations')
<1>1. /\ Taking /\ ~HasNext /\ Kind(Top.obj) # "failing" /\ Leave
      /\ pending' = pending /\ nodes' = nodes /\ places' = places /\ truncations' = truncations
  BY DEF Close
<1>2. /\ Top.taken \in Nat /\ Top.taken <= Kept(Top.obj) /\ Top.obj \in Objects
      /\ (Kind(Top.obj) = "clashing" => Top.taken <= 1)
      /\ Len(Kids(Top.obj)) \in Nat /\ Kept(Top.obj) \in Nat /\ Kept(Top.obj) <= Len(Kids(Top.obj))
      /\ MaxCollectionItems \in Nat /\ CallOf(Top).obj = Top.obj
  BY <1>1, TopOf
<1>3. Top.taken = Len(Kids(Top.obj)) /\ Top.taken = Kept(Top.obj)
  BY <1>1, <1>2 DEF HasNext
<1>4. FineAtEnd(Top.obj)
  BY <1>1, <1>2, <1>3 DEF FineAtEnd
<1>5. ~Overlong(CallOf(Top))
  BY <1>2, <1>3, KeptOf DEF Overlong
<1>6. NotesInv(truncations)
  BY DEF WalkInv
<1>7. WalkInv(pending, frames', active', nodes, places, truncations)
  BY <1>1, <1>3, <1>4, <1>5, <1>6, LeaveKeeps
<1> QED BY <1>1, <1>7

\* Cutting a list preserves it.
LEMMA CutKeeps ==
  ASSUME graph \in Graphs, WalkInv(pending, frames, active, nodes, places, truncations),
         Cut
  PROVE  WalkInv(pending', frames', active', nodes', places', truncations')
<1> DEFINE note == [path |-> Top.path, total |-> Total]
           ts == truncations \cup {note}
<1>1. /\ Taking /\ HasNext /\ AtLimit /\ Leave
      /\ pending' = pending /\ nodes' = nodes /\ places' = places /\ truncations' = ts
  BY DEF Cut
<1>2. /\ Top.taken \in Nat /\ Top.obj \in Objects /\ MaxCollectionItems \in Nat
      /\ Len(Kids(Top.obj)) \in Nat
      /\ CallOf(Top) \in Unfolded /\ CallOf(Top).obj = Top.obj /\ CallOf(Top).path = Top.path
  BY <1>1, TopOf
<1>3. /\ Kind(Top.obj) \in Lists /\ Top.taken = MaxCollectionItems
      /\ Top.taken < Len(Kids(Top.obj))
  BY <1>1 DEF AtLimit, HasNext
<1>4. Top.taken = Kept(Top.obj)
  BY <1>2, <1>3, KeptOf
<1>5. FineAtEnd(Top.obj)
  BY <1>2, <1>3 DEF FineAtEnd, Lists
<1>6. Overlong(CallOf(Top)) /\ CutNote(CallOf(Top)) = note
  BY <1>2, <1>3 DEF Overlong, CutNote, Total
<1>7. NotesInv(ts)
  <2>1. NotesInv(truncations)
    BY DEF WalkInv
  <2> HIDE DEF note
  <2> QED BY <1>2, <1>6, <2>1 DEF NotesInv
<1>8. truncations \subseteq ts /\ note \in ts
  OBVIOUS
<1> HIDE DEF ts, note
<1>9. WalkInv(pending, frames', active', nodes, places, ts)
  BY <1>1, <1>4, <1>5, <1>6, <1>7, <1>8, LeaveKeeps
<1> QED BY <1>1, <1>9

\* A walk that has not begun satisfies the invariant.
LEMMA TraversalInitInv == TraversalInit => TraversalInv
<1> SUFFICES ASSUME TraversalInit PROVE TraversalInv
  OBVIOUS
<1>1. /\ graph \in Graphs /\ pending = RootCall /\ frames = <<>> /\ active = {} /\ nodes = 0
      /\ places = {} /\ truncations = {} /\ outcome = "running" /\ Len(frames) = 0
  BY DEF TraversalInit, RootCall
<1>2. FramesInv(frames, places, active)
  BY <1>1 DEF FramesInv
<1>3. PendingInv(pending, frames, places)
  BY <1>1, LevelZero, LimitAssumption DEF PendingInv
<1>4. PlacesInv(places, nodes, pending, frames)
  <2>1. RootCall \in Calls /\ None \notin Calls
    BY <1>1, GraphOf DEF Calls, RootCall
  <2>2. IsFiniteSet({}) /\ Cardinality({}) = 0
    BY FS_EmptySet
  <2> QED BY <1>1, <2>1, <2>2, LimitAssumption DEF PlacesInv
<1>5. TakenInv(frames, places, pending) /\ ClosedInv(places, frames, truncations) /\ NotesInv(truncations)
  BY <1>1 DEF TakenInv, ClosedInv, NotesInv
<1>6. OutcomeInv(outcome, pending, frames)
  BY <1>1 DEF OutcomeInv
<1> QED BY <1>1, <1>2, <1>3, <1>4, <1>5, <1>6 DEF TraversalInv, WalkInv

\* Every step of the walk preserves it.
LEMMA TraversalStep == TraversalInv /\ [TraversalNext]_traversalVars => TraversalInv'
<1> SUFFICES ASSUME TraversalInv, [TraversalNext]_traversalVars PROVE TraversalInv'
  OBVIOUS
<1>1. /\ graph \in Graphs /\ OutcomeInv(outcome, pending, frames)
      /\ outcome # "refused" => WalkInv(pending, frames, active, nodes, places, truncations)
  BY DEF TraversalInv
<1>2. pending # None => outcome = "running"
  BY <1>1 DEF OutcomeInv
<1>3. CASE ConvertRefused
  <2>1. /\ pending # None /\ Throws(pending.obj, pending.path) /\ outcome' = "refused"
        /\ pending' = None /\ graph' = graph
    BY <1>3 DEF ConvertRefused, Refuse
  <2>2. ~Acceptable(MaxCollectionItems)
    BY <1>1, <1>2, <2>1, RefusedAtSight
  <2>3. OutcomeInv(outcome', pending', frames')
    BY <2>1, <2>2 DEF OutcomeInv
  <2> QED BY <1>1, <2>1, <2>3, SameGraph
<1>4. CASE Convert
  <2>1. pending # None /\ pending' = None /\ graph' = graph /\ outcome' = outcome
    BY <1>4 DEF Convert
  <2>2. OutcomeInv(outcome', pending', frames')
    BY <1>2, <2>1 DEF OutcomeInv
  <2>3. WalkInv(pending', frames', active', nodes', places', truncations')
    BY <1>1, <1>2, <1>4, <2>1, ConvertKeeps
  <2> QED BY <1>1, <2>1, <2>2, <2>3, SameGraph
<1>5. CASE TakeNext
  <2>1. outcome = "running" /\ graph' = graph /\ outcome' = outcome
    BY <1>5 DEF TakeNext, Taking
  <2>2. OutcomeInv(outcome', pending', frames')
    BY <2>1 DEF OutcomeInv
  <2>3. WalkInv(pending', frames', active', nodes', places', truncations')
    BY <1>1, <1>5, <2>1, TakeNextKeeps
  <2> QED BY <1>1, <2>1, <2>2, <2>3, SameGraph
<1>6. CASE NextThrows
  <2>1. outcome = "running" /\ graph' = graph /\ outcome' = "refused" /\ pending' = None
    BY <1>6 DEF NextThrows, Taking, Refuse
  <2>2. ~Acceptable(MaxCollectionItems)
    BY <1>1, <1>6, <2>1, RefusedAtNext
  <2>3. OutcomeInv(outcome', pending', frames')
    BY <2>1, <2>2 DEF OutcomeInv
  <2> QED BY <1>1, <2>1, <2>3, SameGraph
<1>7. CASE Cut
  <2>1. outcome = "running" /\ graph' = graph /\ outcome' = outcome
    BY <1>7 DEF Cut, Taking
  <2>2. OutcomeInv(outcome', pending', frames')
    BY <2>1 DEF OutcomeInv
  <2>3. WalkInv(pending', frames', active', nodes', places', truncations')
    BY <1>1, <1>7, <2>1, CutKeeps
  <2> QED BY <1>1, <2>1, <2>2, <2>3, SameGraph
<1>8. CASE Close
  <2>1. outcome = "running" /\ graph' = graph /\ outcome' = outcome
    BY <1>8 DEF Close, Taking
  <2>2. OutcomeInv(outcome', pending', frames')
    BY <2>1 DEF OutcomeInv
  <2>3. WalkInv(pending', frames', active', nodes', places', truncations')
    BY <1>1, <1>8, <2>1, CloseKeeps
  <2> QED BY <1>1, <2>1, <2>2, <2>3, SameGraph
<1>9. CASE Return
  <2>1. /\ outcome = "running" /\ pending = None /\ frames = <<>> /\ outcome' = "converted"
        /\ graph' = graph /\ pending' = pending /\ frames' = frames /\ active' = active
        /\ nodes' = nodes /\ places' = places /\ truncations' = truncations
    BY <1>9 DEF Return
  <2>2. OutcomeInv(outcome', pending', frames')
    BY <2>1 DEF OutcomeInv
  <2>3. WalkInv(pending', frames', active', nodes', places', truncations')
    BY <1>1, <2>1
  <2> QED BY <1>1, <2>1, <2>2, <2>3, SameGraph
<1>10. CASE UNCHANGED traversalVars
  <2>1. /\ graph' = graph /\ pending' = pending /\ frames' = frames /\ active' = active
        /\ nodes' = nodes /\ places' = places /\ truncations' = truncations /\ outcome' = outcome
    BY <1>10 DEF traversalVars
  <2> QED BY <1>1, <2>1, SameGraph
<1> QED BY <1>3, <1>4, <1>5, <1>6, <1>7, <1>8, <1>9, <1>10 DEF TraversalNext

\* What has been converted is closed under children but for the frames, and the
\* frames are one branch of the value, at every step of the walk.
THEOREM TraversalInvariance == TraversalSpec => []TraversalInv
BY TraversalInitInv, TraversalStep, PTL DEF TraversalSpec

\* At the end nothing is half way: every place of the unfolding is there.
LEMMA AllIsConverted ==
  ASSUME TraversalInv, outcome = "converted"
  PROVE  /\ graph \in Graphs /\ WalkInv(None, <<>>, active, nodes, places, truncations)
         /\ \A v \in Unfolded :
              /\ v.path \in places /\ FineAtSight(v.obj) /\ FineAtEnd(v.obj)
              /\ \A i \in 1..Kept(v.obj) : Append(v.path, i) \in places
              /\ Overlong(v) => CutNote(v) \in truncations
<1>1. /\ graph \in Graphs /\ pending = None /\ frames = <<>>
      /\ WalkInv(None, <<>>, active, nodes, places, truncations)
  BY DEF TraversalInv, OutcomeInv
<1>2. ASSUME NEW v \in Unfolded, v.path \in places
      PROVE  /\ FineAtSight(v.obj) /\ FineAtEnd(v.obj)
             /\ \A i \in 1..Kept(v.obj) : Append(v.path, i) \in places
             /\ Overlong(v) => CutNote(v) \in truncations
  <2>1. ClosedInv(places, <<>>, truncations)
    BY <1>1 DEF WalkInv
  <2> DEFINE nothing == <<>>
  <2>2. v.path \notin {nothing[k].path : k \in 1..Len(nothing)}
    OBVIOUS
  <2> QED BY <1>2, <2>1, <2>2 DEF ClosedInv
<1> DEFINE T == {d \in Nat : d \in 0..MaxDepth => \A v \in Level[d] : v.path \in places}
<1>3. 0 \in T
  <2>1. <<>> \in places
    BY <1>1 DEF WalkInv, PlacesInv
  <2> QED BY <2>1, LevelZero DEF RootCall
<1>4. ASSUME NEW d \in T PROVE d + 1 \in T
  <2>1. SUFFICES ASSUME d + 1 \in 0..MaxDepth, NEW w \in Level[d + 1] PROVE w.path \in places
    BY <1>4
  <2>2. d \in 0..MaxDepth
    BY <2>1, LimitAssumption
  <2>3. PICK v \in Level[d] : \E i \in 1..Kept(v.obj) : w = Kid(v, i)
    BY <2>2, LevelNext
  <2>4. v \in Unfolded /\ v.path \in places
    BY <1>1, <2>2, UnfoldedTypes
  <2> QED BY <1>2, <2>3, <2>4 DEF Kid
<1>5. T = Nat
  BY <1>3, <1>4, AllNumbers
<1>6. \A v \in Unfolded : v.path \in places
  BY <1>1, <1>5, UnfoldedTypes
<1> QED BY <1>1, <1>2, <1>6

\* What the walk has converted is acceptable.
LEMMA ConvertedIsAcceptable ==
  TraversalInv /\ outcome = "converted" => Acceptable(MaxCollectionItems)
<1> SUFFICES ASSUME TraversalInv, outcome = "converted" PROVE Acceptable(MaxCollectionItems)
  OBVIOUS
<1>1. /\ graph \in Graphs /\ PlacesInv(places, nodes, None, <<>>)
      /\ \A v \in Unfolded :
           /\ v.path \in places /\ FineAtSight(v.obj) /\ FineAtEnd(v.obj)
           /\ \A i \in 1..Kept(v.obj) : Append(v.path, i) \in places
  BY AllIsConverted DEF WalkInv
<1>2. Level[MaxDepth + 1] = {}
  <2> SUFFICES ASSUME NEW w \in Level[MaxDepth + 1] PROVE FALSE
    OBVIOUS
  <2>1. MaxDepth \in 0..MaxDepth /\ MaxDepth + 1 \in 0..(MaxDepth + 1) /\ MaxDepth \in Nat
    BY LimitAssumption
  <2>2. PICK v \in Level[MaxDepth] : \E i \in 1..Kept(v.obj) : w = Kid(v, i)
    BY <2>1, LevelNext
  <2>3. v \in Unfolded
    BY <1>1, <2>1, UnfoldedTypes
  <2>4. w.path \in places
    BY <1>1, <2>2, <2>3 DEF Kid
  <2>5. PICK u \in Unfolded : u.path = w.path
    BY <1>1, <2>4 DEF PlacesInv
  <2>6. Len(u.path) \in 0..MaxDepth /\ Len(w.path) = MaxDepth + 1
    BY <1>1, <2>1, UnfoldedTypes, LevelTypes
  <2> QED BY <2>1, <2>5, <2>6
<1>3. Cardinality(Unfolded) <= MaxTotalNodes
  <2>1. /\ places \in SUBSET Seq(Nat) /\ IsFiniteSet(places)
        /\ nodes = Cardinality(places) /\ nodes <= MaxTotalNodes
    BY <1>1 DEF PlacesInv
  <2>2. Cardinality(Unfolded) <= nodes
    BY <1>1, <2>1, PlacesAreCounted
  <2>3. Cardinality(Unfolded) \in Nat /\ nodes \in Nat /\ MaxTotalNodes \in Nat
    BY <1>1, <2>1, UnfoldedIsFinite, FS_CardinalityType, LimitAssumption
  <2> QED BY <2>1, <2>2, <2>3
<1> QED BY <1>1, <1>2, <1>3 DEF Acceptable, FineAtSight, FineAtEnd

\* The walk converts what should be converted and refuses the rest, for every
\* value and all limits: sharing is not taken for a cycle, and no cycle, depth
\* or breadth escapes the limits.
THEOREM ConversionIsExact == TraversalSpec => []ConvertsExactlyTheAcceptable
<1>1. TraversalInv => ConvertsExactlyTheAcceptable
  BY ConvertedIsAcceptable DEF ConvertsExactlyTheAcceptable, TraversalInv, OutcomeInv
<1> QED BY <1>1, TraversalInvariance, PTL

\* A converted result has every place of the value but the items past the
\* limit, and says so of each list it cut.
THEOREM CutsAreNeverSilent == TraversalSpec => []CutsAreReported
<1>1. TraversalInv => CutsAreReported
  <2> SUFFICES ASSUME TraversalInv, outcome = "converted"
               PROVE  /\ places = {v.path : v \in Unfolded}
                      /\ truncations = {CutNote(v) : v \in {w \in Unfolded : Overlong(w)}}
    BY DEF CutsAreReported, CutNote
  <2>1. /\ PlacesInv(places, nodes, None, <<>>) /\ NotesInv(truncations)
        /\ \A v \in Unfolded : v.path \in places /\ (Overlong(v) => CutNote(v) \in truncations)
    BY AllIsConverted DEF WalkInv
  <2>2. \A p \in places : \E v \in Unfolded : v.path = p
    BY <2>1 DEF PlacesInv
  <2>3. places = {v.path : v \in Unfolded}
    BY <2>1, <2>2
  <2>4. \A t \in truncations : \E v \in Unfolded : Overlong(v) /\ t = CutNote(v)
    BY <2>1 DEF NotesInv
  <2>5. truncations = {CutNote(v) : v \in {w \in Unfolded : Overlong(w)}}
    BY <2>1, <2>4
  <2> QED BY <2>3, <2>5
<1> QED BY <1>1, TraversalInvariance, PTL

-----------------------------------------------------------------------------
(* The completion observer.  Whoever exchanges _disposed first is the one   *)
(* that records and cleans up; everything else follows from there being one. *)

Recording == {"category", "details", "recorded"}
Closing == {"release", "unsubscribe", "uncount", "timer", "terminal"}
Phases == {"none", "stop", "matched"} \cup Recording \cup Closing

\* The actor has won the observer and is not done with it.
Holds(o, a) == work[o][a] \in Recording \cup Closing

\* The values of the fields.
FieldTypes ==
  /\ pc \in [Operation -> {"idle", "count", "subscribe", "check", "record", "check again", "arm",
                           "failing", "unobserved", "running", "closing", "over"}]
  /\ disposed \in [Operation -> BOOLEAN] /\ owned \in [Operation -> BOOLEAN]
  /\ handlers \subseteq Operation
  /\ expiry \in [Operation -> {"idle", "armed", "disposed"}]
  /\ work \in [Operation -> [Actor -> Phases]]
  /\ raised \in [Thread -> [event : Event \cup {None}, pending : SUBSET Operation]]
  /\ state \in [Operation -> {"NotStarted", "Running"} \cup Terminal]
  /\ category \in [Operation -> Event \cup {None}] /\ details \in [Operation -> Event \cup {None}]
  /\ recorded \in [Operation -> BOOLEAN]

\* One actor at most has won an observer, and it has until it reports the end.
ClaimInv(o) ==
  /\ \A a \in Actor : Holds(o, a) => disposed[o] /\ state[o] \notin Terminal
  /\ \A a, b \in Actor : Holds(o, a) /\ Holds(o, b) => a = b
  /\ disposed[o] => state[o] \in Terminal \/ \E a \in Actor : Holds(o, a)
  /\ state[o] \in Terminal => disposed[o]
  /\ \A t \in Thread : work[o][t] # "stop"
  /\ \A a \in {Caller, Timer} : work[o][a] \notin {"matched"} \cup Recording

\* Nobody knows an observer that is not subscribed yet; its caller has stopped
\* it, or is about to, when it goes on without it.
SetUpInv(o) ==
  /\ pc[o] \in {"idle", "count", "subscribe"} =>
       /\ ~disposed[o] /\ o \notin handlers
       /\ \A a \in Actor : work[o][a] = "none"
       /\ \A t \in Thread : o \notin raised[t].pending
  /\ pc[o] \in {"failing", "closing"} => disposed[o] \/ work[o][Caller] = "stop"
  /\ pc[o] \in {"unobserved", "over"} => disposed[o]
  /\ pc[o] \notin {"failing", "closing"} => work[o][Caller] = "none"
  /\ pc[o] \in {"idle", "count", "subscribe", "check", "record", "check again", "arm"} =>
       expiry[o] # "armed" /\ work[o][Timer] = "none"
  /\ expiry[o] = "armed" => work[o][Timer] = "none"

\* The subscription is owned until its release, and in the list until then.
SubscriptionInv(o) ==
  /\ pc[o] # "idle"
       /\ (~disposed[o] \/ \E a \in Actor : work[o][a] \in Recording \cup {"release"}) => owned[o]
  /\ o \in handlers =>
       state[o] \notin Terminal /\ \A a \in Actor : work[o][a] \notin {"uncount", "timer", "terminal"}

\* A thread handles what the runtime called it for; what it was called for is
\* of the operation, unless its observer has been won.
HandlingInv(o) ==
  \A t \in Thread :
    /\ work[o][t] # "none" => o \in raised[t].pending
    /\ o \in raised[t].pending =>
         raised[t].event # None /\ (disposed[o] \/ raised[t].event.during = o)
    /\ work[o][t] \in Recording => raised[t].event.during = o

\* What is recorded is one event, recorded by the thread that won.
EventInv(o) ==
  /\ ~disposed[o] => category[o] = None /\ ~recorded[o]
  /\ \A t \in Thread :
       /\ work[o][t] = "category" => category[o] = None /\ ~recorded[o]
       /\ work[o][t] \in {"details", "recorded"} => category[o] = raised[t].event /\ ~recorded[o]
       /\ work[o][t] = "recorded" => details[o] = raised[t].event
       /\ work[o][t] \in Closing => recorded[o]
  /\ \A a \in {Caller, Timer} : work[o][a] \in Closing => ~recorded[o]
  /\ recorded[o] => category[o] # None /\ details[o] = category[o]
  /\ state[o] = "Matched" => recorded[o]
  /\ state[o] \in Terminal \ {"Matched"} => ~recorded[o]
  /\ category[o] # None => category[o].during = o

\* The observers that are counted.
Counted ==
  {o \in Operation : pc[o] \notin {"idle", "count"} /\ state[o] \notin Terminal
                     /\ \A a \in Actor : work[o][a] \notin {"timer", "terminal"}}

\* The reader's fields are those of the observer, as far as it has read them.
ReaderInv ==
  /\ reader \in [step : {"idle", "recorded", "details", "category", "done"}, op : Operation \cup {None},
                 state : {"NotStarted", "Running"} \cup Terminal \cup {None}, recorded : BOOLEAN,
                 details : Event \cup {None}, category : Event \cup {None}]
  /\ reader.step # "idle" =>
       /\ reader.op \in Operation
       /\ reader.state \in Terminal => state[reader.op] = reader.state
  /\ reader.step \in {"details", "category"} => reader.recorded
  /\ reader.step \in {"details", "category", "done"} =>
       /\ reader.recorded => recorded[reader.op]
       /\ reader.state = "Matched" => reader.recorded
  /\ reader.step \in {"category", "done"} /\ reader.recorded =>
       reader.details = details[reader.op]
  /\ reader.step = "done" /\ reader.recorded => reader.category = category[reader.op]

OneInv(o) == ClaimInv(o) /\ SetUpInv(o) /\ SubscriptionInv(o) /\ HandlingInv(o) /\ EventInv(o)

ObservedInv ==
  /\ FieldTypes
  /\ \A o, p \in Current : o = p
  /\ \A o \in Operation : OneInv(o)
  /\ count = Cardinality(Counted)

\* What every step keeps of an observer.
Settled(o) ==
  /\ state[o] \in Terminal => state'[o] = state[o]
  /\ recorded[o] => recorded'[o] /\ details'[o] = details[o] /\ category'[o] = category[o]

StepKept == ObservedInv' /\ \A o \in Operation : Settled(o)

\* A step leaves an observer as it is.
Same(o) ==
  /\ pc'[o] = pc[o] /\ disposed'[o] = disposed[o] /\ owned'[o] = owned[o]
  /\ o \in handlers' <=> o \in handlers
  /\ expiry'[o] = expiry[o] /\ \A a \in Actor : work'[o][a] = work[o][a]
  /\ state'[o] = state[o] /\ category'[o] = category[o] /\ details'[o] = details[o]
  /\ recorded'[o] = recorded[o]

\* A step leaves what the threads handle of an observer as it is.
SameRaised(o) ==
  \A t \in Thread :
    /\ raised'[t].event = raised[t].event
    /\ o \in raised'[t].pending <=> o \in raised[t].pending

-----------------------------------------------------------------------------
\* An observer that a step leaves alone keeps its invariant.
LEMMA Elsewhere ==
  ASSUME NEW o \in Operation, OneInv(o), Same(o), SameRaised(o)
  PROVE  OneInv(o)' /\ Settled(o)
<1> USE DEF OneInv, Same, SameRaised, Actor
<1>1. ClaimInv(o)'
  BY DEF ClaimInv, Holds
<1>2. SetUpInv(o)'
  BY DEF SetUpInv
<1>3. SubscriptionInv(o)'
  BY DEF SubscriptionInv
<1>4. HandlingInv(o)'
  BY DEF HandlingInv
<1>5. EventInv(o)'
  BY DEF EventInv
<1> QED
  BY <1>1, <1>2, <1>3, <1>4, <1>5 DEF Settled

\* A step of one observer: what is left to show.
LEMMA StepOfOne ==
  ASSUME ObservedInv, NEW o \in Operation, FieldTypes', Current' \subseteq Current \/ Current' \subseteq {o},
         \A p \in Operation : SameRaised(p) \/ p = o, \A p \in Operation \ {o} : Same(p),
         OneInv(o)', Settled(o), count' = Cardinality(Counted')
  PROVE  StepKept
BY Elsewhere DEF StepKept, ObservedInv

\* Observers are counted as before.
LEMMA CountedAsBefore ==
  ASSUME ObservedInv, NEW o \in Operation, \A p \in Operation \ {o} : Same(p),
         o \in Counted' <=> o \in Counted, count' = count
  PROVE  count' = Cardinality(Counted')
<1>1. Counted' = Counted
  BY DEF Counted, Same
<1> QED
  BY <1>1 DEF ObservedInv

\* One actor goes on to its next phase; the others stay where they are.
LEMMA Goes ==
  ASSUME FieldTypes, NEW o \in Operation, NEW a \in Actor,
         NEW phase \in Phases, Go(o, a, phase)
  PROVE  /\ work' \in [Operation -> [Actor -> Phases]]
         /\ \A p \in Operation, b \in Actor :
              work'[p][b] = IF p = o /\ b = a THEN phase ELSE work[p][b]
BY DEF FieldTypes, Go

\* The end an actor reports tells whether it was an exception thread.
LEMMA VerdictOf ==
  ASSUME ObserverAssumption, NEW o, NEW a \in Actor
  PROVE  /\ a \in Thread => Verdict(o, a) = "Matched"
         /\ a \in {Caller, Timer} => Verdict(o, a) \in Terminal \ {"Matched"}
BY DEF Verdict, Terminal, Actor, Caller, Timer, ObserverAssumption

\* The thread's handler of the observer has returned; nothing else changed.
LEMMA ReturnedIs ==
  ASSUME FieldTypes, NEW o \in Operation, NEW a \in Actor, raised' = Returned(o, a)
  PROVE  /\ raised' \in [Thread -> [event : Event \cup {None}, pending : SUBSET Operation]]
         /\ \A t \in Thread :
              /\ raised'[t].event = raised[t].event
              /\ \A p : p \in raised'[t].pending <=>
                         p \in raised[t].pending /\ ~(t = a /\ p = o)
<1>1. raised \in [Thread -> [event : Event \cup {None}, pending : SUBSET Operation]]
  BY DEF FieldTypes
<1>2. CASE a \in Thread
  <2>1. raised' = [raised EXCEPT ![a] = [raised[a] EXCEPT !.pending = @ \ {o}]]
    BY <1>2 DEF Returned
  <2> QED
    BY <1>1, <1>2, <2>1
<1>3. CASE a \notin Thread
  BY <1>1, <1>3 DEF Returned
<1> QED
  BY <1>2, <1>3

\* An actor stops an observer: the first one wins it.
LEMMA StopStep ==
  ASSUME ObserverAssumption, ObservedInv, NEW o \in Operation, NEW a \in Actor, Stop(o, a)
  PROVE  StepKept
<1> DEFINE phase == IF disposed[o] THEN "none" ELSE "release"
<1>1. /\ work[o][a] = "stop" /\ disposed' = [disposed EXCEPT ![o] = TRUE] /\ Go(o, a, phase)
      /\ phase \in {"none", "release"}
      /\ UNCHANGED <<pc, owned, count, handlers, expiry, raised, fieldVars, reader>>
  BY DEF Stop
<1>2. /\ work' \in [Operation -> [Actor -> Phases]]
      /\ \A p \in Operation, b \in Actor :
           work'[p][b] = IF p = o /\ b = a THEN phase ELSE work[p][b]
  <2>1. phase \in Phases
    BY DEF Phases, Recording, Closing
  <2> QED
    BY <1>1, <2>1, Goes DEF ObservedInv
<1>3. FieldTypes' /\ Current' \subseteq Current
  BY <1>1, <1>2 DEF ObservedInv, FieldTypes, fieldVars, stopVars, Current, Terminal
<1>4. /\ \A p \in Operation \ {o} : SameRaised(p)
      /\ \A p \in Operation \ {o} : Same(p)
  BY <1>1, <1>2 DEF Same, SameRaised, fieldVars, stopVars, ObservedInv, FieldTypes
<1>5. /\ OneInv(o)
      /\ \A b \in Actor : work'[o][b] = IF b = a THEN phase ELSE work[o][b]
      /\ disposed[o] \in BOOLEAN /\ disposed'[o]
  BY <1>1, <1>2 DEF ObservedInv, FieldTypes
<1> USE DEF OneInv, fieldVars, stopVars, Recording, Closing
<1>6. ClaimInv(o)'
  BY <1>1, <1>5 DEF ClaimInv, Holds, Actor
<1>7. SetUpInv(o)'
  BY <1>1, <1>5 DEF SetUpInv, ClaimInv, Actor
<1>8. SubscriptionInv(o)'
  BY <1>1, <1>5 DEF SubscriptionInv, SetUpInv, ClaimInv
<1>9. HandlingInv(o)'
  BY <1>1, <1>5 DEF HandlingInv, ClaimInv, Actor
<1>10. EventInv(o)'
  BY <1>1, <1>5 DEF EventInv, ClaimInv, Actor
<1>11. Settled(o) /\ (o \in Counted' <=> o \in Counted)
  BY <1>1, <1>5 DEF Settled, Counted
<1> QED
  BY <1>1, <1>3, <1>4, <1>6, <1>7, <1>8, <1>9, <1>10, <1>11, StepOfOne, CountedAsBefore

\* The winner gives the subscription up, which it finds owned.
LEMMA ReleaseStep ==
  ASSUME ObserverAssumption, ObservedInv, NEW o \in Operation, NEW a \in Actor, Release(o, a)
  PROVE  StepKept
<1> DEFINE phase == IF owned[o] THEN "unsubscribe" ELSE "timer"
<1>1. /\ work[o][a] = "release" /\ owned' = [owned EXCEPT ![o] = FALSE] /\ Go(o, a, phase)
      /\ phase \in {"unsubscribe", "timer"}
      /\ UNCHANGED <<pc, disposed, count, handlers, expiry, raised, fieldVars, reader>>
  BY DEF Release
<1>2. /\ work' \in [Operation -> [Actor -> Phases]]
      /\ \A p \in Operation, b \in Actor :
           work'[p][b] = IF p = o /\ b = a THEN phase ELSE work[p][b]
  <2>1. phase \in Phases
    BY DEF Phases, Recording, Closing
  <2> QED
    BY <1>1, <2>1, Goes DEF ObservedInv
<1>3. FieldTypes' /\ Current' \subseteq Current
  BY <1>1, <1>2 DEF ObservedInv, FieldTypes, fieldVars, stopVars, Current, Terminal
<1>4. /\ \A p \in Operation \ {o} : SameRaised(p)
      /\ \A p \in Operation \ {o} : Same(p)
  BY <1>1, <1>2 DEF Same, SameRaised, fieldVars, stopVars, ObservedInv, FieldTypes
<1>5. /\ OneInv(o)
      /\ \A b \in Actor : work'[o][b] = IF b = a THEN phase ELSE work[o][b]
      /\ pc[o] # "idle" /\ owned[o] /\ phase = "unsubscribe"
      /\ disposed[o] /\ state[o] \notin Terminal /\ \A b \in Actor : Holds(o, b) => b = a
  <2>1. OneInv(o) /\ \A b \in Actor : work'[o][b] = IF b = a THEN phase ELSE work[o][b]
    BY <1>1, <1>2 DEF ObservedInv
  <2>2. pc[o] # "idle" /\ owned[o] /\ phase = "unsubscribe"
    BY <1>1, <2>1 DEF OneInv, SetUpInv, SubscriptionInv
  <2>3. Holds(o, a)
    BY <1>1 DEF Holds, Closing
  <2>4. disposed[o] /\ state[o] \notin Terminal /\ \A b \in Actor : Holds(o, b) => b = a
    BY <2>1, <2>3 DEF OneInv, ClaimInv
  <2> QED
    BY <2>1, <2>2, <2>4
<1> USE DEF OneInv, fieldVars, stopVars, Recording, Closing
<1>6. ClaimInv(o)'
  BY <1>1, <1>5 DEF ClaimInv, Holds, Actor
<1>7. SetUpInv(o)'
  BY <1>1, <1>5 DEF SetUpInv, ClaimInv, Actor
<1>8. SubscriptionInv(o)'
  BY <1>1, <1>5 DEF SubscriptionInv, SetUpInv, ClaimInv, Holds
<1>9. HandlingInv(o)'
  BY <1>1, <1>5 DEF HandlingInv, ClaimInv, Actor
<1>10. EventInv(o)'
  BY <1>1, <1>5 DEF EventInv, ClaimInv, Actor
<1>11. Settled(o) /\ (o \in Counted' <=> o \in Counted)
  BY <1>1, <1>5 DEF Settled, Counted
<1> QED
  BY <1>1, <1>3, <1>4, <1>6, <1>7, <1>8, <1>9, <1>10, <1>11, StepOfOne, CountedAsBefore

\* It removes the handler.
LEMMA UnsubscribeStep ==
  ASSUME ObserverAssumption, ObservedInv, NEW o \in Operation, NEW a \in Actor, Unsubscribe(o, a)
  PROVE  StepKept
<1>1. /\ work[o][a] = "unsubscribe" /\ handlers' = handlers \ {o} /\ Go(o, a, "uncount")
      /\ UNCHANGED <<pc, disposed, owned, count, expiry, raised, fieldVars, reader>>
  BY DEF Unsubscribe
<1>2. /\ work' \in [Operation -> [Actor -> Phases]]
      /\ \A p \in Operation, b \in Actor :
           work'[p][b] = IF p = o /\ b = a THEN "uncount" ELSE work[p][b]
  <2>1. "uncount" \in Phases
    BY DEF Phases, Recording, Closing
  <2> QED
    BY <1>1, <2>1, Goes DEF ObservedInv
<1>3. FieldTypes' /\ Current' \subseteq Current
  BY <1>1, <1>2 DEF ObservedInv, FieldTypes, fieldVars, stopVars, Current, Terminal
<1>4. /\ \A p \in Operation \ {o} : SameRaised(p)
      /\ \A p \in Operation \ {o} : Same(p)
  BY <1>1, <1>2 DEF Same, SameRaised, fieldVars, stopVars, ObservedInv, FieldTypes
<1>5. /\ OneInv(o)
      /\ \A b \in Actor : work'[o][b] = IF b = a THEN "uncount" ELSE work[o][b]
  BY <1>1, <1>2 DEF ObservedInv, FieldTypes
<1> USE DEF OneInv, fieldVars, stopVars, Recording, Closing
<1>6. ClaimInv(o)'
  BY <1>1, <1>5 DEF ClaimInv, Holds, Actor
<1>7. SetUpInv(o)'
  BY <1>1, <1>5 DEF SetUpInv, ClaimInv, Actor
<1>8. SubscriptionInv(o)'
  BY <1>1, <1>5 DEF SubscriptionInv, SetUpInv, ClaimInv
<1>9. HandlingInv(o)'
  BY <1>1, <1>5 DEF HandlingInv, ClaimInv, Actor
<1>10. EventInv(o)'
  BY <1>1, <1>5 DEF EventInv, ClaimInv, Actor
<1>11. Settled(o) /\ (o \in Counted' <=> o \in Counted)
  BY <1>1, <1>5 DEF Settled, Counted
<1> QED
  BY <1>1, <1>3, <1>4, <1>6, <1>7, <1>8, <1>9, <1>10, <1>11, StepOfOne, CountedAsBefore

\* It counts the observer out.
LEMMA UncountStep ==
  ASSUME ObserverAssumption, ObservedInv, NEW o \in Operation, NEW a \in Actor, Uncount(o, a)
  PROVE  StepKept
<1>1. /\ work[o][a] = "uncount" /\ count' = count - 1 /\ Go(o, a, "timer")
      /\ UNCHANGED <<pc, disposed, owned, handlers, expiry, raised, fieldVars, reader>>
  BY DEF Uncount
<1>2. /\ work' \in [Operation -> [Actor -> Phases]]
      /\ \A p \in Operation, b \in Actor :
           work'[p][b] = IF p = o /\ b = a THEN "timer" ELSE work[p][b]
  <2>1. "timer" \in Phases
    BY DEF Phases, Recording, Closing
  <2> QED
    BY <1>1, <2>1, Goes DEF ObservedInv
<1>3. FieldTypes' /\ Current' \subseteq Current
  BY <1>1, <1>2 DEF ObservedInv, FieldTypes, fieldVars, stopVars, Current, Terminal
<1>4. /\ \A p \in Operation \ {o} : SameRaised(p)
      /\ \A p \in Operation \ {o} : Same(p)
  BY <1>1, <1>2 DEF Same, SameRaised, fieldVars, stopVars, ObservedInv, FieldTypes
<1>5. /\ OneInv(o)
      /\ \A b \in Actor : work'[o][b] = IF b = a THEN "timer" ELSE work[o][b]
  BY <1>1, <1>2 DEF ObservedInv, FieldTypes
<1> USE DEF OneInv, fieldVars, stopVars, Recording, Closing
<1>6. ClaimInv(o)'
  BY <1>1, <1>5 DEF ClaimInv, Holds, Actor
<1>7. SetUpInv(o)'
  BY <1>1, <1>5 DEF SetUpInv, ClaimInv, Actor
<1>8. SubscriptionInv(o)'
  BY <1>1, <1>5 DEF SubscriptionInv, SetUpInv, ClaimInv
<1>9. HandlingInv(o)'
  BY <1>1, <1>5 DEF HandlingInv, ClaimInv, Actor
<1>10. EventInv(o)'
  BY <1>1, <1>5 DEF EventInv, ClaimInv, Actor
<1>11. Settled(o)
  BY <1>1, <1>5 DEF Settled
<1>12. count' = Cardinality(Counted')
  <2>1. Counted' = Counted \ {o} /\ o \in Counted /\ IsFiniteSet(Counted)
    <3>1. o \in Counted /\ o \notin Counted'
      BY <1>1, <1>5 DEF Counted, ClaimInv, SetUpInv, Holds, Actor
    <3>2. \A p \in Operation \ {o} : p \in Counted' <=> p \in Counted
      BY <1>4 DEF Same, Counted
    <3>3. Counted \in SUBSET Operation /\ Counted' \in SUBSET Operation
      BY DEF Counted
    <3> QED
      BY <3>1, <3>2, <3>3, FS_Subset DEF ObserverAssumption
  <2> QED
    BY <1>1, <2>1, FS_RemoveElement DEF ObservedInv
<1> QED
  BY <1>1, <1>3, <1>4, <1>6, <1>7, <1>8, <1>9, <1>10, <1>11, <1>12, StepOfOne

\* It disposes the timer.
LEMMA DisposeTimerStep ==
  ASSUME ObserverAssumption, ObservedInv, NEW o \in Operation, NEW a \in Actor, DisposeTimer(o, a)
  PROVE  StepKept
<1>1. /\ work[o][a] = "timer" /\ expiry' = [expiry EXCEPT ![o] = "disposed"] /\ Go(o, a, "terminal")
      /\ UNCHANGED <<pc, disposed, owned, count, handlers, raised, fieldVars, reader>>
  BY DEF DisposeTimer
<1>2. /\ work' \in [Operation -> [Actor -> Phases]]
      /\ \A p \in Operation, b \in Actor :
           work'[p][b] = IF p = o /\ b = a THEN "terminal" ELSE work[p][b]
  <2>1. "terminal" \in Phases
    BY DEF Phases, Recording, Closing
  <2> QED
    BY <1>1, <2>1, Goes DEF ObservedInv
<1>3. FieldTypes' /\ Current' \subseteq Current
  BY <1>1, <1>2 DEF ObservedInv, FieldTypes, fieldVars, stopVars, Current, Terminal
<1>4. /\ \A p \in Operation \ {o} : SameRaised(p)
      /\ \A p \in Operation \ {o} : Same(p)
  BY <1>1, <1>2 DEF Same, SameRaised, fieldVars, stopVars, ObservedInv, FieldTypes
<1>5. /\ OneInv(o)
      /\ \A b \in Actor : work'[o][b] = IF b = a THEN "terminal" ELSE work[o][b]
      /\ expiry'[o] = "disposed"
  BY <1>1, <1>2 DEF ObservedInv, FieldTypes
<1> USE DEF OneInv, fieldVars, stopVars, Recording, Closing
<1>6. ClaimInv(o)'
  BY <1>1, <1>5 DEF ClaimInv, Holds, Actor
<1>7. SetUpInv(o)'
  BY <1>1, <1>5 DEF SetUpInv, ClaimInv, Actor
<1>8. SubscriptionInv(o)'
  BY <1>1, <1>5 DEF SubscriptionInv, SetUpInv, ClaimInv
<1>9. HandlingInv(o)'
  BY <1>1, <1>5 DEF HandlingInv, ClaimInv, Actor
<1>10. EventInv(o)'
  BY <1>1, <1>5 DEF EventInv, ClaimInv, Actor
<1>11. Settled(o) /\ (o \in Counted' <=> o \in Counted)
  BY <1>1, <1>5 DEF Settled, Counted
<1> QED
  BY <1>1, <1>3, <1>4, <1>6, <1>7, <1>8, <1>9, <1>10, <1>11, StepOfOne, CountedAsBefore

\* It reports the end, and has won the observer no more.
LEMMA RecordTerminalStep ==
  ASSUME ObserverAssumption, ObservedInv, NEW o \in Operation, NEW a \in Actor, RecordTerminal(o, a)
  PROVE  StepKept
<1>1. /\ work[o][a] = "terminal" /\ state' = [state EXCEPT ![o] = Verdict(o, a)] /\ Go(o, a, "none")
      /\ raised' = Returned(o, a)
      /\ UNCHANGED <<pc, disposed, owned, count, handlers, expiry, category, details, recorded, reader>>
  BY DEF RecordTerminal
<1>2. /\ work' \in [Operation -> [Actor -> Phases]]
      /\ \A p \in Operation, b \in Actor :
           work'[p][b] = IF p = o /\ b = a THEN "none" ELSE work[p][b]
  <2>1. "none" \in Phases
    BY DEF Phases, Recording, Closing
  <2> QED
    BY <1>1, <2>1, Goes DEF ObservedInv
<1>v. Verdict(o, a) \in Terminal /\ (Verdict(o, a) = "Matched" <=> a \in Thread)
  BY VerdictOf DEF Actor, Terminal
<1>r. /\ raised' \in [Thread -> [event : Event \cup {None}, pending : SUBSET Operation]]
        /\ \A u \in Thread :
             /\ raised'[u].event = raised[u].event
             /\ \A p : p \in raised'[u].pending <=> p \in raised[u].pending /\ ~(u = a /\ p = o)
  BY <1>1, ReturnedIs DEF ObservedInv, Actor
<1>3. FieldTypes' /\ Current' \subseteq Current
  BY <1>1, <1>2, <1>v, <1>r DEF ObservedInv, FieldTypes, fieldVars, stopVars, Current, Terminal
<1>4. /\ \A p \in Operation \ {o} : SameRaised(p)
      /\ \A p \in Operation \ {o} : Same(p)
  <2>1. \A p \in Operation \ {o} : SameRaised(p)
    BY <1>r DEF SameRaised
  <2>2. \A p \in Operation \ {o} : Same(p)
    BY <1>1, <1>2 DEF Same, fieldVars, ObservedInv, FieldTypes
  <2> QED
    BY <2>1, <2>2
<1>5. /\ OneInv(o)
      /\ \A b \in Actor : work'[o][b] = IF b = a THEN "none" ELSE work[o][b]
      /\ state'[o] \in Terminal /\ (state'[o] = "Matched" <=> a \in Thread)
  BY <1>1, <1>2, <1>v, <1>r DEF ObservedInv, FieldTypes
<1> USE DEF OneInv, fieldVars, stopVars, Recording, Closing
<1>6. ClaimInv(o)'
  BY <1>1, <1>5, <1>r DEF ClaimInv, Holds, Actor
<1>7. SetUpInv(o)'
  BY <1>1, <1>5, <1>r DEF SetUpInv, ClaimInv, Actor
<1>8. SubscriptionInv(o)'
  BY <1>1, <1>5, <1>r DEF SubscriptionInv, SetUpInv, ClaimInv, Holds
<1>9. HandlingInv(o)'
  BY <1>1, <1>5, <1>r DEF HandlingInv, ClaimInv, Actor
<1>10. EventInv(o)'
  BY <1>1, <1>5, <1>r DEF EventInv, ClaimInv, Actor, Terminal, Holds
<1>11. Settled(o) /\ (o \in Counted' <=> o \in Counted)
  BY <1>1, <1>5, <1>r DEF Settled, Counted, ClaimInv, Holds
<1> QED
  BY <1>1, <1>3, <1>4, <1>6, <1>7, <1>8, <1>9, <1>10, <1>11, StepOfOne, CountedAsBefore

\* A thread that is called for an observer that has been won returns at once,
LEMMA EnterDisposedStep ==
  ASSUME ObserverAssumption, ObservedInv, NEW o \in Operation, NEW t \in Thread, disposed[o], EnterHandler(t, o)
  PROVE  StepKept
<1>1. /\ work[o][t] = "none" /\ raised' = Returned(o, t) /\ work' = work
      /\ UNCHANGED <<pc, disposed, owned, count, handlers, expiry, fieldVars, reader>>
  BY DEF EnterHandler
<1>2. work' = work
  BY <1>1 DEF stopVars
<1>r. /\ raised' \in [Thread -> [event : Event \cup {None}, pending : SUBSET Operation]]
        /\ \A u \in Thread :
             /\ raised'[u].event = raised[u].event
             /\ \A p : p \in raised'[u].pending <=> p \in raised[u].pending /\ ~(u = t /\ p = o)
  BY <1>1, ReturnedIs DEF ObservedInv, Actor
<1>3. FieldTypes' /\ Current' \subseteq Current
  BY <1>1, <1>2, <1>r DEF ObservedInv, FieldTypes, fieldVars, stopVars, Current, Terminal
<1>4. /\ \A p \in Operation \ {o} : SameRaised(p)
      /\ \A p \in Operation \ {o} : Same(p)
  <2>1. \A p \in Operation \ {o} : SameRaised(p)
    BY <1>r DEF SameRaised
  <2>2. \A p \in Operation \ {o} : Same(p)
    BY <1>1, <1>2 DEF Same, fieldVars, ObservedInv, FieldTypes
  <2> QED
    BY <2>1, <2>2
<1>5. /\ OneInv(o)
      /\ t \in Actor \ {Caller, Timer}
  BY <1>1, <1>2, <1>r DEF ObservedInv, FieldTypes, ObserverAssumption, Actor
<1> USE DEF OneInv, fieldVars, stopVars, Recording, Closing
<1>6. ClaimInv(o)'
  BY <1>1, <1>5, <1>r DEF ClaimInv, Holds, Actor
<1>7. SetUpInv(o)'
  BY <1>1, <1>5, <1>r DEF SetUpInv, ClaimInv, Actor
<1>8. SubscriptionInv(o)'
  BY <1>1, <1>5, <1>r DEF SubscriptionInv, SetUpInv, ClaimInv
<1>9. HandlingInv(o)'
  BY <1>1, <1>5, <1>r DEF HandlingInv, ClaimInv, Actor
<1>10. EventInv(o)'
  BY <1>1, <1>5, <1>r DEF EventInv, ClaimInv, Actor
<1>11. Settled(o) /\ (o \in Counted' <=> o \in Counted)
  BY <1>1, <1>5, <1>r DEF Settled, Counted
<1> QED
  BY <1>1, <1>3, <1>4, <1>6, <1>7, <1>8, <1>9, <1>10, <1>11, StepOfOne, CountedAsBefore

\* and begins with one that has not.
LEMMA EnterHandlerStep ==
  ASSUME ObserverAssumption, ObservedInv, NEW o \in Operation, NEW t \in Thread, ~disposed[o], EnterHandler(t, o)
  PROVE  StepKept
<1>1. /\ o \in raised[t].pending /\ work[o][t] = "none" /\ Go(o, t, "matched")
      /\ UNCHANGED <<pc, disposed, owned, count, handlers, expiry, raised, fieldVars, reader>>
  BY DEF EnterHandler
<1>2. /\ work' \in [Operation -> [Actor -> Phases]]
      /\ \A p \in Operation, b \in Actor :
           work'[p][b] = IF p = o /\ b = t THEN "matched" ELSE work[p][b]
  <2>1. "matched" \in Phases
    BY DEF Phases, Recording, Closing
  <2>2. t \in Actor
    BY DEF Actor
  <2> QED
    BY <1>1, <2>1, <2>2, Goes DEF ObservedInv
<1>3. FieldTypes' /\ Current' \subseteq Current
  BY <1>1, <1>2 DEF ObservedInv, FieldTypes, fieldVars, stopVars, Current, Terminal
<1>4. /\ \A p \in Operation \ {o} : SameRaised(p)
      /\ \A p \in Operation \ {o} : Same(p)
  BY <1>1, <1>2 DEF Same, SameRaised, fieldVars, stopVars, ObservedInv, FieldTypes
<1>5. /\ OneInv(o)
      /\ \A b \in Actor : work'[o][b] = IF b = t THEN "matched" ELSE work[o][b]
      /\ t \in Actor \ {Caller, Timer}
  BY <1>1, <1>2 DEF ObservedInv, FieldTypes, ObserverAssumption, Actor
<1> USE DEF OneInv, fieldVars, stopVars, Recording, Closing
<1>6. ClaimInv(o)'
  BY <1>1, <1>5 DEF ClaimInv, Holds, Actor
<1>7. SetUpInv(o)'
  BY <1>1, <1>5 DEF SetUpInv, ClaimInv, Actor
<1>8. SubscriptionInv(o)'
  BY <1>1, <1>5 DEF SubscriptionInv, SetUpInv, ClaimInv
<1>9. HandlingInv(o)'
  BY <1>1, <1>5 DEF HandlingInv, ClaimInv, Actor
<1>10. EventInv(o)'
  BY <1>1, <1>5 DEF EventInv, ClaimInv, Actor
<1>11. Settled(o) /\ (o \in Counted' <=> o \in Counted)
  BY <1>1, <1>5 DEF Settled, Counted
<1> QED
  BY <1>1, <1>3, <1>4, <1>6, <1>7, <1>8, <1>9, <1>10, <1>11, StepOfOne, CountedAsBefore

\* Its exception matched, but somebody has won the observer;
LEMMA ClaimLostStep ==
  ASSUME ObserverAssumption, ObservedInv, NEW o \in Operation, NEW t \in Thread, disposed[o], Claim(t, o)
  PROVE  StepKept
<1>1. /\ work[o][t] = "matched" /\ disposed' = [disposed EXCEPT ![o] = TRUE] /\ raised' = Returned(o, t)
      /\ Go(o, t, "none")
      /\ UNCHANGED <<pc, owned, count, handlers, expiry, fieldVars, reader>>
  BY DEF Claim
<1>2. /\ work' \in [Operation -> [Actor -> Phases]]
      /\ \A p \in Operation, b \in Actor :
           work'[p][b] = IF p = o /\ b = t THEN "none" ELSE work[p][b]
  <2>1. "none" \in Phases
    BY DEF Phases, Recording, Closing
  <2>2. t \in Actor
    BY DEF Actor
  <2> QED
    BY <1>1, <2>1, <2>2, Goes DEF ObservedInv
<1>r. /\ raised' \in [Thread -> [event : Event \cup {None}, pending : SUBSET Operation]]
        /\ \A u \in Thread :
             /\ raised'[u].event = raised[u].event
             /\ \A p : p \in raised'[u].pending <=> p \in raised[u].pending /\ ~(u = t /\ p = o)
  BY <1>1, ReturnedIs DEF ObservedInv, Actor
<1>3. FieldTypes' /\ Current' \subseteq Current
  BY <1>1, <1>2, <1>r DEF ObservedInv, FieldTypes, fieldVars, stopVars, Current, Terminal
<1>4. /\ \A p \in Operation \ {o} : SameRaised(p)
      /\ \A p \in Operation \ {o} : Same(p)
  <2>1. \A p \in Operation \ {o} : SameRaised(p)
    BY <1>r DEF SameRaised
  <2>2. \A p \in Operation \ {o} : Same(p)
    BY <1>1, <1>2 DEF Same, fieldVars, ObservedInv, FieldTypes
  <2> QED
    BY <2>1, <2>2
<1>5. /\ OneInv(o)
      /\ \A b \in Actor : work'[o][b] = IF b = t THEN "none" ELSE work[o][b]
      /\ t \in Actor \ {Caller, Timer}
      /\ disposed'[o] = disposed[o]
  BY <1>1, <1>2, <1>r DEF ObservedInv, FieldTypes, ObserverAssumption, Actor
<1> USE DEF OneInv, fieldVars, stopVars, Recording, Closing
<1>6. ClaimInv(o)'
  BY <1>1, <1>5, <1>r DEF ClaimInv, Holds, Actor
<1>7. SetUpInv(o)'
  BY <1>1, <1>5, <1>r DEF SetUpInv, ClaimInv, Actor
<1>8. SubscriptionInv(o)'
  BY <1>1, <1>5, <1>r DEF SubscriptionInv, SetUpInv, ClaimInv
<1>9. HandlingInv(o)'
  BY <1>1, <1>5, <1>r DEF HandlingInv, ClaimInv, Actor
<1>10. EventInv(o)'
  BY <1>1, <1>5, <1>r DEF EventInv, ClaimInv, Actor
<1>11. Settled(o) /\ (o \in Counted' <=> o \in Counted)
  BY <1>1, <1>5, <1>r DEF Settled, Counted
<1> QED
  BY <1>1, <1>3, <1>4, <1>6, <1>7, <1>8, <1>9, <1>10, <1>11, StepOfOne, CountedAsBefore

\* or it wins.
LEMMA ClaimStep ==
  ASSUME ObserverAssumption, ObservedInv, NEW o \in Operation, NEW t \in Thread, ~disposed[o], Claim(t, o)
  PROVE  StepKept
<1>1. /\ work[o][t] = "matched" /\ disposed' = [disposed EXCEPT ![o] = TRUE] /\ Go(o, t, "category")
      /\ UNCHANGED <<pc, owned, count, handlers, expiry, raised, fieldVars, reader>>
  BY DEF Claim
<1>2. /\ work' \in [Operation -> [Actor -> Phases]]
      /\ \A p \in Operation, b \in Actor :
           work'[p][b] = IF p = o /\ b = t THEN "category" ELSE work[p][b]
  <2>1. "category" \in Phases
    BY DEF Phases, Recording, Closing
  <2>2. t \in Actor
    BY DEF Actor
  <2> QED
    BY <1>1, <2>1, <2>2, Goes DEF ObservedInv
<1>3. FieldTypes' /\ Current' \subseteq Current
  BY <1>1, <1>2 DEF ObservedInv, FieldTypes, fieldVars, stopVars, Current, Terminal
<1>4. /\ \A p \in Operation \ {o} : SameRaised(p)
      /\ \A p \in Operation \ {o} : Same(p)
  BY <1>1, <1>2 DEF Same, SameRaised, fieldVars, stopVars, ObservedInv, FieldTypes
<1>5. /\ OneInv(o)
      /\ \A b \in Actor : work'[o][b] = IF b = t THEN "category" ELSE work[o][b]
      /\ t \in Actor \ {Caller, Timer}
      /\ disposed'[o]
  BY <1>1, <1>2 DEF ObservedInv, FieldTypes, ObserverAssumption, Actor
<1> USE DEF OneInv, fieldVars, stopVars, Recording, Closing
<1>6. ClaimInv(o)'
  BY <1>1, <1>5 DEF ClaimInv, Holds, Actor
<1>7. SetUpInv(o)'
  BY <1>1, <1>5 DEF SetUpInv, ClaimInv, Actor
<1>8. SubscriptionInv(o)'
  BY <1>1, <1>5 DEF SubscriptionInv, SetUpInv, ClaimInv
<1>9. HandlingInv(o)'
  BY <1>1, <1>5 DEF HandlingInv, ClaimInv, Actor
<1>10. EventInv(o)'
  BY <1>1, <1>5 DEF EventInv, ClaimInv, Actor
<1>11. Settled(o) /\ (o \in Counted' <=> o \in Counted)
  BY <1>1, <1>5 DEF Settled, Counted
<1> QED
  BY <1>1, <1>3, <1>4, <1>6, <1>7, <1>8, <1>9, <1>10, <1>11, StepOfOne, CountedAsBefore

\* It records the category, which nobody has.
LEMMA RecordCategoryStep ==
  ASSUME ObserverAssumption, ObservedInv, NEW o \in Operation, NEW t \in Thread, RecordCategory(t, o)
  PROVE  StepKept
<1>1. /\ work[o][t] = "category" /\ category' = [category EXCEPT ![o] = raised[t].event] /\ Go(o, t, "details")
      /\ UNCHANGED <<pc, disposed, owned, count, handlers, expiry, raised, state, details, recorded, reader>>
  BY DEF RecordCategory, ObservedInv, OneInv, EventInv
<1>2. /\ work' \in [Operation -> [Actor -> Phases]]
      /\ \A p \in Operation, b \in Actor :
           work'[p][b] = IF p = o /\ b = t THEN "details" ELSE work[p][b]
  <2>1. "details" \in Phases
    BY DEF Phases, Recording, Closing
  <2>2. t \in Actor
    BY DEF Actor
  <2> QED
    BY <1>1, <2>1, <2>2, Goes DEF ObservedInv
<1>3. FieldTypes' /\ Current' \subseteq Current
  BY <1>1, <1>2 DEF ObservedInv, FieldTypes, fieldVars, stopVars, Current, Terminal
<1>4. /\ \A p \in Operation \ {o} : SameRaised(p)
      /\ \A p \in Operation \ {o} : Same(p)
  BY <1>1, <1>2 DEF Same, SameRaised, fieldVars, stopVars, ObservedInv, FieldTypes
<1>5. /\ OneInv(o)
      /\ \A b \in Actor : work'[o][b] = IF b = t THEN "details" ELSE work[o][b]
      /\ t \in Actor \ {Caller, Timer}
      /\ category'[o] = raised[t].event
  BY <1>1, <1>2 DEF ObservedInv, FieldTypes, ObserverAssumption, Actor
<1> USE DEF OneInv, fieldVars, stopVars, Recording, Closing
<1>6. ClaimInv(o)'
  BY <1>1, <1>5 DEF ClaimInv, Holds, Actor
<1>7. SetUpInv(o)'
  BY <1>1, <1>5 DEF SetUpInv, ClaimInv, Actor
<1>8. SubscriptionInv(o)'
  BY <1>1, <1>5 DEF SubscriptionInv, SetUpInv, ClaimInv
<1>9. HandlingInv(o)'
  BY <1>1, <1>5 DEF HandlingInv, ClaimInv, Actor
<1>10. EventInv(o)'
  BY <1>1, <1>5 DEF EventInv, ClaimInv, Actor, HandlingInv, Holds
<1>11. Settled(o) /\ (o \in Counted' <=> o \in Counted)
  BY <1>1, <1>5 DEF Settled, Counted, EventInv, ClaimInv, Holds
<1> QED
  BY <1>1, <1>3, <1>4, <1>6, <1>7, <1>8, <1>9, <1>10, <1>11, StepOfOne, CountedAsBefore

\* It records the details,
LEMMA RecordDetailsStep ==
  ASSUME ObserverAssumption, ObservedInv, NEW o \in Operation, NEW t \in Thread, RecordDetails(t, o)
  PROVE  StepKept
<1>1. /\ work[o][t] = "details" /\ details' = [details EXCEPT ![o] = raised[t].event] /\ Go(o, t, "recorded")
      /\ UNCHANGED <<pc, disposed, owned, count, handlers, expiry, raised, state, category, recorded, reader>>
  BY DEF RecordDetails
<1>2. /\ work' \in [Operation -> [Actor -> Phases]]
      /\ \A p \in Operation, b \in Actor :
           work'[p][b] = IF p = o /\ b = t THEN "recorded" ELSE work[p][b]
  <2>1. "recorded" \in Phases
    BY DEF Phases, Recording, Closing
  <2>2. t \in Actor
    BY DEF Actor
  <2> QED
    BY <1>1, <2>1, <2>2, Goes DEF ObservedInv
<1>3. FieldTypes' /\ Current' \subseteq Current
  BY <1>1, <1>2 DEF ObservedInv, FieldTypes, fieldVars, stopVars, Current, Terminal
<1>4. /\ \A p \in Operation \ {o} : SameRaised(p)
      /\ \A p \in Operation \ {o} : Same(p)
  BY <1>1, <1>2 DEF Same, SameRaised, fieldVars, stopVars, ObservedInv, FieldTypes
<1>5. /\ OneInv(o)
      /\ \A b \in Actor : work'[o][b] = IF b = t THEN "recorded" ELSE work[o][b]
      /\ t \in Actor \ {Caller, Timer}
      /\ details'[o] = raised[t].event
  BY <1>1, <1>2 DEF ObservedInv, FieldTypes, ObserverAssumption, Actor
<1> USE DEF OneInv, fieldVars, stopVars, Recording, Closing
<1>6. ClaimInv(o)'
  BY <1>1, <1>5 DEF ClaimInv, Holds, Actor
<1>7. SetUpInv(o)'
  BY <1>1, <1>5 DEF SetUpInv, ClaimInv, Actor
<1>8. SubscriptionInv(o)'
  BY <1>1, <1>5 DEF SubscriptionInv, SetUpInv, ClaimInv
<1>9. HandlingInv(o)'
  BY <1>1, <1>5 DEF HandlingInv, ClaimInv, Actor
<1>10. EventInv(o)'
  BY <1>1, <1>5 DEF EventInv, ClaimInv, Actor, HandlingInv, Holds
<1>11. Settled(o) /\ (o \in Counted' <=> o \in Counted)
  BY <1>1, <1>5 DEF Settled, Counted, EventInv, ClaimInv, Holds
<1> QED
  BY <1>1, <1>3, <1>4, <1>6, <1>7, <1>8, <1>9, <1>10, <1>11, StepOfOne, CountedAsBefore

\* and that it has recorded the event.
LEMMA SetRecordedStep ==
  ASSUME ObserverAssumption, ObservedInv, NEW o \in Operation, NEW t \in Thread, SetRecorded(t, o)
  PROVE  StepKept
<1>1. /\ work[o][t] = "recorded" /\ recorded' = [recorded EXCEPT ![o] = TRUE] /\ Go(o, t, "release")
      /\ UNCHANGED <<pc, disposed, owned, count, handlers, expiry, raised, state, category, details, reader>>
  BY DEF SetRecorded
<1>2. /\ work' \in [Operation -> [Actor -> Phases]]
      /\ \A p \in Operation, b \in Actor :
           work'[p][b] = IF p = o /\ b = t THEN "release" ELSE work[p][b]
  <2>1. "release" \in Phases
    BY DEF Phases, Recording, Closing
  <2>2. t \in Actor
    BY DEF Actor
  <2> QED
    BY <1>1, <2>1, <2>2, Goes DEF ObservedInv
<1>3. FieldTypes' /\ Current' \subseteq Current
  BY <1>1, <1>2 DEF ObservedInv, FieldTypes, fieldVars, stopVars, Current, Terminal
<1>4. /\ \A p \in Operation \ {o} : SameRaised(p)
      /\ \A p \in Operation \ {o} : Same(p)
  BY <1>1, <1>2 DEF Same, SameRaised, fieldVars, stopVars, ObservedInv, FieldTypes
<1>5. /\ OneInv(o)
      /\ \A b \in Actor : work'[o][b] = IF b = t THEN "release" ELSE work[o][b]
      /\ t \in Actor \ {Caller, Timer}
      /\ recorded'[o]
  BY <1>1, <1>2 DEF ObservedInv, FieldTypes, ObserverAssumption, Actor
<1> USE DEF OneInv, fieldVars, stopVars, Recording, Closing
<1>6. ClaimInv(o)'
  BY <1>1, <1>5 DEF ClaimInv, Holds, Actor
<1>7. SetUpInv(o)'
  BY <1>1, <1>5 DEF SetUpInv, ClaimInv, Actor
<1>8. SubscriptionInv(o)'
  BY <1>1, <1>5 DEF SubscriptionInv, SetUpInv, ClaimInv
<1>9. HandlingInv(o)'
  BY <1>1, <1>5 DEF HandlingInv, ClaimInv, Actor
<1>10. EventInv(o)'
  BY <1>1, <1>5 DEF EventInv, ClaimInv, Actor, HandlingInv, Holds
<1>11. Settled(o) /\ (o \in Counted' <=> o \in Counted)
  BY <1>1, <1>5 DEF Settled, Counted, EventInv, ClaimInv, Holds
<1> QED
  BY <1>1, <1>3, <1>4, <1>6, <1>7, <1>8, <1>9, <1>10, <1>11, StepOfOne, CountedAsBefore

\* The constructor, of the one operation there is.
LEMMA ConstructStep ==
  ASSUME ObserverAssumption, ObservedInv, NEW o \in Operation, Construct(o)
  PROVE  StepKept
<1>1. /\ Current = {} /\ pc[o] = "idle" /\ pc' = [pc EXCEPT ![o] = "count"] /\ owned' = [owned EXCEPT ![o] = TRUE]
      /\ UNCHANGED <<disposed, count, handlers, expiry, work, raised, fieldVars, reader>>
  BY DEF Construct, Moves
<1>2. work' = work
  BY <1>1 DEF stopVars
<1>3. FieldTypes' /\ Current' \subseteq {o}
  BY <1>1, <1>2 DEF ObservedInv, FieldTypes, fieldVars, stopVars, Current, Terminal
<1>4. /\ \A p \in Operation \ {o} : SameRaised(p)
      /\ \A p \in Operation \ {o} : Same(p)
  BY <1>1, <1>2 DEF Same, SameRaised, fieldVars, stopVars, ObservedInv, FieldTypes
<1>5. /\ OneInv(o)
      /\ pc'[o] = "count" /\ owned'[o]
  BY <1>1, <1>2 DEF ObservedInv, FieldTypes
<1> USE DEF OneInv, fieldVars, stopVars, Recording, Closing
<1>6. ClaimInv(o)'
  BY <1>1, <1>5 DEF ClaimInv, Holds, Actor
<1>7. SetUpInv(o)'
  BY <1>1, <1>5 DEF SetUpInv, ClaimInv, Actor
<1>8. SubscriptionInv(o)'
  BY <1>1, <1>5 DEF SubscriptionInv, SetUpInv, ClaimInv
<1>9. HandlingInv(o)'
  BY <1>1, <1>5 DEF HandlingInv, ClaimInv, Actor
<1>10. EventInv(o)'
  BY <1>1, <1>5 DEF EventInv, ClaimInv, Actor
<1>11. Settled(o) /\ (o \in Counted' <=> o \in Counted)
  BY <1>1, <1>5 DEF Settled, Counted
<1> QED
  BY <1>1, <1>3, <1>4, <1>6, <1>7, <1>8, <1>9, <1>10, <1>11, StepOfOne, CountedAsBefore

\* It counts the observer,
LEMMA CountStep ==
  ASSUME ObserverAssumption, ObservedInv, NEW o \in Operation, Count(o)
  PROVE  StepKept
<1>1. /\ pc[o] = "count" /\ pc' = [pc EXCEPT ![o] = "subscribe"] /\ count' = count + 1
      /\ UNCHANGED <<disposed, owned, handlers, expiry, work, raised, fieldVars, reader>>
  BY DEF Count, Moves
<1>2. work' = work
  BY <1>1 DEF stopVars
<1>3. FieldTypes' /\ Current' \subseteq Current
  BY <1>1, <1>2 DEF ObservedInv, FieldTypes, fieldVars, stopVars, Current, Terminal
<1>4. /\ \A p \in Operation \ {o} : SameRaised(p)
      /\ \A p \in Operation \ {o} : Same(p)
  BY <1>1, <1>2 DEF Same, SameRaised, fieldVars, stopVars, ObservedInv, FieldTypes
<1>5. /\ OneInv(o)
      /\ pc'[o] = "subscribe"
  BY <1>1, <1>2 DEF ObservedInv, FieldTypes
<1> USE DEF OneInv, fieldVars, stopVars, Recording, Closing
<1>6. ClaimInv(o)'
  BY <1>1, <1>5 DEF ClaimInv, Holds, Actor
<1>7. SetUpInv(o)'
  BY <1>1, <1>5 DEF SetUpInv, ClaimInv, Actor
<1>8. SubscriptionInv(o)'
  BY <1>1, <1>5 DEF SubscriptionInv, SetUpInv, ClaimInv
<1>9. HandlingInv(o)'
  BY <1>1, <1>5 DEF HandlingInv, ClaimInv, Actor
<1>10. EventInv(o)'
  BY <1>1, <1>5 DEF EventInv, ClaimInv, Actor
<1>11. Settled(o)
  BY <1>1, <1>5 DEF Settled
<1>12. count' = Cardinality(Counted')
  <2>1. Counted' = Counted \cup {o} /\ o \notin Counted /\ IsFiniteSet(Counted)
    <3>1. o \notin Counted /\ o \in Counted'
      BY <1>1, <1>2, <1>5 DEF Counted, ClaimInv, SetUpInv
    <3>2. \A p \in Operation \ {o} : p \in Counted' <=> p \in Counted
      BY <1>4 DEF Same, Counted
    <3>3. Counted \in SUBSET Operation /\ Counted' \in SUBSET Operation
      BY DEF Counted
    <3> QED
      BY <3>1, <3>2, <3>3, FS_Subset DEF ObserverAssumption
  <2> QED
    BY <1>1, <2>1, FS_AddElement DEF ObservedInv
<1> QED
  BY <1>1, <1>3, <1>4, <1>6, <1>7, <1>8, <1>9, <1>10, <1>11, <1>12, StepOfOne

\* subscribes it,
LEMMA SubscribeStep ==
  ASSUME ObserverAssumption, ObservedInv, NEW o \in Operation, Subscribe(o)
  PROVE  StepKept
<1>1. /\ pc[o] = "subscribe" /\ pc' = [pc EXCEPT ![o] = "check"] /\ handlers' = handlers \cup {o}
      /\ UNCHANGED <<disposed, owned, count, expiry, work, raised, fieldVars, reader>>
  BY DEF Subscribe, Moves
<1>2. work' = work
  BY <1>1 DEF stopVars
<1>3. FieldTypes' /\ Current' \subseteq Current
  BY <1>1, <1>2 DEF ObservedInv, FieldTypes, fieldVars, stopVars, Current, Terminal
<1>4. /\ \A p \in Operation \ {o} : SameRaised(p)
      /\ \A p \in Operation \ {o} : Same(p)
  BY <1>1, <1>2 DEF Same, SameRaised, fieldVars, stopVars, ObservedInv, FieldTypes
<1>5. /\ OneInv(o)
      /\ pc'[o] = "check"
  BY <1>1, <1>2 DEF ObservedInv, FieldTypes
<1> USE DEF OneInv, fieldVars, stopVars, Recording, Closing
<1>6. ClaimInv(o)'
  BY <1>1, <1>5 DEF ClaimInv, Holds, Actor
<1>7. SetUpInv(o)'
  BY <1>1, <1>5 DEF SetUpInv, ClaimInv, Actor
<1>8. SubscriptionInv(o)'
  BY <1>1, <1>5 DEF SubscriptionInv, SetUpInv, ClaimInv, Terminal
<1>9. HandlingInv(o)'
  BY <1>1, <1>5 DEF HandlingInv, ClaimInv, Actor
<1>10. EventInv(o)'
  BY <1>1, <1>5 DEF EventInv, ClaimInv, Actor
<1>11. Settled(o) /\ (o \in Counted' <=> o \in Counted)
  BY <1>1, <1>5 DEF Settled, Counted
<1> QED
  BY <1>1, <1>3, <1>4, <1>6, <1>7, <1>8, <1>9, <1>10, <1>11, StepOfOne, CountedAsBefore

\* looks whether it has been won by now,
LEMMA CheckStep ==
  ASSUME ObserverAssumption, ObservedInv, NEW o \in Operation, Check(o)
  PROVE  StepKept
<1>1. /\ \/ pc[o] = "check" /\ pc' = [pc EXCEPT ![o] = IF disposed[o] THEN "running" ELSE "record"]
         \/ pc[o] = "check again" /\ pc' = [pc EXCEPT ![o] = IF disposed[o] THEN "running" ELSE "arm"]
      /\ UNCHANGED <<stopVars, raised, fieldVars, reader>>
  BY DEF Check
<1>2. work' = work
  BY <1>1 DEF stopVars
<1>3. FieldTypes' /\ Current' \subseteq Current
  BY <1>1, <1>2 DEF ObservedInv, FieldTypes, fieldVars, stopVars, Current, Terminal
<1>4. /\ \A p \in Operation \ {o} : SameRaised(p)
      /\ \A p \in Operation \ {o} : Same(p)
  BY <1>1, <1>2 DEF Same, SameRaised, fieldVars, stopVars, ObservedInv, FieldTypes
<1>5. /\ OneInv(o)
      /\ pc[o] \in {"check", "check again"} /\ pc'[o] \in {"running", "record", "arm"}
  BY <1>1, <1>2 DEF ObservedInv, FieldTypes
<1> USE DEF OneInv, fieldVars, stopVars, Recording, Closing
<1>6. ClaimInv(o)'
  BY <1>1, <1>5 DEF ClaimInv, Holds, Actor
<1>7. SetUpInv(o)'
  BY <1>1, <1>5 DEF SetUpInv, ClaimInv, Actor
<1>8. SubscriptionInv(o)'
  BY <1>1, <1>5 DEF SubscriptionInv, SetUpInv, ClaimInv
<1>9. HandlingInv(o)'
  BY <1>1, <1>5 DEF HandlingInv, ClaimInv, Actor
<1>10. EventInv(o)'
  BY <1>1, <1>5 DEF EventInv, ClaimInv, Actor
<1>11. Settled(o) /\ (o \in Counted' <=> o \in Counted)
  BY <1>1, <1>5 DEF Settled, Counted
<1> QED
  BY <1>1, <1>3, <1>4, <1>6, <1>7, <1>8, <1>9, <1>10, <1>11, StepOfOne, CountedAsBefore

\* reports its start, unless it is over,
LEMMA RecordStartedStep ==
  ASSUME ObserverAssumption, ObservedInv, NEW o \in Operation, RecordStarted(o)
  PROVE  StepKept
<1>1. /\ pc[o] = "record" /\ pc' = [pc EXCEPT ![o] = "check again"]
      /\ state' = [state EXCEPT ![o] = IF @ = "NotStarted" THEN "Running" ELSE @]
      /\ UNCHANGED <<stopVars, raised, category, details, recorded, reader>>
  BY DEF RecordStarted, Moves
<1>2. work' = work
  BY <1>1 DEF stopVars
<1>3. FieldTypes' /\ Current' \subseteq Current
  BY <1>1, <1>2 DEF ObservedInv, FieldTypes, fieldVars, stopVars, Current, Terminal
<1>4. /\ \A p \in Operation \ {o} : SameRaised(p)
      /\ \A p \in Operation \ {o} : Same(p)
  BY <1>1, <1>2 DEF Same, SameRaised, fieldVars, stopVars, ObservedInv, FieldTypes
<1>5. /\ OneInv(o)
      /\ pc'[o] = "check again" /\ pc[o] = "record"
      /\ state'[o] \in Terminal \/ state[o] \in Terminal => state'[o] = state[o]
      /\ state'[o] = "Matched" => state'[o] \in Terminal
  BY <1>1, <1>2 DEF ObservedInv, FieldTypes, Terminal
<1> USE DEF OneInv, fieldVars, stopVars, Recording, Closing
<1>6. ClaimInv(o)'
  BY <1>1, <1>5 DEF ClaimInv, Holds, Actor
<1>7. SetUpInv(o)'
  BY <1>1, <1>5 DEF SetUpInv, ClaimInv, Actor
<1>8. SubscriptionInv(o)'
  BY <1>1, <1>5 DEF SubscriptionInv, SetUpInv, ClaimInv
<1>9. HandlingInv(o)'
  BY <1>1, <1>5 DEF HandlingInv, ClaimInv, Actor
<1>10. EventInv(o)'
  BY <1>1, <1>5 DEF EventInv, ClaimInv, Actor
<1>11. Settled(o) /\ (o \in Counted' <=> o \in Counted)
  BY <1>1, <1>5 DEF Settled, Counted
<1> QED
  BY <1>1, <1>3, <1>4, <1>6, <1>7, <1>8, <1>9, <1>10, <1>11, StepOfOne, CountedAsBefore

\* and arms the timer.
LEMMA ArmStep ==
  ASSUME ObserverAssumption, ObservedInv, NEW o \in Operation, Arm(o)
  PROVE  StepKept
<1>1. /\ pc[o] = "arm" /\ pc' = [pc EXCEPT ![o] = "running"]
      /\ expiry' = [expiry EXCEPT ![o] = IF @ = "disposed" THEN @ ELSE "armed"]
      /\ UNCHANGED <<disposed, owned, count, handlers, work, raised, fieldVars, reader>>
  BY DEF Arm, Moves
<1>2. work' = work
  BY <1>1 DEF stopVars
<1>3. FieldTypes' /\ Current' \subseteq Current
  BY <1>1, <1>2 DEF ObservedInv, FieldTypes, fieldVars, stopVars, Current, Terminal
<1>4. /\ \A p \in Operation \ {o} : SameRaised(p)
      /\ \A p \in Operation \ {o} : Same(p)
  BY <1>1, <1>2 DEF Same, SameRaised, fieldVars, stopVars, ObservedInv, FieldTypes
<1>5. /\ OneInv(o)
      /\ pc'[o] = "running"
  BY <1>1, <1>2 DEF ObservedInv, FieldTypes
<1> USE DEF OneInv, fieldVars, stopVars, Recording, Closing
<1>6. ClaimInv(o)'
  BY <1>1, <1>5 DEF ClaimInv, Holds, Actor
<1>7. SetUpInv(o)'
  BY <1>1, <1>5 DEF SetUpInv, ClaimInv, Actor
<1>8. SubscriptionInv(o)'
  BY <1>1, <1>5 DEF SubscriptionInv, SetUpInv, ClaimInv
<1>9. HandlingInv(o)'
  BY <1>1, <1>5 DEF HandlingInv, ClaimInv, Actor
<1>10. EventInv(o)'
  BY <1>1, <1>5 DEF EventInv, ClaimInv, Actor
<1>11. Settled(o) /\ (o \in Counted' <=> o \in Counted)
  BY <1>1, <1>5 DEF Settled, Counted
<1> QED
  BY <1>1, <1>3, <1>4, <1>6, <1>7, <1>8, <1>9, <1>10, <1>11, StepOfOne, CountedAsBefore

\* A constructor that fails stops the observer,
LEMMA SetupFailsStep ==
  ASSUME ObserverAssumption, ObservedInv, NEW o \in Operation, SetupFails(o)
  PROVE  StepKept
<1>1. /\ pc[o] \in {"subscribe", "arm"} /\ pc' = [pc EXCEPT ![o] = "failing"] /\ Go(o, Caller, "stop")
      /\ UNCHANGED <<disposed, owned, count, handlers, expiry, raised, fieldVars, reader>>
  BY DEF SetupFails
<1>2. /\ work' \in [Operation -> [Actor -> Phases]]
      /\ \A p \in Operation, b \in Actor :
           work'[p][b] = IF p = o /\ b = Caller THEN "stop" ELSE work[p][b]
  <2>1. "stop" \in Phases
    BY DEF Phases, Recording, Closing
  <2>2. Caller \in Actor
    BY DEF Actor
  <2> QED
    BY <1>1, <2>1, <2>2, Goes DEF ObservedInv
<1>3. FieldTypes' /\ Current' \subseteq Current
  BY <1>1, <1>2 DEF ObservedInv, FieldTypes, fieldVars, stopVars, Current, Terminal
<1>4. /\ \A p \in Operation \ {o} : SameRaised(p)
      /\ \A p \in Operation \ {o} : Same(p)
  BY <1>1, <1>2 DEF Same, SameRaised, fieldVars, stopVars, ObservedInv, FieldTypes
<1>5. /\ OneInv(o)
      /\ \A b \in Actor : work'[o][b] = IF b = Caller THEN "stop" ELSE work[o][b]
      /\ pc'[o] = "failing" /\ Caller \in Actor \ ({Timer} \cup Thread)
  BY <1>1, <1>2 DEF ObservedInv, FieldTypes, ObserverAssumption, Actor, Caller, Timer
<1> USE DEF OneInv, fieldVars, stopVars, Recording, Closing
<1>6. ClaimInv(o)'
  BY <1>1, <1>5 DEF ClaimInv, Holds, Actor, SetUpInv
<1>7. SetUpInv(o)'
  BY <1>1, <1>5 DEF SetUpInv, ClaimInv, Actor
<1>8. SubscriptionInv(o)'
  BY <1>1, <1>5 DEF SubscriptionInv, SetUpInv, ClaimInv
<1>9. HandlingInv(o)'
  BY <1>1, <1>5 DEF HandlingInv, ClaimInv, Actor
<1>10. EventInv(o)'
  BY <1>1, <1>5 DEF EventInv, ClaimInv, Actor
<1>11. Settled(o) /\ (o \in Counted' <=> o \in Counted)
  BY <1>1, <1>5 DEF Settled, Counted, SetUpInv
<1> QED
  BY <1>1, <1>3, <1>4, <1>6, <1>7, <1>8, <1>9, <1>10, <1>11, StepOfOne, CountedAsBefore

\* and the operation goes on without it.
LEMMA StartReturnsNullStep ==
  ASSUME ObserverAssumption, ObservedInv, NEW o \in Operation, StartReturnsNull(o)
  PROVE  StepKept
<1>1. /\ work[o][Caller] = "none" /\ pc[o] = "failing" /\ pc' = [pc EXCEPT ![o] = "unobserved"]
      /\ UNCHANGED <<stopVars, raised, fieldVars, reader>>
  BY DEF StartReturnsNull, Moves
<1>2. work' = work
  BY <1>1 DEF stopVars
<1>3. FieldTypes' /\ Current' \subseteq Current
  BY <1>1, <1>2 DEF ObservedInv, FieldTypes, fieldVars, stopVars, Current, Terminal
<1>4. /\ \A p \in Operation \ {o} : SameRaised(p)
      /\ \A p \in Operation \ {o} : Same(p)
  BY <1>1, <1>2 DEF Same, SameRaised, fieldVars, stopVars, ObservedInv, FieldTypes
<1>5. /\ OneInv(o)
      /\ pc'[o] = "unobserved"
  BY <1>1, <1>2 DEF ObservedInv, FieldTypes
<1> USE DEF OneInv, fieldVars, stopVars, Recording, Closing
<1>6. ClaimInv(o)'
  BY <1>1, <1>5 DEF ClaimInv, Holds, Actor
<1>7. SetUpInv(o)'
  BY <1>1, <1>5 DEF SetUpInv, ClaimInv, Actor
<1>8. SubscriptionInv(o)'
  BY <1>1, <1>5 DEF SubscriptionInv, SetUpInv, ClaimInv
<1>9. HandlingInv(o)'
  BY <1>1, <1>5 DEF HandlingInv, ClaimInv, Actor
<1>10. EventInv(o)'
  BY <1>1, <1>5 DEF EventInv, ClaimInv, Actor
<1>11. Settled(o) /\ (o \in Counted' <=> o \in Counted)
  BY <1>1, <1>5 DEF Settled, Counted
<1> QED
  BY <1>1, <1>3, <1>4, <1>6, <1>7, <1>8, <1>9, <1>10, <1>11, StepOfOne, CountedAsBefore

\* The operation ends and stops its observer,
LEMMA DisposeStep ==
  ASSUME ObserverAssumption, ObservedInv, NEW o \in Operation, pc[o] = "running", EndCall(o)
  PROVE  StepKept
<1>1. /\ pc[o] = "running" /\ pc' = [pc EXCEPT ![o] = "closing"] /\ Go(o, Caller, "stop")
      /\ UNCHANGED <<disposed, owned, count, handlers, expiry, raised, fieldVars, reader>>
  BY DEF EndCall, Moves
<1>2. /\ work' \in [Operation -> [Actor -> Phases]]
      /\ \A p \in Operation, b \in Actor :
           work'[p][b] = IF p = o /\ b = Caller THEN "stop" ELSE work[p][b]
  <2>1. "stop" \in Phases
    BY DEF Phases, Recording, Closing
  <2>2. Caller \in Actor
    BY DEF Actor
  <2> QED
    BY <1>1, <2>1, <2>2, Goes DEF ObservedInv
<1>3. FieldTypes' /\ Current' \subseteq Current
  BY <1>1, <1>2 DEF ObservedInv, FieldTypes, fieldVars, stopVars, Current, Terminal
<1>4. /\ \A p \in Operation \ {o} : SameRaised(p)
      /\ \A p \in Operation \ {o} : Same(p)
  BY <1>1, <1>2 DEF Same, SameRaised, fieldVars, stopVars, ObservedInv, FieldTypes
<1>5. /\ OneInv(o)
      /\ \A b \in Actor : work'[o][b] = IF b = Caller THEN "stop" ELSE work[o][b]
      /\ pc'[o] = "closing" /\ Caller \in Actor \ ({Timer} \cup Thread)
  BY <1>1, <1>2 DEF ObservedInv, FieldTypes, ObserverAssumption, Actor, Caller, Timer
<1> USE DEF OneInv, fieldVars, stopVars, Recording, Closing
<1>6. ClaimInv(o)'
  BY <1>1, <1>5 DEF ClaimInv, Holds, Actor, SetUpInv
<1>7. SetUpInv(o)'
  BY <1>1, <1>5 DEF SetUpInv, ClaimInv, Actor
<1>8. SubscriptionInv(o)'
  BY <1>1, <1>5 DEF SubscriptionInv, SetUpInv, ClaimInv
<1>9. HandlingInv(o)'
  BY <1>1, <1>5 DEF HandlingInv, ClaimInv, Actor
<1>10. EventInv(o)'
  BY <1>1, <1>5 DEF EventInv, ClaimInv, Actor
<1>11. Settled(o) /\ (o \in Counted' <=> o \in Counted)
  BY <1>1, <1>5 DEF Settled, Counted, SetUpInv
<1> QED
  BY <1>1, <1>3, <1>4, <1>6, <1>7, <1>8, <1>9, <1>10, <1>11, StepOfOne, CountedAsBefore

\* or has none, and returns.
LEMMA LeaveStep ==
  ASSUME ObserverAssumption, ObservedInv, NEW o \in Operation, (pc[o] = "unobserved" /\ EndCall(o)) \/ DisposeReturns(o)
  PROVE  StepKept
<1>1. /\ pc[o] = "unobserved" \/ (pc[o] = "closing" /\ work[o][Caller] = "none")
      /\ pc' = [pc EXCEPT ![o] = "over"]
      /\ UNCHANGED <<stopVars, raised, fieldVars, reader>>
  BY DEF EndCall, DisposeReturns, Moves, stopVars
<1>2. work' = work
  BY <1>1 DEF stopVars
<1>3. FieldTypes' /\ Current' \subseteq Current
  BY <1>1, <1>2 DEF ObservedInv, FieldTypes, fieldVars, stopVars, Current, Terminal
<1>4. /\ \A p \in Operation \ {o} : SameRaised(p)
      /\ \A p \in Operation \ {o} : Same(p)
  BY <1>1, <1>2 DEF Same, SameRaised, fieldVars, stopVars, ObservedInv, FieldTypes
<1>5. /\ OneInv(o)
      /\ pc'[o] = "over"
  BY <1>1, <1>2 DEF ObservedInv, FieldTypes
<1> USE DEF OneInv, fieldVars, stopVars, Recording, Closing
<1>6. ClaimInv(o)'
  BY <1>1, <1>5 DEF ClaimInv, Holds, Actor
<1>7. SetUpInv(o)'
  BY <1>1, <1>5 DEF SetUpInv, ClaimInv, Actor
<1>8. SubscriptionInv(o)'
  BY <1>1, <1>5 DEF SubscriptionInv, SetUpInv, ClaimInv
<1>9. HandlingInv(o)'
  BY <1>1, <1>5 DEF HandlingInv, ClaimInv, Actor
<1>10. EventInv(o)'
  BY <1>1, <1>5 DEF EventInv, ClaimInv, Actor
<1>11. Settled(o) /\ (o \in Counted' <=> o \in Counted)
  BY <1>1, <1>5 DEF Settled, Counted
<1> QED
  BY <1>1, <1>3, <1>4, <1>6, <1>7, <1>8, <1>9, <1>10, <1>11, StepOfOne, CountedAsBefore

\* The timer expires and stops the observer.
LEMMA ExpireStep ==
  ASSUME ObserverAssumption, ObservedInv, NEW o \in Operation, Expire(o)
  PROVE  StepKept
<1>1. /\ expiry[o] = "armed" /\ expiry' = [expiry EXCEPT ![o] = "idle"] /\ Go(o, Timer, "stop")
      /\ UNCHANGED <<pc, disposed, owned, count, handlers, raised, fieldVars, reader>>
  BY DEF Expire
<1>2. /\ work' \in [Operation -> [Actor -> Phases]]
      /\ \A p \in Operation, b \in Actor :
           work'[p][b] = IF p = o /\ b = Timer THEN "stop" ELSE work[p][b]
  <2>1. "stop" \in Phases
    BY DEF Phases, Recording, Closing
  <2>2. Timer \in Actor
    BY DEF Actor
  <2> QED
    BY <1>1, <2>1, <2>2, Goes DEF ObservedInv
<1>3. FieldTypes' /\ Current' \subseteq Current
  BY <1>1, <1>2 DEF ObservedInv, FieldTypes, fieldVars, stopVars, Current, Terminal
<1>4. /\ \A p \in Operation \ {o} : SameRaised(p)
      /\ \A p \in Operation \ {o} : Same(p)
  BY <1>1, <1>2 DEF Same, SameRaised, fieldVars, stopVars, ObservedInv, FieldTypes
<1>5. /\ OneInv(o)
      /\ \A b \in Actor : work'[o][b] = IF b = Timer THEN "stop" ELSE work[o][b]
      /\ expiry'[o] = "idle" /\ work[o][Timer] = "none" /\ Timer \in Actor \ ({Caller} \cup Thread)
  BY <1>1, <1>2 DEF ObservedInv, FieldTypes, ObserverAssumption, Actor, Caller, Timer, OneInv, SetUpInv
<1> USE DEF OneInv, fieldVars, stopVars, Recording, Closing
<1>6. ClaimInv(o)'
  BY <1>1, <1>5 DEF ClaimInv, Holds, Actor
<1>7. SetUpInv(o)'
  BY <1>1, <1>5 DEF SetUpInv, ClaimInv, Actor
<1>8. SubscriptionInv(o)'
  BY <1>1, <1>5 DEF SubscriptionInv, SetUpInv, ClaimInv
<1>9. HandlingInv(o)'
  BY <1>1, <1>5 DEF HandlingInv, ClaimInv, Actor
<1>10. EventInv(o)'
  BY <1>1, <1>5 DEF EventInv, ClaimInv, Actor
<1>11. Settled(o) /\ (o \in Counted' <=> o \in Counted)
  BY <1>1, <1>5 DEF Settled, Counted, SetUpInv
<1> QED
  BY <1>1, <1>3, <1>4, <1>6, <1>7, <1>8, <1>9, <1>10, <1>11, StepOfOne, CountedAsBefore

\* An exception: it is of the operation whose observer is subscribed and has not
\* been won, since that operation is under way and the only one.
LEMMA RaiseStep ==
  ASSUME ObserverAssumption, ObservedInv, NEW t \in Thread, Raise(t)
  PROVE  StepKept
<1> DEFINE now == IF Current = {} THEN None ELSE CHOOSE o \in Current : TRUE
           event == [by |-> t, during |-> now]
<1>1. /\ raised[t].pending = {} /\ raised' = [raised EXCEPT ![t] = [event |-> event, pending |-> handlers]]
      /\ UNCHANGED <<pc, stopVars, fieldVars, reader>>
  BY DEF Raise
<1>2. event \in Event /\ event # None
  <2>1. now \in Operation \cup {None}
    BY DEF Current
  <2> HIDE DEF now
  <2>2. event \in Event
    BY <2>1 DEF Event
  <2> QED
    BY <2>2 DEF ObserverAssumption
<1>3. FieldTypes'
  BY <1>1, <1>2 DEF ObservedInv, FieldTypes, stopVars, fieldVars
<1>4. /\ \A u \in Thread \ {t} : raised'[u] = raised[u]
      /\ raised'[t].event = event /\ raised'[t].pending = handlers
  BY <1>1 DEF ObservedInv, FieldTypes
<1>5. ASSUME NEW o \in Operation PROVE OneInv(o)' /\ Settled(o)
  <2>1. Same(o) /\ OneInv(o) /\ work[o][t] = "none"
    BY <1>1 DEF Same, stopVars, fieldVars, ObservedInv, OneInv, HandlingInv
  <2>2. ClaimInv(o)' /\ SubscriptionInv(o)'
    BY <2>1 DEF Same, OneInv, ClaimInv, SubscriptionInv, Holds, Actor
  <2>3. SetUpInv(o)'
    BY <1>4, <2>1 DEF Same, OneInv, SetUpInv, Actor
  <2>4. EventInv(o)'
    BY <1>4, <2>1 DEF Same, OneInv, EventInv, Actor, Closing
  <2>5. HandlingInv(o)'
    <3>1. ASSUME o \in handlers PROVE disposed[o] \/ event.during = o
      <4>1. pc[o] # "idle" /\ (pc[o] = "over" => disposed[o])
        BY <2>1, <3>1 DEF OneInv, SetUpInv
      <4>2. ~disposed[o] => o \in Current
        BY <4>1 DEF Current
      <4>3. o \in Current => now = o
        BY DEF ObservedInv
      <4> QED
        BY <4>2, <4>3
    <3>2. \A u \in Thread \ {t} : raised'[u] = raised[u] /\ work'[o][u] = work[o][u]
      BY <1>4, <2>1 DEF Same, Actor
    <3>3. work'[o][t] = "none" /\ disposed'[o] = disposed[o]
      BY <2>1 DEF Same, Actor
    <3> HIDE DEF event
    <3> QED
      BY <1>2, <1>4, <2>1, <3>1, <3>2, <3>3 DEF OneInv, HandlingInv, Recording
  <2> QED
    BY <2>1, <2>2, <2>3, <2>4, <2>5 DEF OneInv, Settled, Same
<1>6. Current' = Current /\ Counted' = Counted /\ count' = count
  BY <1>1 DEF Current, Counted, stopVars, fieldVars
<1> QED
  BY <1>3, <1>5, <1>6 DEF StepKept, ObservedInv

\* Reading, or nothing at all, changes no observer.
LEMMA NothingStep ==
  ASSUME ObservedInv, UNCHANGED <<pc, stopVars, raised, fieldVars>>
  PROVE  StepKept
<1>1. FieldTypes' /\ Current' = Current /\ Counted' = Counted /\ count' = count
  BY DEF ObservedInv, FieldTypes, stopVars, fieldVars, Current, Counted
<1>2. \A o \in Operation : Same(o) /\ SameRaised(o) /\ OneInv(o)
  BY DEF Same, SameRaised, stopVars, fieldVars, ObservedInv
<1> QED
  BY <1>1, <1>2, Elsewhere DEF StepKept, ObservedInv

\* Every step keeps the invariant of every observer, and what has settled.
LEMMA ObservedStep ==
  ASSUME ObserverAssumption, ObservedInv, [ObserverNext]_observerVars
  PROVE  StepKept
<1>1. ASSUME NEW o \in Operation, NEW a \in Actor, CleanUp(o, a) PROVE StepKept
  BY <1>1, StopStep, ReleaseStep, UnsubscribeStep, UncountStep, DisposeTimerStep, RecordTerminalStep
     DEF CleanUp
<1>2. ASSUME NEW o \in Operation, NEW t \in Thread, Handle(t, o) PROVE StepKept
  BY <1>2, EnterDisposedStep, EnterHandlerStep, ClaimLostStep, ClaimStep, RecordCategoryStep,
     RecordDetailsStep, SetRecordedStep DEF Handle
<1>3. ASSUME NEW o \in Operation, SetUp(o) PROVE StepKept
  BY <1>3, CountStep, SubscribeStep, CheckStep, RecordStartedStep, ArmStep, SetupFailsStep,
     StartReturnsNullStep DEF SetUp
<1>4. ASSUME NEW o \in Operation, Construct(o) \/ EndCall(o) \/ DisposeReturns(o) \/ Expire(o) PROVE StepKept
  <2>1. EndCall(o) => pc[o] \in {"running", "unobserved"}
    BY DEF EndCall, Moves
  <2> QED
    BY <1>4, <2>1, ConstructStep, DisposeStep, LeaveStep, ExpireStep
<1>5. ASSUME Read \/ UNCHANGED observerVars PROVE StepKept
  BY <1>5, NothingStep DEF Read, ReadState, ReadRecorded, ReadDetails, ReadCategory, ReturnSnapshot,
     observerVars
<1> QED
  BY <1>1, <1>2, <1>3, <1>4, <1>5, RaiseStep DEF ObserverNext

\* What the reader has read stays true of the observer.
LEMMA ReaderStep ==
  ASSUME ObserverAssumption, ObservedInv, ReaderInv, [ObserverNext]_observerVars
  PROVE  ReaderInv'
<1>1. \A o \in Operation : Settled(o) /\ EventInv(o)
  BY ObservedStep DEF StepKept, ObservedInv, OneInv
<1> USE DEF ReaderInv
<1>2. CASE UNCHANGED reader
  BY <1>1, <1>2 DEF Settled
<1>3. ASSUME NEW o \in Operation, ReadState(o) PROVE ReaderInv'
  BY <1>3, ObserverAssumption DEF ReadState, ObservedInv, FieldTypes, fieldVars
<1>4. CASE ReadRecorded
  <2>1. reader.op \in Operation /\ recorded[reader.op] \in BOOLEAN /\ UNCHANGED fieldVars
    BY <1>4 DEF ReadRecorded, ObservedInv, FieldTypes
  <2>2. reader.state = "Matched" => recorded[reader.op]
    BY <1>1, <1>4, <2>1 DEF ReadRecorded, EventInv, Terminal
  <2> QED
    BY <1>4, <2>1, <2>2 DEF ReadRecorded, fieldVars
<1>5. CASE ReadDetails
  <2>1. /\ reader.op \in Operation /\ UNCHANGED fieldVars /\ details[reader.op] \in Event \cup {None}
        /\ reader' = [reader EXCEPT !.details = details[reader.op], !.step = "category"]
        /\ reader.step = "details"
    BY <1>5 DEF ReadDetails, ObservedInv, FieldTypes
  <2> QED
    BY <2>1 DEF fieldVars
<1>6. CASE ReadCategory
  <2>1. /\ reader.op \in Operation /\ UNCHANGED fieldVars /\ category[reader.op] \in Event \cup {None}
        /\ reader' = [reader EXCEPT !.category = category[reader.op], !.step = "done"]
        /\ reader.step = "category"
    BY <1>6 DEF ReadCategory, ObservedInv, FieldTypes
  <2> QED
    BY <2>1 DEF fieldVars
<1>7. CASE ReturnSnapshot
  BY <1>7 DEF ReturnSnapshot, NotReading
<1>8. ASSUME NEW o \in Operation, Construct(o) \/ SetUp(o) \/ EndCall(o) \/ DisposeReturns(o) \/ Expire(o)
      PROVE  UNCHANGED reader
  BY <1>8 DEF Construct, SetUp, Count, Subscribe, Check, RecordStarted, Arm, SetupFails, StartReturnsNull,
     EndCall, DisposeReturns, Expire
<1>9. ASSUME NEW o \in Operation, NEW a \in Actor, CleanUp(o, a) PROVE UNCHANGED reader
  BY <1>9 DEF CleanUp, Stop, Release, Unsubscribe, Uncount, DisposeTimer, RecordTerminal
<1>10. ASSUME NEW o \in Operation, NEW t \in Thread, Handle(t, o) PROVE UNCHANGED reader
  BY <1>10 DEF Handle, EnterHandler, Claim, RecordCategory, RecordDetails, SetRecorded
<1>11. ASSUME NEW t \in Thread, Raise(t) PROVE UNCHANGED reader
  BY <1>11 DEF Raise
<1>12. UNCHANGED observerVars => UNCHANGED reader
  BY DEF observerVars
<1> QED
  BY <1>2, <1>3, <1>4, <1>5, <1>6, <1>7, <1>8, <1>9, <1>10, <1>11, <1>12 DEF ObserverNext, Read

-----------------------------------------------------------------------------
\* The invariant of the observers and of the reader holds throughout.
THEOREM ObserverInvariance == ObserverSpec => [](ObservedInv /\ ReaderInv)
<1>1. ObserverInit => ObservedInv /\ ReaderInv
  <2> SUFFICES ASSUME ObserverInit PROVE ObservedInv /\ ReaderInv
    OBVIOUS
  <2> USE DEF ObserverInit
  <2>1. FieldTypes
    BY DEF FieldTypes, Phases, Quiet
  <2>2. Current = {} /\ Counted = {}
    BY DEF Current, Counted
  <2>3. ASSUME NEW o \in Operation PROVE OneInv(o)
    <3>1. ClaimInv(o) /\ SetUpInv(o)
      BY DEF ClaimInv, SetUpInv, Holds, Recording, Closing, Terminal, Actor, Quiet
    <3>2. SubscriptionInv(o) /\ HandlingInv(o) /\ EventInv(o)
      BY DEF SubscriptionInv, HandlingInv, EventInv, Recording, Closing, Terminal, Actor, Quiet
    <3> QED
      BY <3>1, <3>2 DEF OneInv
  <2>4. ReaderInv
    BY DEF ReaderInv, NotReading
  <2> QED
    BY <2>1, <2>2, <2>3, <2>4, FS_EmptySet DEF ObservedInv
<1>2. ObservedInv /\ ReaderInv /\ [ObserverNext]_observerVars => (ObservedInv /\ ReaderInv)'
  BY ObservedStep, ReaderStep, ObserverAssumption DEF StepKept
<1> QED
  BY <1>1, <1>2, PTL DEF ObserverSpec

\* The count of subscriptions is never negative and every field has its type.
THEOREM ObserverTypes == ObserverSpec => []ObserverTypeOK
<1>1. ObservedInv /\ ReaderInv => ObserverTypeOK
  <2> SUFFICES ASSUME ObservedInv, ReaderInv PROVE ObserverTypeOK
    OBVIOUS
  <2>1. Counted \in SUBSET Operation
    BY DEF Counted
  <2>2. count \in 0..Cardinality(Operation)
    BY <2>1, ObserverAssumption, FS_Subset, FS_CardinalityType DEF ObservedInv
  <2> QED
    BY <2>2 DEF ObservedInv, FieldTypes, ReaderInv, ObserverTypeOK, Phases, Recording, Closing
<1> QED
  BY <1>1, ObserverInvariance, PTL

\* No operation's diagnostics show an exception of another one.
THEOREM EventsAreOfTheirOperation == ObserverSpec => []EventIsOfItsOperation
<1>1. ObservedInv => EventIsOfItsOperation
  BY DEF ObservedInv, OneInv, EventInv, EventIsOfItsOperation
<1> QED
  BY <1>1, ObserverInvariance, PTL

\* A health call reports fields of one event, with the end that belongs to it.
THEOREM SnapshotsAreCoherent == ObserverSpec => []SnapshotIsCoherent
<1>1. ObservedInv /\ ReaderInv => SnapshotIsCoherent
  <2> SUFFICES ASSUME ObservedInv, ReaderInv, reader.step = "done"
               PROVE  /\ reader.state = "Matched" => reader.recorded
                      /\ reader.recorded => /\ reader.state \notin Terminal \ {"Matched"}
                                            /\ reader.category # None /\ reader.details = reader.category
    BY DEF SnapshotIsCoherent
  <2>1. reader.op \in Operation /\ EventInv(reader.op)
    BY DEF ReaderInv, ObservedInv, OneInv
  <2> QED
    BY <2>1 DEF ReaderInv, EventInv
<1> QED
  BY <1>1, ObserverInvariance, PTL

\* When nobody is at work, whatever won, nothing is subscribed or counted.
THEOREM SubscriptionsAreCleaned == ObserverSpec => []NothingStaysSubscribed
<1>1. ObservedInv => NothingStaysSubscribed
  <2> SUFFICES ASSUME ObservedInv, AtRest PROVE handlers = {} /\ count = 0
    BY DEF NothingStaysSubscribed
  <2>1. ASSUME NEW o \in Operation PROVE o \notin handlers /\ o \notin Counted
    <3>1. OneInv(o) /\ pc[o] \in {"idle", "over"} /\ \A a \in Actor : ~Holds(o, a)
      BY DEF ObservedInv, AtRest, Holds, Recording, Closing
    <3>2. CASE pc[o] = "idle"
      BY <3>1, <3>2 DEF OneInv, SetUpInv, Counted
    <3>3. CASE pc[o] = "over"
      BY <3>1, <3>3 DEF OneInv, SetUpInv, ClaimInv, SubscriptionInv, Counted
    <3> QED
      BY <3>1, <3>2, <3>3
  <2>2. handlers = {} /\ Counted = {}
    BY <2>1 DEF ObservedInv, FieldTypes, Counted
  <2> QED
    BY <2>2, FS_EmptySet DEF ObservedInv
<1> QED
  BY <1>1, ObserverInvariance, PTL

\* The end that was reported is not taken back.
THEOREM TerminalsAreFinal == ObserverSpec => TerminalIsFinal
<1>1. ObservedInv /\ [ObserverNext]_observerVars =>
        [\A o \in Operation : state[o] \in Terminal => state'[o] = state[o]]_observerVars
  BY ObservedStep, ObserverAssumption DEF StepKept, Settled
<1> QED
  BY <1>1, ObserverInvariance, PTL DEF ObserverSpec, TerminalIsFinal
===============================================================================
