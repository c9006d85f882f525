--------------------------- MODULE ServerToolsProofs ---------------------------
(***************************************************************************)
(* Proofs about the tools of the MCP server.                               *)
(*                                                                         *)
(* SkillCatalog, for any skills, filters, limits and edits: what a walk    *)
(* over the pages of a result misses, and what it repeats.  A skill counts *)
(* as passed when its rank is below the offset of the cursor; a file that  *)
(* comes only raises the ranks of the others, one that goes only lowers    *)
(* them.                                                                   *)
(*                                                                         *)
(* CodeTools, for any calls, skills and answers: what the plugin gets, what *)
(* the caller is told and what the audit log says agree.                   *)
(*                                                                         *)
(* SkillBinding, for any skill files and values: what get tells of a skill *)
(* is what a run does, and binding exchanges the initialisers and nothing  *)
(* else.  Texts are put together line by line, so what is said of them is  *)
(* shown by induction over the number of lines or replacements.            *)
(***************************************************************************)
EXTENDS SkillCatalog, CodeTools, SkillBinding,
        FiniteSetTheorems, SequenceTheorems, WellFoundedInduction, TLAPS

Passed(s) == cursor = None \/ Rank(s, Results(args)) < cursor.offset

\* The values of the variables, the fields of a cursor among them.
WalkTypeInv ==
  /\ CatalogTypeOK
  /\ cursor # None => cursor \in Cursor /\ cursor.filters = FiltersOf(args)
  /\ args = None => given = 0 /\ delivered = {} /\ found = {}

\* Without removals, what was there when the walk began still is, and what of it
\* has been passed has been given.
NothingHidden ==
  args # None /\ ~removed =>
    /\ found \subseteq Results(args)
    /\ \A s \in found : Passed(s) => s \in delivered

\* Without additions, what there is was there when the walk began, and what has
\* been given has been passed, once.
NothingRepeated ==
  args # None /\ ~added =>
    /\ Results(args) \subseteq found /\ delivered \subseteq found
    /\ \A s \in delivered \cap Results(args) : Passed(s)
    /\ given = Cardinality(delivered)

CatalogInv == WalkTypeInv /\ NothingHidden /\ NothingRepeated /\ CursorIsBound

-----------------------------------------------------------------------------
\* Every skill of a result has a rank below the size of the result.
LEMMA RankInResult ==
  ASSUME NEW R \in SUBSET Skill, NEW s \in R
  PROVE  /\ Rank(s, R) \in Nat /\ Cardinality(R) \in Nat
         /\ Rank(s, R) < Cardinality(R)
<1> DEFINE below == {t \in R : t < s}
<1>1. IsFiniteSet(R) /\ Cardinality(R) \in Nat
  BY CatalogAssumption, FS_Subset, FS_CardinalityType
<1>2. below \in SUBSET R /\ s \notin below
  BY CatalogAssumption
<1>3. /\ IsFiniteSet(below) /\ Cardinality(below) <= Cardinality(R)
      /\ Cardinality(R) = Cardinality(below) => R = below
  BY <1>1, <1>2, FS_Subset
<1>4. Cardinality(below) \in Nat
  BY <1>3, FS_CardinalityType
<1>5. Cardinality(below) # Cardinality(R)
  BY <1>2, <1>3
<1> QED
  BY <1>1, <1>3, <1>4, <1>5 DEF Rank

\* A larger result ranks a skill at least as high.
LEMMA RankGrows ==
  ASSUME NEW R \in SUBSET Skill, NEW Q \in SUBSET R, NEW s \in Skill
  PROVE  Rank(s, Q) \in Nat /\ Rank(s, R) \in Nat /\ Rank(s, Q) <= Rank(s, R)
<1>1. {t \in R : t < s} \in SUBSET Skill
  OBVIOUS
<1>2. {t \in Q : t < s} \in SUBSET {t \in R : t < s}
  OBVIOUS
<1>3. IsFiniteSet({t \in R : t < s})
  BY <1>1, CatalogAssumption, FS_Subset
<1> QED
  BY <1>2, <1>3, FS_Subset, FS_CardinalityType DEF Rank

\* The result depends on the filters only.
LEMMA SameResults ==
  ASSUME NEW a \in Args, NEW b \in Args, FiltersOf(a) = FiltersOf(b)
  PROVE  Results(a) = Results(b)
<1>1. a.action = b.action /\ a.category = b.category /\ (a.action = "search" => a.query = b.query)
  BY DEF FiltersOf
<1> QED
  BY <1>1 DEF Results, Matches

-----------------------------------------------------------------------------
\* What one page does: skills from the offset on are given, and passed, up to the
\* limit; if none of them was given before, each counts once.
LEMMA PageIsPassed ==
  ASSUME NEW a \in Args, NEW offset \in Nat, NEW limit \in Limit,
         NEW seen \in SUBSET Skill, NEW count \in Nat,
         catalog \subseteq Skill, Page(a, offset, limit, seen, count), args' = a, UNCHANGED catalog
  PROVE  /\ Results(args)' = Results(a)
         /\ \A s \in Results(a) : Passed(s)' <=> Rank(s, Results(a)) < offset + limit
         /\ \A s : s \in delivered' <=>
              \/ s \in seen
              \/ s \in Results(a) /\ Rank(s, Results(a)) \in offset..(offset + limit - 1)
         /\ delivered' \subseteq Skill /\ given' \in Nat /\ answer' = "page"
         /\ cursor' # None => /\ cursor' \in Cursor /\ cursor'.filters = FiltersOf(args)'
                              /\ cursor'.offset \in 1..Cardinality(Skill)
         /\ (/\ count = Cardinality(seen)
             /\ \A s \in seen \cap Results(a) : Rank(s, Results(a)) < offset)
            => given' = Cardinality(delivered')
<1> DEFINE hits == Results(a)
           page == {s \in hits : Rank(s, hits) >= offset /\ Rank(s, hits) < offset + limit}
           next == NextOffset(offset, limit, hits)
<1> limit \in Nat \ {0}
  BY CatalogAssumption
<1>1. hits \in SUBSET Skill /\ Results(args)' = hits
  BY DEF Results
<1>2. /\ answer' = "page" /\ delivered' = seen \cup page /\ given' = count + Cardinality(page)
      /\ cursor' = IF next < Cardinality(hits) THEN [offset |-> next, filters |-> Filters(a)]
                   ELSE None
  BY DEF Page
<1>3. /\ Cardinality(hits) \in Nat /\ Cardinality(Skill) \in Nat
      /\ Cardinality(hits) <= Cardinality(Skill)
  BY <1>1, CatalogAssumption, FS_Subset, FS_CardinalityType
<1>4. FiltersOf(a) \in Args
  BY DEF FiltersOf, Args
<1>5. \A s \in hits : Rank(s, hits) \in Nat /\ Rank(s, hits) < Cardinality(hits)
  BY <1>1, RankInResult
<1> HIDE DEF hits, page
<1>6. next < Cardinality(hits) => next = offset + limit
  BY <1>3 DEF NextOffset
<1>7. ~(next < Cardinality(hits)) => offset + limit >= Cardinality(hits)
  BY <1>3 DEF NextOffset
<1>8. /\ \A s \in hits : Passed(s)' <=> Rank(s, hits) < offset + limit
      /\ cursor' # None => /\ cursor' \in Cursor /\ cursor'.filters = FiltersOf(a)
                           /\ cursor'.offset \in 1..Cardinality(Skill)
  <2>1. CASE next < Cardinality(hits)
    <3>1. cursor' = [offset |-> offset + limit, filters |-> FiltersOf(a)]
      BY <1>2, <1>6, <2>1 DEF Filters
    <3>2. cursor' \in Cursor /\ cursor' # None
      BY <1>4, <3>1, CatalogAssumption DEF Cursor
    <3>3. cursor'.offset \in 1..Cardinality(Skill)
      BY <1>3, <1>6, <2>1, <3>1
    <3>4. \A s \in hits : Passed(s)' <=> Rank(s, hits) < offset + limit
      BY <1>1, <3>1, <3>2 DEF Passed
    <3> QED
      BY <3>1, <3>2, <3>3, <3>4
  <2>2. CASE ~(next < Cardinality(hits))
    <3>1. cursor' = None
      BY <1>2, <2>2
    <3>2. \A s \in hits : Rank(s, hits) < offset + limit
      BY <1>3, <1>5, <1>7, <2>2
    <3> QED
      BY <3>1, <3>2 DEF Passed
  <2> QED
    BY <2>1, <2>2
<1>9. FiltersOf(args)' = FiltersOf(a)
  BY DEF FiltersOf
<1>10. IsFiniteSet(page) /\ Cardinality(page) \in Nat /\ page \subseteq hits
  <2>1. page \in SUBSET Skill /\ page \subseteq hits
    BY <1>1 DEF page
  <2> QED
    BY <2>1, CatalogAssumption, FS_Subset, FS_CardinalityType
<1>11. \A s : s \in page <=> s \in hits /\ Rank(s, hits) \in offset..(offset + limit - 1)
  BY <1>5 DEF page
<1>12. ASSUME count = Cardinality(seen), \A s \in seen \cap hits : Rank(s, hits) < offset
       PROVE  given' = Cardinality(delivered')
  <2>1. seen \cap page = {}
    BY <1>5, <1>11, <1>12
  <2>2. IsFiniteSet(seen) /\ Cardinality(seen) \in Nat
    BY CatalogAssumption, FS_Subset, FS_CardinalityType
  <2>3. Cardinality(seen \cup page) =
          Cardinality(seen) + Cardinality(page) - Cardinality(seen \cap page)
    BY <1>10, <2>2, FS_Union
  <2>4. Cardinality(seen \cap page) = 0
    BY <2>1, FS_EmptySet
  <2>5. Cardinality(delivered') = Cardinality(seen) + Cardinality(page)
    BY <1>2, <1>10, <2>2, <2>3, <2>4
  <2> QED
    BY <1>2, <1>12, <2>5
<1> QED
  BY <1>1, <1>2, <1>8, <1>9, <1>10, <1>11, <1>12 DEF hits

-----------------------------------------------------------------------------
\* A walk begins.
LEMMA FirstPageStep ==
  ASSUME CatalogInv, NEW a \in Args, NEW limit \in Limit, FirstPage(a, limit)
  PROVE  CatalogInv'
<1> USE CatalogAssumption DEF CatalogInv, WalkTypeInv, CatalogTypeOK
<1>1. /\ args' = a /\ found' = Results(a) /\ UNCHANGED catalog
      /\ call' = [args |-> a, cursor |-> None] /\ added' = FALSE /\ removed' = FALSE
      /\ Page(a, 0, limit, {}, 0)
  BY DEF FirstPage
<1>2. a # None /\ Results(a) \subseteq Skill
  BY DEF Results
<1>3. /\ Results(args)' = Results(a)
      /\ \A s \in Results(a) : Passed(s)' <=> Rank(s, Results(a)) < 0 + limit
      /\ \A s : s \in delivered' <=>
           \/ s \in {}
           \/ s \in Results(a) /\ Rank(s, Results(a)) \in 0..(0 + limit - 1)
      /\ delivered' \subseteq Skill /\ given' \in Nat /\ answer' = "page"
      /\ cursor' # None => /\ cursor' \in Cursor /\ cursor'.filters = FiltersOf(args)'
                           /\ cursor'.offset \in 1..Cardinality(Skill)
      /\ given' = Cardinality(delivered')
  <2>1. {} \in SUBSET Skill /\ 0 \in Nat
    OBVIOUS
  <2>2. 0 = Cardinality({})
    BY FS_EmptySet
  <2> HIDE DEF CatalogInv, WalkTypeInv
  <2> QED
    BY <1>1, <2>1, <2>2, PageIsPassed DEF CatalogInv, WalkTypeInv
<1>4. limit \in Nat /\ \A s \in Results(a) : Rank(s, Results(a)) \in Nat
  BY <1>2, RankInResult
<1>5. WalkTypeInv'
  <2>1. cursor' # None => cursor'.filters \in Args
    BY <1>3 DEF Cursor
  <2> QED
    BY <1>1, <1>2, <1>3, <2>1
<1>6. NothingHidden'
  BY <1>1, <1>3, <1>4 DEF NothingHidden
<1>7. NothingRepeated'
  BY <1>1, <1>3, <1>4 DEF NothingRepeated
<1>8. CursorIsBound'
  BY <1>1 DEF CursorIsBound
<1> QED
  BY <1>5, <1>6, <1>7, <1>8

\* A refused call leaves the walk where it was.
LEMMA RefuseStep ==
  ASSUME CatalogInv, NEW why \in {"query", "limit", "invalid", "mismatch", "outside"},
         Refuse(why), UNCHANGED catalog
  PROVE  CatalogInv'
<1> USE DEF Refuse, walkVars, CatalogInv
<1>1. WalkTypeInv'
  BY DEF WalkTypeInv, CatalogTypeOK
<1>2. NothingHidden' /\ NothingRepeated'
  BY DEF NothingHidden, NothingRepeated, Passed, Results, Rank
<1>3. CursorIsBound'
  BY DEF CursorIsBound
<1> QED
  BY <1>1, <1>2, <1>3

\* A walk goes on; the arguments may differ from the first ones in what the
\* filters leave out.
LEMMA UseCursorStep ==
  ASSUME CatalogInv, NEW a \in Args, NEW limit \in Limit, UseCursor(a, limit)
  PROVE  CatalogInv'
<1>1. CASE \E why \in {"invalid", "mismatch", "outside"} : Refuse(why)
  BY <1>1, RefuseStep DEF UseCursor
<1>2. CASE /\ SameFilters(a, cursor)
           /\ Page(a, cursor.offset, limit, delivered, given)
           /\ UNCHANGED <<args, found, added, removed>>
  <2> DEFINE hits == Results(args)
             offset == cursor.offset
  <2>1. /\ cursor # None /\ call' = [args |-> a, cursor |-> cursor] /\ UNCHANGED catalog
        /\ args \in Args /\ offset \in Nat \ {0} /\ FiltersOf(a) = FiltersOf(args)
        /\ FiltersOf(a) = cursor.filters
        /\ catalog \subseteq Skill /\ delivered \in SUBSET Skill /\ given \in Nat
    BY <1>2 DEF UseCursor, SameFilters, CatalogInv, WalkTypeInv, CatalogTypeOK
  <2>2. hits = Results(a) /\ hits \in SUBSET Skill /\ UNCHANGED hits
    BY <1>2, <2>1, SameResults DEF Results
  <2>3. Page(a, offset, limit, delivered, given)
    BY <1>2
  <2>4. Page(args, offset, limit, delivered, given)
    BY <2>1, <2>2, <2>3 DEF Page, Filters
  <2>5. /\ \A s \in hits : Passed(s)' <=> Rank(s, hits) < offset + limit
        /\ \A s : s \in delivered' <=>
             \/ s \in delivered
             \/ s \in hits /\ Rank(s, hits) \in offset..(offset + limit - 1)
        /\ delivered' \subseteq Skill /\ given' \in Nat /\ answer' = "page"
        /\ cursor' # None => /\ cursor' \in Cursor /\ cursor'.filters = FiltersOf(args)'
                             /\ cursor'.offset \in 1..Cardinality(Skill)
        /\ (/\ given = Cardinality(delivered)
            /\ \A s \in delivered \cap hits : Rank(s, hits) < offset)
           => given' = Cardinality(delivered')
    <3>1. args' = args /\ UNCHANGED catalog /\ catalog \subseteq Skill
      BY <1>2, <2>1
    <3>2. args \in Args /\ offset \in Nat /\ delivered \in SUBSET Skill /\ given \in Nat
      BY <2>1
    <3> HIDE DEF offset
    <3> QED
      BY <2>4, <3>1, <3>2, PageIsPassed, Z3
  <2>6. limit \in Nat \ {0} /\ \A s \in hits : Rank(s, hits) \in Nat
    BY <2>2, RankInResult, CatalogAssumption
  <2>7. \A s \in hits : Passed(s) <=> Rank(s, hits) < offset
    BY <2>1 DEF Passed
  <2>8. UNCHANGED <<args, found, added, removed>>
    BY <1>2
  <2> HIDE DEF hits, offset
  <2>9. WalkTypeInv'
    <3>1. cursor' # None => cursor'.filters \in Args
      BY <2>5 DEF Cursor
    <3> QED
      BY <2>1, <2>5, <2>8, <3>1 DEF CatalogInv, WalkTypeInv, CatalogTypeOK
  <2>10. NothingHidden'
    <3> SUFFICES ASSUME ~removed
                 PROVE  (found \subseteq hits /\ \A s \in found : Passed(s) => s \in delivered)'
      BY <2>2, <2>8 DEF NothingHidden, hits
    <3>1. found \subseteq hits /\ \A s \in found : Passed(s) => s \in delivered
      BY <2>1, CatalogAssumption DEF CatalogInv, NothingHidden, hits
    <3>2. ASSUME NEW s \in found, Passed(s)' PROVE s \in delivered'
      <4>1. s \in hits /\ Rank(s, hits) < offset + limit /\ Rank(s, hits) \in Nat
        BY <2>5, <2>6, <3>1, <3>2
      <4>2. CASE Rank(s, hits) < offset
        BY <2>5, <2>7, <3>1, <4>1, <4>2
      <4>3. CASE Rank(s, hits) >= offset
        BY <2>1, <2>5, <2>6, <4>1, <4>3
      <4> QED
        BY <2>1, <4>1, <4>2, <4>3
    <3> QED
      BY <2>2, <2>8, <3>1, <3>2
  <2>11. NothingRepeated'
    <3> SUFFICES ASSUME ~added
                 PROVE  (/\ hits \subseteq found /\ delivered \subseteq found
                         /\ \A s \in delivered \cap hits : Passed(s)
                         /\ given = Cardinality(delivered))'
      BY <2>8 DEF NothingRepeated, hits
    <3>1. /\ hits \subseteq found /\ delivered \subseteq found
          /\ \A s \in delivered \cap hits : Passed(s)
          /\ given = Cardinality(delivered)
      BY <2>1, CatalogAssumption DEF CatalogInv, NothingRepeated, hits
    <3>2. \A s \in delivered \cap hits : Rank(s, hits) < offset
      BY <2>7, <3>1
    <3>3. ASSUME NEW s \in delivered' \cap hits PROVE Passed(s)'
      <4>1. Rank(s, hits) < offset + limit
        BY <2>1, <2>5, <2>6, <3>2, <3>3
      <4> QED
        BY <2>5, <4>1, <3>3
    <3> QED
      BY <2>2, <2>5, <2>8, <3>1, <3>2, <3>3
  <2>12. CursorIsBound'
    BY <2>1 DEF CursorIsBound
  <2> QED
    BY <2>9, <2>10, <2>11, <2>12 DEF CatalogInv
<1> QED
  BY <1>1, <1>2 DEF UseCursor

\* A file comes: no skill of the result is passed that was not before.
LEMMA AddSkillStep ==
  ASSUME CatalogInv, NEW new \in Skill, AddSkill(new)
  PROVE  CatalogInv'
<1>1. /\ catalog' = catalog \cup {new} /\ added' = TRUE /\ catalog \subseteq Skill
      /\ UNCHANGED <<walkVars, answer, call, removed>>
  BY DEF AddSkill, CatalogInv, WalkTypeInv, CatalogTypeOK
<1>2. WalkTypeInv' /\ NothingRepeated' /\ CursorIsBound'
  BY <1>1 DEF CatalogInv, WalkTypeInv, CatalogTypeOK, NothingRepeated, CursorIsBound, walkVars
<1>3. NothingHidden'
  <2> SUFFICES ASSUME args # None, ~removed
               PROVE  (/\ found \subseteq Results(args)
                       /\ \A s \in found : Passed(s) => s \in delivered)'
    BY <1>1 DEF NothingHidden, walkVars
  <2>1. Results(args) \in SUBSET Results(args)' /\ Results(args)' \in SUBSET Skill
    BY <1>1 DEF Results, Matches, walkVars
  <2>2. found \subseteq Results(args) /\ \A s \in found : Passed(s) => s \in delivered
    BY DEF CatalogInv, NothingHidden
  <2>3. ASSUME NEW s \in found, Passed(s)' PROVE Passed(s)
    <3>1. /\ Rank(s, Results(args)) \in Nat /\ Rank(s, Results(args)') \in Nat
          /\ Rank(s, Results(args)) <= Rank(s, Results(args)')
      BY <2>1, <2>2, RankGrows
    <3>2. cursor # None => cursor.offset \in Nat
      BY DEF CatalogInv, WalkTypeInv, Cursor
    <3>3. cursor = None \/ Rank(s, Results(args)') < cursor.offset
      BY <1>1, <2>3 DEF Passed, Rank, walkVars
    <3> QED
      BY <3>1, <3>2, <3>3 DEF Passed
  <2> QED
    BY <1>1, <2>1, <2>2, <2>3 DEF walkVars
<1> QED
  BY <1>2, <1>3 DEF CatalogInv

\* A file goes: every skill of the result that was passed still is.
LEMMA RemoveSkillStep ==
  ASSUME CatalogInv, NEW old \in Skill, RemoveSkill(old)
  PROVE  CatalogInv'
<1>1. /\ catalog' = catalog \ {old} /\ removed' = TRUE /\ catalog \subseteq Skill
      /\ UNCHANGED <<walkVars, answer, call, added>>
  BY DEF RemoveSkill, CatalogInv, WalkTypeInv, CatalogTypeOK
<1>2. WalkTypeInv' /\ NothingHidden' /\ CursorIsBound'
  BY <1>1 DEF CatalogInv, WalkTypeInv, CatalogTypeOK, NothingHidden, CursorIsBound, walkVars
<1>3. NothingRepeated'
  <2> SUFFICES ASSUME args # None, ~added
               PROVE  (/\ Results(args) \subseteq found /\ delivered \subseteq found
                       /\ \A s \in delivered \cap Results(args) : Passed(s)
                       /\ given = Cardinality(delivered))'
    BY <1>1 DEF NothingRepeated, walkVars
  <2>1. Results(args)' \in SUBSET Results(args) /\ Results(args) \in SUBSET Skill
    BY <1>1 DEF Results, Matches, walkVars
  <2>2. /\ Results(args) \subseteq found /\ delivered \subseteq found
        /\ \A s \in delivered \cap Results(args) : Passed(s)
        /\ given = Cardinality(delivered)
    BY DEF CatalogInv, NothingRepeated
  <2>3. ASSUME NEW s \in delivered \cap Results(args)' PROVE Passed(s)'
    <3>1. /\ Rank(s, Results(args)) \in Nat /\ Rank(s, Results(args)') \in Nat
          /\ Rank(s, Results(args)') <= Rank(s, Results(args))
      BY <2>1, RankGrows
    <3>2. cursor # None => cursor.offset \in Nat
      BY DEF CatalogInv, WalkTypeInv, Cursor
    <3>3. cursor = None \/ Rank(s, Results(args)) < cursor.offset
      BY <2>1, <2>2 DEF Passed
    <3>4. cursor = None \/ Rank(s, Results(args)') < cursor.offset
      BY <3>1, <3>2, <3>3
    <3> QED
      BY <1>1, <3>4 DEF Passed, Rank, walkVars
  <2> QED
    BY <1>1, <2>1, <2>2, <2>3 DEF walkVars
<1> QED
  BY <1>2, <1>3 DEF CatalogInv

-----------------------------------------------------------------------------
\* The invariant holds throughout.
THEOREM CatalogInvariance == CatalogSpec => []CatalogInv
<1>1. CatalogInit => CatalogInv
  <2> SUFFICES ASSUME CatalogInit PROVE CatalogInv
    OBVIOUS
  <2>1. WalkTypeInv
    BY DEF CatalogInit, WalkTypeInv, CatalogTypeOK
  <2>2. NothingHidden /\ NothingRepeated /\ CursorIsBound
    BY DEF CatalogInit, NothingHidden, NothingRepeated, CursorIsBound
  <2> QED
    BY <2>1, <2>2 DEF CatalogInv
<1>2. CatalogInv /\ [CatalogNext]_catalogVars => CatalogInv'
  <2> SUFFICES ASSUME CatalogInv, [CatalogNext]_catalogVars PROVE CatalogInv'
    OBVIOUS
  <2>1. ASSUME NEW a \in Args, NEW limit \in Limit, FirstPage(a, limit) \/ UseCursor(a, limit)
        PROVE  CatalogInv'
    BY <2>1, FirstPageStep, UseCursorStep
  <2>2. ASSUME NEW why \in {"query", "limit", "invalid"}, RefuseArguments(why) PROVE CatalogInv'
    BY <2>2, RefuseStep DEF RefuseArguments
  <2>3. ASSUME NEW s \in Skill, AddSkill(s) \/ RemoveSkill(s) PROVE CatalogInv'
    BY <2>3, AddSkillStep, RemoveSkillStep
  <2>4. CASE UNCHANGED catalogVars
    BY <2>4 DEF catalogVars, walkVars, CatalogInv, WalkTypeInv, CatalogTypeOK, NothingHidden,
       NothingRepeated, CursorIsBound, Passed, Results, Rank
  <2> QED
    BY <2>1, <2>2, <2>3, <2>4 DEF CatalogNext
<1> QED
  BY <1>1, <1>2, PTL DEF CatalogSpec

\* The offset of a cursor is never past the skills there are.
THEOREM CatalogTypes == CatalogSpec => []CatalogTypeOK
<1>1. CatalogInv => CatalogTypeOK
  BY DEF CatalogInv, WalkTypeInv
<1> QED
  BY <1>1, CatalogInvariance, PTL

\* A walk over files nobody touches is the result, whatever limits its calls use.
THEOREM WalksAreComplete == CatalogSpec => []WalkIsComplete
<1>1. CatalogInv => WalkIsComplete
  BY DEF CatalogInv, NothingHidden, NothingRepeated, Passed, WalkIsComplete, Walked
<1> QED
  BY <1>1, CatalogInvariance, PTL

\* However many files come during a walk, it misses none of the first result.
THEOREM AdditionsAreSafe == CatalogSpec => []AdditionsHideNothing
<1>1. CatalogInv => AdditionsHideNothing
  BY DEF CatalogInv, NothingHidden, Passed, AdditionsHideNothing, Walked
<1> QED
  BY <1>1, CatalogInvariance, PTL

\* However many files go during a walk, it gives no skill twice.
THEOREM RemovalsAreSafe == CatalogSpec => []RemovalsRepeatNothing
<1>1. CatalogInv => RemovalsRepeatNothing
  BY FS_EmptySet DEF CatalogInv, WalkTypeInv, NothingRepeated, RemovalsRepeatNothing
<1> QED
  BY <1>1, CatalogInvariance, PTL

\* No cursor yields a page of another result.
THEOREM CursorsAreBound == CatalogSpec => []CursorIsBound
<1>1. CatalogInv => CursorIsBound
  BY DEF CatalogInv
<1> QED
  BY <1>1, CatalogInvariance, PTL

-----------------------------------------------------------------------------
(* A cursor is honoured, as long as no query makes one that is too long.    *)

ShortQueries == \A q \in Query : CursorLength[q] <= MaxCursorLength

\* While no file goes, there is a skill at the offset of the cursor.
CursorInside ==
  cursor # None /\ ~removed => cursor.offset < Cardinality(Results(args))

HonouredInv == CursorInside /\ CursorIsHonoured

\* A page that leaves a cursor leaves skills after it.
LEMMA PageLeavesSkills ==
  ASSUME NEW a \in Args, NEW offset \in Nat, NEW limit \in Limit, NEW seen, NEW count,
         Page(a, offset, limit, seen, count), UNCHANGED catalog, args' \in Args,
         FiltersOf(a) = FiltersOf(args')
  PROVE  CursorInside'
<1>1. Results(args)' = Results(a)
  <2>1. Results(args') = Results(a)
    BY SameResults
  <2> QED
    BY <2>1 DEF Results, Matches
<1>2. cursor' = None \/ cursor'.offset < Cardinality(Results(a))
  BY DEF Page
<1> QED
  BY <1>1, <1>2 DEF CursorInside

\* Every step keeps the cursor inside, and refuses it for a file that went only.
LEMMA HonouredStep ==
  ASSUME ShortQueries, CatalogInv, HonouredInv, [CatalogNext]_catalogVars
  PROVE  HonouredInv'
<1> USE CatalogAssumption DEF HonouredInv
<1>1. ASSUME NEW a \in Args, NEW limit \in Limit, FirstPage(a, limit) PROVE HonouredInv'
  <2>1. args' = a /\ answer' = "page" /\ Page(a, 0, limit, {}, 0) /\ UNCHANGED catalog
    BY <1>1 DEF FirstPage, Page
  <2>2. CursorInside'
    BY <2>1, PageLeavesSkills
  <2> QED
    BY <2>1, <2>2 DEF CursorIsHonoured
<1>2. ASSUME NEW a \in Args, NEW limit \in Limit, UseCursor(a, limit) PROVE HonouredInv'
  <2>1. /\ cursor # None /\ cursor \in Cursor /\ cursor.filters = FiltersOf(args) /\ args \in Args
        /\ call' = [args |-> a, cursor |-> cursor] /\ UNCHANGED catalog
    BY <1>2 DEF UseCursor, CatalogInv, WalkTypeInv, CatalogTypeOK
  <2>2. CASE SameFilters(a, cursor) /\ Page(a, cursor.offset, limit, delivered, given) /\ UNCHANGED args
    <3>1. answer' = "page"
      BY <2>2 DEF Page
    <3>2. CursorInside'
      BY <2>1, <2>2, PageLeavesSkills DEF SameFilters, Cursor
    <3> QED
      BY <3>1, <3>2 DEF CursorIsHonoured
  <2>3. ASSUME NEW why \in {"invalid", "mismatch", "outside"}, Refuse(why),
               why = "invalid" => TooLong(cursor), why = "mismatch" => ~SameFilters(a, cursor),
               why = "outside" => SameFilters(a, cursor) /\ cursor.offset >= Cardinality(Results(a))
        PROVE  HonouredInv'
    <3>1. answer' = why /\ UNCHANGED <<args, cursor, removed>>
      BY <2>3 DEF Refuse, walkVars
    <3>2. ~TooLong(cursor)
      BY <2>1 DEF TooLong, ShortQueries, Cursor, Args
    <3>3. CursorInside'
      BY <2>1, <3>1 DEF CursorInside, Results
    <3>4. ASSUME a = args PROVE why = "outside" /\ removed
      <4>1. why = "outside" /\ cursor.offset >= Cardinality(Results(args))
        BY <2>1, <2>3, <3>2, <3>4 DEF SameFilters
      <4>2. Results(args) \subseteq Skill
        BY DEF Results, CatalogInv, WalkTypeInv, CatalogTypeOK
      <4>3. Cardinality(Results(args)) \in Nat /\ cursor.offset \in Nat
        BY <2>1, <4>2, FS_Subset, FS_CardinalityType DEF Cursor
      <4> QED
        BY <2>1, <4>1, <4>3 DEF CursorInside
    <3>5. CursorIsHonoured'
      BY <2>1, <3>1, <3>4 DEF CursorIsHonoured
    <3> QED
      BY <3>3, <3>5
  <2> QED
    BY <1>2, <2>2, <2>3 DEF UseCursor
<1>3. ASSUME NEW why \in {"query", "limit", "invalid"}, RefuseArguments(why) PROVE HonouredInv'
  BY <1>3 DEF RefuseArguments, Refuse, walkVars, CursorInside, CursorIsHonoured, Results
<1>4. ASSUME NEW s \in Skill, AddSkill(s) PROVE HonouredInv'
  <2>1. catalog' = catalog \cup {s} /\ UNCHANGED <<args, cursor, answer, call, removed>>
    BY <1>4 DEF AddSkill, walkVars
  <2>2. /\ Results(args) \subseteq Results(args)' /\ Results(args)' \subseteq Skill
        /\ Results(args) \subseteq Skill
    BY <2>1 DEF Results, Matches, CatalogInv, WalkTypeInv, CatalogTypeOK
  <2>3. /\ Cardinality(Results(args)) <= Cardinality(Results(args)')
        /\ Cardinality(Results(args)) \in Nat /\ Cardinality(Results(args)') \in Nat
    BY <2>2, FS_Subset, FS_CardinalityType
  <2>4. cursor # None => cursor.offset \in Nat
    BY DEF CatalogInv, WalkTypeInv, Cursor
  <2>5. CursorInside'
    BY <2>1, <2>3, <2>4 DEF CursorInside
  <2> QED
    BY <2>1, <2>5 DEF CursorIsHonoured
<1>5. ASSUME NEW s \in Skill, RemoveSkill(s) PROVE HonouredInv'
  BY <1>5 DEF RemoveSkill, walkVars, CursorInside, CursorIsHonoured
<1>6. CASE UNCHANGED catalogVars
  BY <1>6 DEF catalogVars, walkVars, CursorInside, CursorIsHonoured, Results
<1> QED
  BY <1>1, <1>2, <1>3, <1>4, <1>5, <1>6 DEF CatalogNext

\* The cursor of the page before, used with the arguments it is for, is refused
\* only if a file went; a query that makes a cursor longer than the schema
\* takes is excluded.
THEOREM CursorsAreHonoured ==
  ASSUME ShortQueries
  PROVE  CatalogSpec => []CursorIsHonoured
<1>1. CatalogInit => HonouredInv
  BY DEF CatalogInit, HonouredInv, CursorInside, CursorIsHonoured
<1>2. CatalogInv /\ HonouredInv /\ [CatalogNext]_catalogVars => HonouredInv'
  BY HonouredStep
<1>3. HonouredInv => CursorIsHonoured
  BY DEF HonouredInv
<1> QED
  BY <1>1, <1>2, <1>3, CatalogInvariance, PTL DEF CatalogSpec

-----------------------------------------------------------------------------
(* The code tools: the command, the result and the event of a call.         *)

\* The events an audit log can hold.
AuditEvents ==
  [call : Call, tool : {"query", "execute"}, script : Scripts, status : {"success", "error"},
   code : Codes \cup {None}, outcome : Outcomes \cup {None}]

\* The values of the variables; what a call has done before it is made.
ToolsTypeInv ==
  /\ library \in [SkillName -> Files \cup {None}]
  /\ input \in [Call -> ToolArgs \cup {None}]
  /\ context \in [Call -> Contexts \cup {None}]
  /\ result \in [Call -> ToolResults \cup {None}]
  /\ received \in [Call -> Commands \cup {None}]
  /\ script \in [Call -> {"none", "running", "refused", "ended"}]
  /\ log \in Seq(AuditEvents)
  /\ \A c \in Call :
       /\ input[c] = None => context[c] = None /\ result[c] = None /\ received[c] = None
       /\ received[c] = None => script[c] = "none"

\* An accepted call is one of a code tool that was not refused; its code is
\* fixed then, and is what the plugin gets.
AcceptedInv ==
  \A c \in Call :
    /\ context[c] # None =>
         /\ input[c] # None /\ context[c].tool = input[c].tool
         /\ input[c].tool = "query" => ~context[c].script.write
    /\ Pending(c) => (context[c] # None <=> input[c].tool # "lookup")
    /\ received[c] # None =>
         IF input[c].tool = "lookup" THEN received[c].method = "apiLookup"
         ELSE /\ context[c] # None /\ received[c].method = "executeCode"
              /\ received[c].readOnly = (input[c].tool = "query")
              /\ received[c].script = context[c].script

\* An event is the last step of an accepted call.
AuditInv ==
  /\ \A i, j \in 1..Len(log) : log[i].call = log[j].call => i = j
  /\ \A c \in Call :
       (\E i \in 1..Len(log) : log[i].call = c)
         <=> context[c] # None /\ result[c] # None /\ LogsInfo
  /\ \A i \in 1..Len(log) :
       LET c == log[i].call IN
       /\ log[i].tool = context[c].tool /\ log[i].script = context[c].script
       /\ log[i].status = result[c].status /\ log[i].code = result[c].code
       /\ log[i].outcome = result[c].outcome

ToolsInv == ToolsTypeInv /\ AcceptedInv /\ AuditInv /\ ResultIsTrue

-----------------------------------------------------------------------------
\* The C# of an accepted call is typed, and does not write in a query.
LEMMA ScriptOfAccepted ==
  ASSUME ToolsInv, NEW c \in Call, NEW a \in ToolArgs,
         a.tool # "lookup", WhyRefused(a) = "none"
  PROVE  /\ [tool |-> a.tool, script |-> Script(c, a)] \in Contexts
         /\ a.tool = "query" => ~Script(c, a).write
<1>1. CASE a.skill = None
  BY <1>1 DEF Script, Contexts, Scripts, ToolArgs, Tools
<1>2. CASE a.skill # None
  <2>1. library[a.skill] \in Files /\ (a.tool = "query" => ~library[a.skill].write)
    BY <1>2 DEF WhyRefused, ToolsInv, ToolsTypeInv, ToolArgs
  <2> QED
    BY <1>2, <2>1 DEF Script, Contexts, Scripts, Files, ToolArgs, Tools
<1> QED
  BY <1>1, <1>2

\* An event is of a call.
LEMMA EventsAreOfCalls ==
  ASSUME ToolsInv
  PROVE  \A i \in 1..Len(log) : log[i].call \in Call
<1>1. \A i \in 1..Len(log) : log[i] \in AuditEvents
  BY DEF ToolsInv, ToolsTypeInv
<1> QED
  BY <1>1 DEF AuditEvents

\* How a pending call ends, whatever the result: one event for an accepted one
\* that says what the result says, none for a lookup.
LEMMA FinishStep ==
  ASSUME ToolsInv, NEW c \in Call, NEW r \in ToolResults, Pending(c), Finish(c, r),
         UNCHANGED <<library, setting, input, context, received>>,
         script' \in [Call -> {"none", "running", "refused", "ended"}],
         \A d \in Call : received[d] = None => script'[d] = "none"
  PROVE  ToolsTypeInv' /\ AcceptedInv' /\ AuditInv'
<1> USE ToolsAssumption DEF ToolsInv
<1>1. /\ result' = [result EXCEPT ![c] = r] /\ r # None /\ result[c] = None /\ input[c] # None
      /\ context[c] # None <=> input[c].tool # "lookup"
  BY DEF Finish, Pending, AcceptedInv
<1>2. CASE context[c] # None /\ LogsInfo
  <2>1. log' = Append(log, Event(c, r))
    BY <1>1, <1>2 DEF Finish
  <2>2. Event(c, r) \in AuditEvents
    <3>1. context[c] \in Contexts
      BY <1>2 DEF ToolsTypeInv
    <3>2. r.status \in {"success", "error"} /\ r.code \in Codes \cup {None}
          /\ r.outcome \in Outcomes \cup {None}
      BY DEF ToolResults, Errors
    <3> QED
      BY <3>1, <3>2 DEF Event, Contexts, AuditEvents
  <2>3. /\ Len(log') = Len(log) + 1 /\ log'[Len(log) + 1] = Event(c, r)
        /\ \A i \in 1..Len(log) : log'[i] = log[i]
        /\ Len(log) \in Nat
    BY <2>1, <2>2 DEF ToolsTypeInv
  <2>4. \A i \in 1..Len(log) : log[i].call # c /\ log[i].call \in Call
    BY <1>1, EventsAreOfCalls DEF AuditInv
  <2>5. ToolsTypeInv'
    <3>1. log' \in Seq(AuditEvents)
      BY <2>1, <2>2 DEF ToolsTypeInv
    <3> QED
      BY <1>1, <3>1 DEF ToolsTypeInv
  <2>6. AcceptedInv'
    BY <1>1 DEF AcceptedInv, Pending, ToolsTypeInv
  <2>7. AuditInv'
    <3>1. \A i, j \in 1..Len(log') : log'[i].call = log'[j].call => i = j
      BY <2>3, <2>4 DEF AuditInv, Event
    <3>2. ASSUME NEW d \in Call
          PROVE  (\E i \in 1..Len(log') : log'[i].call = d)
                   <=> context[d] # None /\ result'[d] # None /\ LogsInfo
      <4>1. CASE d = c
        BY <1>1, <1>2, <2>3, <4>1 DEF Event, ToolsTypeInv
      <4>2. CASE d # c
        <5>1. (\E i \in 1..Len(log') : log'[i].call = d) <=> (\E i \in 1..Len(log) : log[i].call = d)
          BY <2>3, <4>2 DEF Event
        <5>2. result'[d] = result[d]
          BY <1>1, <4>2 DEF ToolsTypeInv
        <5> QED
          BY <5>1, <5>2 DEF AuditInv
      <4> QED
        BY <4>1, <4>2
    <3>3. ASSUME NEW i \in 1..Len(log')
          PROVE  /\ log'[i].tool = context[log'[i].call].tool
                 /\ log'[i].script = context[log'[i].call].script
                 /\ log'[i].status = result'[log'[i].call].status
                 /\ log'[i].code = result'[log'[i].call].code
                 /\ log'[i].outcome = result'[log'[i].call].outcome
      <4>1. CASE i = Len(log) + 1
        BY <1>1, <2>3, <4>1 DEF Event, ToolsTypeInv
      <4>2. CASE i \in 1..Len(log)
        BY <1>1, <2>3, <2>4, <4>2 DEF AuditInv, ToolsTypeInv
      <4> QED
        BY <2>3, <4>1, <4>2
    <3> QED
      BY <3>1, <3>2, <3>3 DEF AuditInv, LogsInfo, Level
  <2> QED
    BY <2>5, <2>6, <2>7
<1>3. CASE ~(context[c] # None /\ LogsInfo)
  <2>1. log' = log
    BY <1>1, <1>3 DEF Finish
  <2>2. ToolsTypeInv'
    BY <1>1, <2>1 DEF ToolsTypeInv
  <2>3. AcceptedInv'
    BY <1>1 DEF AcceptedInv, Pending, ToolsTypeInv
  <2>4. AuditInv'
    <3>1. \A d \in Call : d # c => result'[d] = result[d]
      BY <1>1 DEF ToolsTypeInv
    <3>2. \A i \in 1..Len(log) : log[i].call \in Call /\ log[i].call # c
      BY <1>1, EventsAreOfCalls DEF AuditInv
    <3>3. LogsInfo' = LogsInfo
      BY DEF LogsInfo, Level
    <3> QED
      BY <1>3, <2>1, <3>1, <3>2, <3>3 DEF AuditInv
  <2> QED
    BY <2>2, <2>3, <2>4
<1> QED
  BY <1>2, <1>3

-----------------------------------------------------------------------------
\* The handler up to its first await: refused, accepted or waiting.
LEMMA CallToolStep ==
  ASSUME ToolsInv, NEW c \in Call, NEW a \in Inputs, CallTool(c, a)
  PROVE  ToolsInv'
<1> USE ToolsAssumption DEF ToolsInv
<1>1. /\ input' = [input EXCEPT ![c] = a] /\ a \in ToolArgs /\ a # None /\ input[c] = None
      /\ context[c] = None /\ result[c] = None /\ received[c] = None /\ script[c] = "none"
      /\ UNCHANGED <<library, setting, cancelled, received, script>>
  BY DEF CallTool, ToolsTypeInv
<1>2. \A i \in 1..Len(log) : log[i].call # c /\ log[i].call \in Call
  BY <1>1, EventsAreOfCalls DEF AuditInv
<1>3. ASSUME NEW error \in Errors, RefuseCall(c, a, error) PROVE ToolsInv'
  <2>2. /\ result' = [result EXCEPT ![c] = error]
        /\ UNCHANGED <<context, log>> /\ error \in ToolResults /\ error # None
        /\ error.status = "error"
    BY <1>3 DEF RefuseCall, ToolResults, Errors
  <2>3. ToolsTypeInv'
    BY <1>1, <2>2 DEF ToolsTypeInv
  <2>4. AcceptedInv'
    BY <1>1, <2>2 DEF AcceptedInv, Pending, ToolsTypeInv
  <2>5. AuditInv'
    BY <1>1, <1>2, <2>2 DEF AuditInv, ToolsTypeInv, LogsInfo, Level
  <2>6. ResultIsTrue'
    BY <1>1, <2>2 DEF ResultIsTrue, ToolsTypeInv
  <2> QED
    BY <2>3, <2>4, <2>5, <2>6
<1>4. CASE a.tool # "lookup" /\ WhyRefused(a) = "none" /\ Accept(c, a)
  <2> DEFINE new == [tool |-> a.tool, script |-> Script(c, a)]
  <2>1. new \in Contexts /\ new # None /\ (new.tool = "query" => ~new.script.write)
    BY <1>1, <1>4, ScriptOfAccepted
  <2>2. context' = [context EXCEPT ![c] = new] /\ UNCHANGED <<result, log>>
    BY <1>4 DEF Accept
  <2>3. new.tool = a.tool
    OBVIOUS
  <2> HIDE DEF new
  <2>4. ToolsTypeInv'
    BY <1>1, <2>1, <2>2 DEF ToolsTypeInv
  <2>5. AcceptedInv'
    BY <1>1, <1>4, <2>1, <2>2, <2>3 DEF AcceptedInv, Pending, ToolsTypeInv
  <2>6. AuditInv'
    BY <1>1, <1>2, <2>2 DEF AuditInv, ToolsTypeInv, LogsInfo, Level
  <2>7. ResultIsTrue'
    BY <1>1, <2>2 DEF ResultIsTrue
  <2> QED
    BY <2>4, <2>5, <2>6, <2>7
<1>5. CASE a.tool = "lookup" /\ UNCHANGED <<context, result, log>>
  <2>1. ToolsTypeInv'
    BY <1>1, <1>5 DEF ToolsTypeInv
  <2>2. AcceptedInv'
    BY <1>1, <1>5 DEF AcceptedInv, Pending, ToolsTypeInv
  <2>3. AuditInv'
    BY <1>1, <1>5 DEF AuditInv, LogsInfo, Level
  <2>4. ResultIsTrue'
    BY <1>1, <1>5 DEF ResultIsTrue
  <2> QED
    BY <2>1, <2>2, <2>3, <2>4
<1>6. /\ OwnError("INVALID_INPUT", "not_started") \in Errors
      /\ OwnError("INVALID_BENCHMARK_METADATA", "not_started") \in Errors
      /\ ForeignError \in Errors
  BY DEF OwnError, ForeignError, Errors, Codes, Outcomes
<1>7. WhyRefused(a) \in {"none", "INVALID_INPUT"}
  BY DEF WhyRefused
<1> QED
  BY <1>3, <1>4, <1>5, <1>6, <1>7 DEF CallTool, Resolve

\* The command that is sent carries the code and the access of the context.
LEMMA SendStep ==
  ASSUME ToolsInv, NEW c \in Call, Send(c)
  PROVE  ToolsInv'
<1> USE ToolsAssumption DEF ToolsInv
<1> DEFINE command ==
      IF input[c].tool = "lookup" THEN [method |-> "apiLookup"]
      ELSE [method |-> "executeCode", readOnly |-> input[c].tool = "query", script |-> context[c].script]
<1>1. /\ received' = [received EXCEPT ![c] = command] /\ received[c] = None
      /\ input[c] # None /\ result[c] = None
      /\ UNCHANGED <<library, setting, input, context, cancelled, result, script, log>>
  BY DEF Send, Pending
<1>2. context[c] # None <=> input[c].tool # "lookup"
  BY DEF AcceptedInv, Send
<1>3. command \in Commands /\ command # None
  <2>1. CASE input[c].tool = "lookup"
    BY <2>1 DEF Commands
  <2>2. CASE input[c].tool # "lookup"
    <3>1. context[c] \in Contexts
      BY <1>2, <2>2 DEF ToolsTypeInv
    <3>2. \A b \in BOOLEAN, x \in Scripts :
            [method |-> "executeCode", readOnly |-> b, script |-> x] \in Commands
      BY DEF Commands
    <3> QED
      BY <2>2, <3>1, <3>2 DEF Contexts
  <2> QED
    BY <2>1, <2>2
<1>4. IF input[c].tool = "lookup" THEN command.method = "apiLookup"
      ELSE /\ command.method = "executeCode" /\ command.readOnly = (input[c].tool = "query")
           /\ command.script = context[c].script
  OBVIOUS
<1> HIDE DEF command
<1>5. ToolsTypeInv'
  BY <1>1, <1>3 DEF ToolsTypeInv
<1>6. AcceptedInv'
  BY <1>1, <1>2, <1>4 DEF AcceptedInv, Pending, ToolsTypeInv
<1>7. AuditInv'
  BY <1>1 DEF AuditInv, LogsInfo, Level
<1>8. ResultIsTrue'
  BY <1>1 DEF ResultIsTrue, ToolsTypeInv
<1> QED
  BY <1>5, <1>6, <1>7, <1>8

\* The plugin runs what it got, a client gives up, a file changes.
LEMMA OtherStep ==
  ASSUME ToolsInv,
         \/ \E c \in Call : ScriptRuns(c) \/ ScriptEnds(c) \/ CancelCall(c)
         \/ \E s \in SkillName : EditFile(s)
  PROVE  ToolsInv'
<1> USE DEF ToolsInv
<1>1. /\ UNCHANGED <<setting, input, context, result, received, log>>
      /\ library' \in [SkillName -> Files \cup {None}]
      /\ script' \in [Call -> {"none", "running", "refused", "ended"}]
      /\ \A d \in Call : /\ received[d] = None => script'[d] = "none"
                         /\ script[d] \in {"refused", "ended"} => script'[d] = script[d]
  BY DEF ScriptRuns, ScriptEnds, CancelCall, EditFile, ToolsTypeInv
<1>2. ToolsTypeInv'
  BY <1>1 DEF ToolsTypeInv
<1>3. AcceptedInv'
  BY <1>1 DEF AcceptedInv, Pending
<1>4. AuditInv'
  BY <1>1 DEF AuditInv, LogsInfo, Level
<1>5. ResultIsTrue'
  BY <1>1 DEF ResultIsTrue, ToolsTypeInv
<1> QED
  BY <1>2, <1>3, <1>4, <1>5

\* A code that is none of this program's is no "not started" code.
LEMMA PluginErrorIsResult ==
  ASSUME NEW why \in AnswerCodes
  PROVE  /\ PluginError(why) \in ToolResults /\ PluginError(why).status = "error"
         /\ PluginError(why).outcome = "not_started" => why \in NotStartedCodes
BY DEF PluginError, Outcome, NotStartedCodes, UnknownCodes, ToolResults, Errors, Outcomes, Codes

\* A call ends.
LEMMA EndStep ==
  ASSUME ToolsInv, NEW c \in Call,
         \/ AnswerValue(c) \/ Throws(c)
         \/ \E why \in SelectCodes : SelectionFails(c, why)
         \/ \E why \in AnswerCodes : AnswerError(c, why)
         \/ \E why \in {"TIMEOUT", "TRANSPORT_ERROR"} : TransportFails(c, why)
  PROVE  ToolsInv'
<1> USE ToolsAssumption DEF ToolsInv
<1>1. Pending(c) /\ UNCHANGED <<library, setting, input, context, received>>
  BY DEF AnswerValue, Throws, SelectionFails, AnswerError, TransportFails
<1>2. /\ script' \in [Call -> {"none", "running", "refused", "ended"}]
      /\ \A d \in Call : received[d] = None => script'[d] = "none"
      /\ \A d \in Call : d # c => script'[d] = script[d]
  BY DEF AnswerValue, Throws, SelectionFails, AnswerError, TransportFails, ToolsTypeInv
<1>3. \E r \in ToolResults :
        /\ Finish(c, r)
        /\ r.outcome = "not_started" =>
             script'[c] \in {"none", "refused"} /\ (received[c] # None => script'[c] = "refused")
        /\ r.status = "success" => script'[c] = "ended"
  <2>1. CASE AnswerValue(c)
    <3>1. None # "not_started"
      BY ToolsAssumption DEF Outcomes
    <3> QED
      BY <2>1, <3>1 DEF AnswerValue, ToolResults
  <2>2. CASE Throws(c)
    BY <2>2 DEF Throws, ForeignError, OwnError, ToolResults, Errors, Outcomes, Codes
  <2>3. ASSUME NEW why \in SelectCodes, SelectionFails(c, why) PROVE <1>3
    BY <2>3 DEF SelectionFails, OwnError, ToolResults, Errors, Outcomes, Codes, ToolsTypeInv
  <2>4. ASSUME NEW why \in AnswerCodes, AnswerError(c, why) PROVE <1>3
    BY <2>4, PluginErrorIsResult DEF AnswerError, ToolsTypeInv
  <2>5. ASSUME NEW why \in {"TIMEOUT", "TRANSPORT_ERROR"}, TransportFails(c, why) PROVE <1>3
    BY <2>5 DEF TransportFails, OwnError, ToolResults, Errors, Outcomes, Codes
  <2> QED
    BY <2>1, <2>2, <2>3, <2>4, <2>5
<1>4. PICK r \in ToolResults :
        /\ Finish(c, r)
        /\ r.outcome = "not_started" =>
             script'[c] \in {"none", "refused"} /\ (received[c] # None => script'[c] = "refused")
        /\ r.status = "success" => script'[c] = "ended"
  BY <1>3
<1>5. ToolsTypeInv' /\ AcceptedInv' /\ AuditInv'
  BY <1>1, <1>2, <1>4, FinishStep
<1>6. ResultIsTrue'
  <2>1. result' = [result EXCEPT ![c] = r] /\ UNCHANGED received
    BY <1>1, <1>4 DEF Finish
  <2> QED
    BY <1>2, <1>4, <2>1 DEF ResultIsTrue, ToolsTypeInv
<1> QED
  BY <1>5, <1>6

\* The invariant holds throughout.
THEOREM ToolsInvariance == ToolsSpec => []ToolsInv
<1>1. ToolsInit => ToolsInv
  <2> SUFFICES ASSUME ToolsInit PROVE ToolsInv
    OBVIOUS
  <2>1. ToolsTypeInv
    BY DEF ToolsInit, ToolsTypeInv
  <2>2. AcceptedInv /\ AuditInv /\ ResultIsTrue
    BY DEF ToolsInit, AcceptedInv, AuditInv, ResultIsTrue, Pending
  <2> QED
    BY <2>1, <2>2 DEF ToolsInv
<1>2. ToolsInv /\ [ToolsNext]_toolVars => ToolsInv'
  <2> SUFFICES ASSUME ToolsInv, [ToolsNext]_toolVars PROVE ToolsInv'
    OBVIOUS
  <2>1. CASE UNCHANGED toolVars
    BY <2>1 DEF toolVars, ToolsInv, ToolsTypeInv, AcceptedInv, AuditInv, ResultIsTrue, Pending,
       LogsInfo, Level
  <2>2. ASSUME NEW c \in Call, CallSteps(c) PROVE ToolsInv'
    BY <2>2, CallToolStep, SendStep, OtherStep, EndStep DEF CallSteps
  <2> QED
    BY <2>1, <2>2, OtherStep DEF ToolsNext
<1> QED
  BY <1>1, <1>2, PTL DEF ToolsSpec

\* civil3d_query never sends the plugin a skill that writes, nor anything
\* without the read-only flag, whatever is edited after the call was accepted.
THEOREM QueriesAreReadOnly == ToolsSpec => []QuerySendsNoWrites
<1>1. ToolsInv => QuerySendsNoWrites
  BY DEF ToolsInv, AcceptedInv, QuerySendsNoWrites
<1> QED
  BY <1>1, ToolsInvariance, PTL

\* What a tool says of an operation stays true, after any time-out, lost
\* connection, exception or cancellation.
THEOREM ResultsAreTrue == ToolsSpec => []ResultIsTrue
<1>1. ToolsInv => ResultIsTrue
  BY DEF ToolsInv
<1> QED
  BY <1>1, ToolsInvariance, PTL

\* The audit log has one event of each accepted operation that ended, and it
\* says what the caller was told and the plugin was sent.
THEOREM AuditIsExact == ToolsSpec => []AuditTellsWhatHappened
<1>1. ASSUME ToolsInv, NEW c \in Call
      PROVE  Cardinality(EventsOf(c)) =
               IF Accepted(c) /\ result[c] # None /\ setting \notin {"warn", "error"} THEN 1 ELSE 0
  <2>1. LogsInfo <=> setting \notin {"warn", "error"}
    BY DEF LogsInfo, Level
  <2>2. EventsOf(c) # {} <=> Accepted(c) /\ result[c] # None /\ LogsInfo
    BY <1>1 DEF ToolsInv, AuditInv, EventsOf, Accepted
  <2>3. ASSUME NEW i \in EventsOf(c) PROVE EventsOf(c) = {i}
    BY <1>1 DEF ToolsInv, AuditInv, EventsOf
  <2> QED
    BY <2>1, <2>2, <2>3, FS_EmptySet, FS_Singleton
<1>2. ASSUME ToolsInv, NEW c \in Call, NEW i \in EventsOf(c)
      PROVE  /\ log[i].tool = input[c].tool
             /\ log[i].status = result[c].status
             /\ log[i].code = result[c].code /\ log[i].outcome = result[c].outcome
             /\ received[c] # None => log[i].script = received[c].script
  <2>1. /\ log[i].tool = context[c].tool /\ log[i].script = context[c].script
        /\ log[i].status = result[c].status /\ log[i].code = result[c].code
        /\ log[i].outcome = result[c].outcome /\ context[c] # None
    BY <1>2 DEF ToolsInv, AuditInv, EventsOf
  <2>2. context[c].tool = input[c].tool /\ input[c].tool # "lookup"
    <3>1. context[c] \in Contexts
      BY <1>2, <2>1 DEF ToolsInv, ToolsTypeInv
    <3> QED
      BY <1>2, <2>1, <3>1 DEF ToolsInv, AcceptedInv, Contexts
  <2> QED
    BY <1>2, <2>1, <2>2 DEF ToolsInv, AcceptedInv
<1>3. ToolsInv => AuditTellsWhatHappened
  BY <1>1, <1>2 DEF AuditTellsWhatHappened
<1> QED
  BY <1>3, ToolsInvariance, PTL

-----------------------------------------------------------------------------
(* The binding of a skill.                                                 *)

\* Induction, for a set of numbers: the least one it lacks would be a successor.
LEMMA AllNumbers ==
  ASSUME NEW T \in SUBSET Nat, 0 \in T, \A n \in T : n + 1 \in T
  PROVE  T = Nat
<1> DEFINE R == OpToRel(<, Nat)
           Rest == Nat \ T
<1>1. IsWellFoundedOn(R, Nat)
  BY NatLessThanWellFounded
<1>2. \A m, n \in Nat : <<m, n>> \in R <=> m < n
  BY DEF OpToRel
<1> HIDE DEF R
<1>3. ASSUME Rest # {} PROVE FALSE
  <2>1. PICK n \in Rest : \A m \in Rest : ~(<<m, n>> \in R)
    BY <1>1, <1>3, WFMin
  <2>2. n \in Nat \ {0} /\ n - 1 \in Nat /\ n - 1 < n
    BY <2>1
  <2>3. n - 1 \notin Rest
    BY <1>2, <2>1, <2>2
  <2>4. (n - 1) + 1 \in T
    BY <2>2, <2>3
  <2> QED BY <2>1, <2>2, <2>4
<1> QED BY <1>3

\* f is computed step by step, from b and with G.
Steps(n, S) == [(1..n) \X S -> S]
Computes(f, n, S, b, G) ==
  f \in [0..n -> S] /\ f[0] = b /\ \A k \in 1..n : f[k] = G[<<k, f[k - 1]>>]

\* A computation that goes step by step can be carried out.
LEMMA Recursion ==
  ASSUME NEW S, NEW b \in S, NEW n \in Nat, NEW G \in Steps(n, S)
  PROVE  \E f : Computes(f, n, S, b, G)
<1> DEFINE Solves(f, m) == f[0] = b /\ \A k \in 1..m : f[k] = G[<<k, f[k - 1]>>]
           T == {m \in Nat : m <= n => \E f \in [0..m -> S] : Solves(f, m)}
<1>1. 0 \in T
  <2>1. [k \in 0..0 |-> b] \in [0..0 -> S] /\ Solves([k \in 0..0 |-> b], 0)
    OBVIOUS
  <2> QED BY <2>1
<1>2. ASSUME NEW m \in T PROVE m + 1 \in T
  <2> SUFFICES ASSUME m + 1 <= n
               PROVE  \E f \in [0..(m + 1) -> S] : Solves(f, m + 1)
    OBVIOUS
  <2>1. PICK f \in [0..m -> S] : Solves(f, m)
    OBVIOUS
  <2> DEFINE g == [k \in 0..(m + 1) |-> IF k = m + 1 THEN G[<<m + 1, f[m]>>] ELSE f[k]]
  <2>2. m \in Nat /\ m \in 0..m /\ m + 1 \in 1..n /\ f[m] \in S
    OBVIOUS
  <2>3. G[<<m + 1, f[m]>>] \in S
    BY <2>2 DEF Steps
  <2>4. g \in [0..(m + 1) -> S]
    BY <2>2, <2>3
  <2>5. g[m + 1] = G[<<m + 1, f[m]>>] /\ \A k \in 0..m : g[k] = f[k]
    BY <2>2
  <2> HIDE DEF g
  <2>6. ASSUME NEW k \in 1..(m + 1) PROVE g[k] = G[<<k, g[k - 1]>>]
    <3>1. CASE k = m + 1
      BY <2>2, <2>5, <3>1
    <3>2. CASE k # m + 1
      <4>1. k \in 1..m /\ k - 1 \in 0..m /\ k \in 0..m
        BY <2>2, <3>2
      <4> QED BY <2>1, <2>5, <4>1
    <3> QED BY <3>1, <3>2
  <2>7. g[0] = b
    BY <2>1, <2>2, <2>5
  <2> QED BY <2>4, <2>6, <2>7
<1>3. T = Nat
  <2> HIDE DEF T
  <2>1. T \in SUBSET Nat
    BY DEF T
  <2> QED BY <1>1, <1>2, <2>1, AllNumbers
<1>4. PICK f \in [0..n -> S] : Solves(f, n)
  <2>1. n \in T /\ n <= n
    BY <1>3
  <2> QED BY <2>1
<1> QED BY <1>4 DEF Computes

-----------------------------------------------------------------------------
\* f holds what has been put together of some sequences after each of them.
Joins(f, seqs, S) ==
  /\ f \in [0..Len(seqs) -> Seq(S)] /\ f[0] = <<>>
  /\ \A k \in 1..Len(seqs) : f[k] = f[k - 1] \o seqs[k]

\* Sequences can be put together one after another.
LEMMA JoinsExist ==
  ASSUME NEW S, NEW seqs \in Seq(Seq(S))
  PROVE  \E f : Joins(f, seqs, S)
<1> DEFINE n == Len(seqs)
           G == [x \in (1..n) \X Seq(S) |-> x[2] \o seqs[x[1]]]
<1>1. n \in Nat /\ \A k \in 1..n : seqs[k] \in Seq(S)
  OBVIOUS
<1>2. G \in [(1..n) \X Seq(S) -> Seq(S)]
  <2> SUFFICES ASSUME NEW x \in (1..n) \X Seq(S) PROVE x[2] \o seqs[x[1]] \in Seq(S)
    OBVIOUS
  <2>1. x[2] \in Seq(S) /\ seqs[x[1]] \in Seq(S)
    BY <1>1
  <2> QED BY <2>1, ConcatProperties
<1>3. \A k \in 1..n, s \in Seq(S) : G[<<k, s>>] = s \o seqs[k]
  OBVIOUS
<1> HIDE DEF G
<1>4. <<>> \in Seq(S)
  OBVIOUS
<1>5. PICK f : Computes(f, n, Seq(S), <<>>, G)
  <2>1. G \in Steps(n, Seq(S))
    BY <1>2 DEF Steps
  <2> HIDE DEF n
  <2> QED BY <1>1, <1>4, <2>1, Recursion
<1>6. ASSUME NEW k \in 1..n PROVE f[k - 1] \in Seq(S)
  <2>1. k - 1 \in 0..n
    BY <1>1
  <2> HIDE DEF n
  <2> QED BY <1>5, <2>1 DEF Computes
<1> QED BY <1>3, <1>5, <1>6 DEF Joins, Computes

\* FlattenSeq puts the sequences together.
LEMMA FlattenIs ==
  ASSUME NEW S, NEW seqs \in Seq(Seq(S)), NEW f, Joins(f, seqs, S)
  PROVE  FlattenSeq(seqs) = f[Len(seqs)]
<1> DEFINE n == Len(seqs)
           Flattens(g) == g = [i \in 1..n |-> IF i = 1 THEN seqs[i] ELSE g[i - 1] \o seqs[i]]
<1>1. CASE n = 0
  <2>1. seqs = <<>>
    BY <1>1
  <2> QED BY <1>1, <2>1 DEF FlattenSeq, Joins
<1>2. CASE n # 0
  <2>1. FlattenSeq(seqs) = (CHOOSE g : Flattens(g))[n]
    BY <1>2 DEF FlattenSeq
  <2> DEFINE h == [i \in 1..n |-> f[i]]
  <2>2. n \in Nat /\ 1 \in 1..n /\ seqs[1] \in Seq(S)
    BY <1>2
  <2>3. f[1] = seqs[1]
    <3>1. f[1] = f[1 - 1] \o seqs[1] /\ f[0] = <<>>
      BY <2>2 DEF Joins
    <3>2. f[1] = <<>> \o seqs[1]
      <4>1. 1 - 1 = 0
        OBVIOUS
      <4> QED BY <3>1, <4>1
    <3>3. <<>> \o seqs[1] = seqs[1]
      BY <2>2, ConcatEmptySeq
    <3> QED BY <3>2, <3>3
  <2>4. Flattens(h)
    <3>1. ASSUME NEW i \in 1..n
          PROVE  h[i] = IF i = 1 THEN seqs[i] ELSE h[i - 1] \o seqs[i]
      <4>1. CASE i = 1
        BY <2>3, <4>1
      <4>2. CASE i # 1
        <5>1. i - 1 \in 1..n
          BY <2>2, <4>2
        <5>2. h[i - 1] = f[i - 1] /\ h[i] = f[i]
          BY <5>1
        <5> HIDE DEF h
        <5> QED BY <4>2, <5>2 DEF Joins
      <4> QED BY <4>1, <4>2
    <3>2. h = [i \in 1..n |-> h[i]]
      OBVIOUS
    <3> HIDE DEF h
    <3> QED BY <3>1, <3>2
  <2>5. PICK g : g = (CHOOSE x : Flattens(x)) /\ Flattens(g)
    BY <2>4
  <2> DEFINE T == {k \in Nat : k \in 1..n => g[k] = f[k]}
  <2>6. 0 \in T
    OBVIOUS
  <2>7. ASSUME NEW k \in T PROVE k + 1 \in T
    <3> SUFFICES ASSUME k + 1 \in 1..n PROVE g[k + 1] = f[k + 1]
      OBVIOUS
    <3>1. g[k + 1] = IF k + 1 = 1 THEN seqs[k + 1] ELSE g[(k + 1) - 1] \o seqs[k + 1]
      BY <2>5
    <3>2. CASE k = 0
      BY <2>3, <3>1, <3>2
    <3>3. CASE k # 0
      <4>1. k \in 1..n /\ (k + 1) - 1 = k /\ k + 1 # 1
        BY <2>2, <3>3
      <4>2. g[k] = f[k]
        BY <4>1
      <4> QED BY <3>1, <4>1, <4>2 DEF Joins
    <3> QED BY <3>2, <3>3
  <2>8. T = Nat
    <3> HIDE DEF T
    <3>1. T \in SUBSET Nat
      BY DEF T
    <3> QED BY <2>6, <2>7, <3>1, AllNumbers
  <2>9. g[n] = f[n]
    BY <1>2, <2>2, <2>8
  <2> QED BY <2>1, <2>5, <2>9
<1> QED BY <1>1, <1>2

-----------------------------------------------------------------------------
\* Lines of a template, as they are or with a literal in place of an initialiser.
AnyLine == [type : ScalarKinds \cup {"var", "code"}, name : STRING, init : Seq(LiteralToken)]
TextToken ==
  LiteralToken \cup {<<";">>} \cup {<<k>> : k \in ScalarKinds \cup {"var"}} \cup ({"name"} \X STRING)

\* What stands before an initialiser on its line.
Left(line) == << <<line.type>>, <<"name", line.name>> >>

\* A text of one token.
LEMMA OneToken ==
  ASSUME NEW S, NEW x \in S
  PROVE  <<x>> \in Seq(S) /\ Len(<<x>>) = 1
OBVIOUS

\* The text of a line: what stands before the initialiser, the initialiser and
\* a semicolon.
LEMMA LineTextOf ==
  ASSUME NEW line \in AnyLine
  PROVE  /\ LineText(line) \in Seq(TextToken)
         /\ line.type # "code" =>
              /\ Left(line) \in Seq(TextToken) /\ Len(Left(line)) = 2
              /\ line.init \in Seq(TextToken) /\ << <<";">> >> \in Seq(TextToken)
              /\ LineText(line) = (Left(line) \o line.init) \o << <<";">> >>
<1>1. << <<"code">> >> \in Seq(TextToken)
  <2>1. <<"code">> \in TextToken
    BY DEF TextToken, LiteralToken, InitToken
  <2> QED BY <2>1
<1>2. << <<";">> >> \in Seq(TextToken)
  <2>1. <<";">> \in TextToken
    BY DEF TextToken
  <2> QED BY <2>1, OneToken
<1>3. CASE line.type = "code"
  BY <1>1, <1>3 DEF LineText
<1>4. CASE line.type # "code"
  <2>1. line.type \in ScalarKinds \cup {"var"} /\ line.name \in STRING /\ line.init \in Seq(LiteralToken)
    BY <1>4 DEF AnyLine
  <2>2. <<line.type>> \in TextToken /\ <<"name", line.name>> \in TextToken
    BY <2>1 DEF TextToken
  <2>3. Left(line) \in Seq(TextToken) /\ Len(Left(line)) = 2
    BY <2>2 DEF Left
  <2>4. line.init \in Seq(TextToken)
    BY <2>1, SeqMonotonic DEF TextToken
  <2>5. LineText(line) = (Left(line) \o line.init) \o << <<";">> >>
    BY <1>4 DEF LineText, Left
  <2>6. Left(line) \o line.init \in Seq(TextToken)
    BY <2>3, <2>4, ConcatProperties
  <2>7. (Left(line) \o line.init) \o << <<";">> >> \in Seq(TextToken)
    BY <1>2, <2>6, ConcatProperties
  <2> QED BY <1>2, <2>3, <2>4, <2>5, <2>7
<1> QED BY <1>3, <1>4

\* f is the text of the lines before each line.
IsTextOf(f, lines) ==
  /\ f \in [0..Len(lines) -> Seq(TextToken)] /\ f[0] = <<>>
  /\ \A k \in 1..Len(lines) : f[k] = f[k - 1] \o LineText(lines[k])

\* Lines have a text.
LEMMA TextExists ==
  ASSUME NEW lines \in Seq(AnyLine)
  PROVE  \E f : IsTextOf(f, lines)
<1> DEFINE seqs == [i \in 1..Len(lines) |-> LineText(lines[i])]
<1>1. seqs \in Seq(Seq(TextToken)) /\ Len(seqs) = Len(lines)
  <2>1. \A i \in 1..Len(lines) : LineText(lines[i]) \in Seq(TextToken)
    <3>1. \A i \in 1..Len(lines) : lines[i] \in AnyLine
      OBVIOUS
    <3> QED BY <3>1, LineTextOf
  <2>2. Len(lines) \in Nat
    OBVIOUS
  <2> QED BY <2>1, <2>2
<1>2. \A k \in 1..Len(lines) : seqs[k] = LineText(lines[k])
  OBVIOUS
<1> HIDE DEF seqs
<1>3. PICK f : Joins(f, seqs, TextToken)
  BY <1>1, JoinsExist
<1> QED BY <1>1, <1>2, <1>3 DEF Joins, IsTextOf

\* Text gives the text of the lines before each line.
LEMMA TextIs ==
  ASSUME NEW lines \in Seq(AnyLine), NEW f, IsTextOf(f, lines), NEW n \in 0..Len(lines)
  PROVE  Text(SubSeq(lines, 1, n)) = f[n]
<1> DEFINE part == SubSeq(lines, 1, n)
           seqs == [i \in DOMAIN part |-> LineText(part[i])]
           g == [k \in 0..n |-> f[k]]
<1>1. /\ n \in Nat /\ Len(lines) \in Nat /\ n <= Len(lines)
      /\ \A i \in 1..n : lines[i] \in AnyLine
  OBVIOUS
<1>2. /\ part \in Seq(AnyLine) /\ Len(part) = n /\ DOMAIN part = 1..n
      /\ \A i \in 1..n : part[i] = lines[i]
  OBVIOUS
<1> HIDE DEF part
<1>3. \A i \in 1..n : LineText(part[i]) \in Seq(TextToken)
  BY <1>1, <1>2, LineTextOf
<1>4. /\ seqs \in Seq(Seq(TextToken)) /\ Len(seqs) = n
      /\ \A i \in 1..n : seqs[i] = LineText(lines[i])
  BY <1>1, <1>2, <1>3
<1> HIDE DEF seqs
<1>5. Joins(g, seqs, TextToken)
  <2>1. 0 \in 0..n /\ \A k \in 1..n : k \in 0..n /\ k - 1 \in 0..n /\ k \in 1..Len(lines)
    BY <1>1
  <2>2. \A k \in 0..n : k \in 0..Len(lines)
    BY <1>1
  <2>3. g \in [0..n -> Seq(TextToken)] /\ g[0] = <<>>
    BY <2>1, <2>2 DEF IsTextOf
  <2>4. \A k \in 0..n : g[k] = f[k]
    OBVIOUS
  <2> HIDE DEF g
  <2>5. \A k \in 1..n : g[k] = g[k - 1] \o seqs[k]
    BY <1>4, <2>1, <2>4 DEF IsTextOf
  <2> QED BY <1>4, <2>3, <2>5 DEF Joins
<1>6. FlattenSeq(seqs) = g[n]
  <2> HIDE DEF g
  <2> QED BY <1>4, <1>5, FlattenIs
<1> QED BY <1>1, <1>6 DEF Text, part, seqs

\* Cutting a text in three.
LEMMA CutOf ==
  ASSUME NEW S, NEW a \in Seq(S), NEW b \in Seq(S), NEW c \in Seq(S)
  PROVE  LET t == (a \o b) \o c
         IN /\ t \in Seq(S) /\ Len(t) = Len(a) + Len(b) + Len(c)
            /\ SubSeq(t, 1, Len(a)) = a
            /\ SubSeq(t, Len(a) + Len(b) + 1, Len(t)) = c
<1> DEFINE t == (a \o b) \o c
<1>1. /\ Len(a) \in Nat /\ Len(b) \in Nat /\ Len(c) \in Nat
      /\ a \o b \in Seq(S) /\ Len(a \o b) = Len(a) + Len(b)
      /\ \A i \in 1..(Len(a) + Len(b)) : (a \o b)[i] = IF i <= Len(a) THEN a[i] ELSE b[i - Len(a)]
  BY ConcatProperties
<1>2. /\ t \in Seq(S) /\ Len(t) = Len(a) + Len(b) + Len(c)
      /\ \A i \in 1..(Len(a) + Len(b) + Len(c)) :
           t[i] = IF i <= Len(a) + Len(b) THEN (a \o b)[i] ELSE c[i - (Len(a) + Len(b))]
  BY <1>1, ConcatProperties
<1> HIDE DEF t
<1>3. SubSeq(t, 1, Len(a)) = a
  <2>1. \A i \in 1..Len(a) : t[i] = a[i]
    BY <1>1, <1>2
  <2>2. /\ SubSeq(t, 1, Len(a)) \in Seq(S) /\ Len(SubSeq(t, 1, Len(a))) = Len(a)
        /\ \A i \in 1..Len(a) : SubSeq(t, 1, Len(a))[i] = t[i]
    BY <1>1, <1>2
  <2> QED BY <2>1, <2>2, SeqEqual
<1>4. SubSeq(t, Len(a) + Len(b) + 1, Len(t)) = c
  <2> DEFINE m == Len(a) + Len(b)
             rest == SubSeq(t, m + 1, Len(t))
  <2>1. \A i \in 1..Len(c) : t[m + i] = c[i]
    <3> SUFFICES ASSUME NEW i \in 1..Len(c) PROVE t[m + i] = c[i]
      OBVIOUS
    <3>1. m + i \in 1..(Len(a) + Len(b) + Len(c)) /\ ~(m + i <= Len(a) + Len(b)) /\ (m + i) - m = i
      BY <1>1
    <3> QED BY <1>2, <3>1
  <2>2. m \in Nat /\ m <= Len(t) /\ Len(t) = m + Len(c) /\ Len(t) \in Nat
    BY <1>1, <1>2
  <2> HIDE DEF m
  <2>3. /\ rest \in Seq(S) /\ Len(rest) = Len(c)
        /\ \A i \in 1..Len(c) : rest[i] = t[m + i]
    <3>1. /\ m + 1 \in Int /\ Len(t) \in Int /\ Len(t) - (m + 1) + 1 = Len(c)
          /\ \A i \in (m + 1)..Len(t) : t[i] \in S
      <4>1. \A i \in (m + 1)..Len(t) : i \in 1..Len(t)
        BY <2>2
      <4>2. \A i \in 1..Len(t) : t[i] \in S
        BY <1>2
      <4>3. Len(t) - (m + 1) + 1 = Len(c)
        BY <1>1, <2>2
      <4> QED BY <2>2, <4>1, <4>2, <4>3
    <3>2. /\ rest \in Seq(S) /\ Len(rest) = IF m + 1 <= Len(t) THEN Len(t) - (m + 1) + 1 ELSE 0
          /\ \A i \in 1..(Len(t) - (m + 1) + 1) : rest[i] = t[(m + 1) + i - 1]
      BY <3>1, SubSeqProperties
    <3>3. \A i \in 1..Len(c) : (m + 1) + i - 1 = m + i
      BY <1>1, <2>2
    <3> QED BY <1>1, <2>2, <3>1, <3>2, <3>3
  <2> HIDE DEF rest
  <2>4. rest = c
    BY <2>1, <2>3, SeqEqual
  <2> QED BY <2>4 DEF rest, m
<1> QED BY <1>2, <1>3, <1>4 DEF t

\* Texts can be put together in either order.
LEMMA Associative ==
  \A s, t, u \in Seq(TextToken) : (s \o t) \o u = s \o (t \o u)
BY ConcatAssociative

\* A text in three parts can be cut at their ends.
LEMMA CutText ==
  \A a, b, c \in Seq(TextToken) :
    /\ SubSeq((a \o b) \o c, 1, Len(a)) = a
    /\ SubSeq((a \o b) \o c, Len(a) + Len(b) + 1, Len((a \o b) \o c)) = c
BY CutOf

\* Cutting the initialiser of a line out of a text and putting a literal in its
\* place gives the text of the lines with that literal as the initialiser.
LEMMA SpliceIs ==
  ASSUME NEW lines \in Seq(AnyLine), NEW i \in 1..Len(lines), lines[i].type # "code",
         NEW r, r.start = Len(Text(SubSeq(lines, 1, i - 1))) + 2,
         r.end = r.start + Len(lines[i].init), r.literal \in Seq(LiteralToken)
  PROVE  LET changed == [lines EXCEPT ![i] = [lines[i] EXCEPT !.init = r.literal]]
         IN changed \in Seq(AnyLine) /\ Splice(Text(lines), r) = Text(changed)
<1> DEFINE line == lines[i]
           other == [lines[i] EXCEPT !.init = r.literal]
           changed == [lines EXCEPT ![i] = other]
           S == TextToken
           n == Len(lines)
           semi == << <<";">> >>
<1>1. line \in AnyLine /\ n \in Nat
  OBVIOUS
<1>2. /\ other \in AnyLine /\ other.type = line.type /\ other.name = line.name
      /\ other.init = r.literal
  BY <1>1 DEF AnyLine
<1>3. /\ changed \in Seq(AnyLine) /\ Len(changed) = n /\ changed[i] = other
      /\ \A k \in 1..n : k # i => changed[k] = lines[k]
  BY <1>2, ExceptSeq
<1> HIDE DEF changed
<1>4. PICK f : IsTextOf(f, lines)
  BY TextExists
<1>5. PICK h : IsTextOf(h, changed)
  BY <1>3, TextExists
<1>6. i - 1 \in 0..n /\ n \in 0..n /\ i \in 0..n
  BY <1>1
<1>7. Text(SubSeq(lines, 1, i - 1)) = f[i - 1] /\ Text(lines) = f[n]
  <2>1. SubSeq(lines, 1, n) = lines
    BY SubSeqFull
  <2> QED BY <1>4, <1>6, <2>1, TextIs
<1>8. Text(changed) = h[n]
  <2>1. SubSeq(changed, 1, n) = changed
    BY <1>3, SubSeqFull
  <2>2. n \in 0..Len(changed)
    BY <1>3, <1>6
  <2>3. Text(SubSeq(changed, 1, n)) = h[n]
    BY <1>3, <1>5, <2>2, TextIs
  <2> QED BY <2>1, <2>3
<1>9. \A k \in 1..n : k - 1 \in 0..n /\ f[k - 1] \in Seq(S) /\ h[k - 1] \in Seq(S)
  <2> SUFFICES ASSUME NEW k \in 1..n PROVE k - 1 \in 0..n /\ f[k - 1] \in Seq(S) /\ h[k - 1] \in Seq(S)
    OBVIOUS
  <2>1. k - 1 \in 0..n
    BY <1>1
  <2> QED BY <1>3, <1>4, <1>5, <2>1 DEF IsTextOf
<1>10. \A k \in 1..n : /\ LineText(lines[k]) \in Seq(S)
                       /\ f[k] = f[k - 1] \o LineText(lines[k])
                       /\ h[k] = h[k - 1] \o LineText(changed[k])
  <2>1. \A k \in 1..n : lines[k] \in AnyLine
    OBVIOUS
  <2> QED BY <1>3, <1>4, <1>5, <2>1, LineTextOf DEF IsTextOf
<1>11. f[i - 1] = h[i - 1]
  <2> DEFINE T == {k \in Nat : k < i => f[k] = h[k]}
  <2>1. 0 \in T
    BY <1>4, <1>5 DEF IsTextOf
  <2>2. ASSUME NEW k \in T PROVE k + 1 \in T
    <3> SUFFICES ASSUME k + 1 < i PROVE f[k + 1] = h[k + 1]
      OBVIOUS
    <3>1. k + 1 \in 1..n /\ k + 1 # i /\ (k + 1) - 1 = k /\ f[k] = h[k]
      BY <1>1
    <3>2. changed[k + 1] = lines[k + 1]
      BY <1>3, <3>1
    <3>3. f[k + 1] = f[k] \o LineText(lines[k + 1]) /\ h[k + 1] = h[k] \o LineText(changed[k + 1])
      BY <1>10, <3>1
    <3> QED BY <3>1, <3>2, <3>3
  <2>3. T = Nat
    <3> HIDE DEF T
    <3>1. T \in SUBSET Nat
      BY DEF T
    <3> QED BY <2>1, <2>2, <3>1, AllNumbers
  <2>4. i - 1 \in Nat /\ i - 1 < i
    OBVIOUS
  <2> QED BY <2>3, <2>4
<1> DEFINE A == f[i - 1] \o Left(line)
           Splits(k, C) == /\ C \in Seq(S) /\ f[k] = (A \o line.init) \o C
                           /\ h[k] = (A \o other.init) \o C
<1>12. /\ Left(line) \in Seq(S) /\ Len(Left(line)) = 2 /\ Left(other) = Left(line)
       /\ line.init \in Seq(S) /\ other.init \in Seq(S) /\ semi \in Seq(S)
       /\ LineText(line) = (Left(line) \o line.init) \o semi
       /\ LineText(other) = (Left(line) \o other.init) \o semi
  <2>1. Left(other) = Left(line)
    BY <1>2 DEF Left
  <2> QED BY <1>1, <1>2, <2>1, LineTextOf
<1>13. f[i - 1] \in Seq(S)
  BY <1>9
<1> HIDE DEF semi, line, other, n
<1>14. A \in Seq(S) /\ Len(A) = r.start
  <2>1. A \in Seq(S) /\ Len(A) = Len(f[i - 1]) + Len(Left(line))
    BY <1>12, <1>13, ConcatProperties
  <2> QED BY <1>7, <1>12, <2>1
<1>15. ASSUME NEW init \in Seq(S)
       PROVE  f[i - 1] \o ((Left(line) \o init) \o semi) = (A \o init) \o semi
  <2> DEFINE L == Left(line)
             F == f[i - 1]
  <2>0. L \in Seq(S) /\ F \in Seq(S)
    BY <1>12, <1>13
  <2> HIDE DEF L, F
  <2>1. L \o init \in Seq(S)
    BY <2>0, ConcatProperties
  <2>2. F \o ((L \o init) \o semi) = (F \o (L \o init)) \o semi
    <3> DEFINE M == L \o init
    <3>1. M \in Seq(TextToken) /\ F \in Seq(TextToken) /\ semi \in Seq(TextToken)
      BY <1>12, <2>0, <2>1
    <3> HIDE DEF M
    <3>2. (F \o M) \o semi = F \o (M \o semi)
      BY <3>1, Associative
    <3> QED BY <3>2 DEF M
  <2>3. F \o (L \o init) = (F \o L) \o init
    BY <2>0, Associative
  <2> QED BY <2>2, <2>3 DEF L, F
<1>16. Splits(i, semi)
  <2>1. f[i] = f[i - 1] \o LineText(line) /\ h[i] = f[i - 1] \o LineText(other)
    BY <1>3, <1>6, <1>10, <1>11 DEF line, n
  <2> HIDE DEF A
  <2> QED BY <1>12, <1>15, <2>1
<1>17. ASSUME NEW k \in i..n, k + 1 \in i..n, NEW C, Splits(k, C)
       PROVE  Splits(k + 1, C \o LineText(lines[k + 1]))
  <2>1. k + 1 \in 1..n /\ k + 1 # i /\ (k + 1) - 1 = k
    BY <1>1, <1>17
  <2> DEFINE D == LineText(lines[k + 1])
  <2>2. /\ D \in Seq(S) /\ f[k + 1] = f[k] \o D /\ h[k + 1] = h[k] \o D
    BY <1>3, <1>10, <2>1
  <2>3. A \o line.init \in Seq(S) /\ A \o other.init \in Seq(S)
    BY <1>12, <1>14, ConcatProperties
  <2> DEFINE X == A \o line.init
             Y == A \o other.init
  <2> HIDE DEF D, A, X, Y
  <2>4. C \o D \in Seq(S)
    BY <1>17, <2>2, ConcatProperties
  <2>5. (X \o C) \o D = X \o (C \o D) /\ (Y \o C) \o D = Y \o (C \o D)
    <3>1. X \in Seq(S) /\ Y \in Seq(S) /\ C \in Seq(S) /\ D \in Seq(S)
      BY <1>17, <2>2, <2>3 DEF X, Y
    <3> QED BY <3>1, Associative
  <2> QED BY <1>17, <2>2, <2>4, <2>5 DEF D, X, Y
<1>18. PICK C : Splits(n, C)
  <2> HIDE DEF Splits
  <2> DEFINE T == {k \in Nat : k \in i..n => \E C : Splits(k, C)}
  <2>1. 0 \in T
    OBVIOUS
  <2>2. ASSUME NEW k \in T PROVE k + 1 \in T
    <3> SUFFICES ASSUME k + 1 \in i..n PROVE \E C : Splits(k + 1, C)
      OBVIOUS
    <3>1. CASE k + 1 = i
      BY <1>16, <3>1
    <3>2. CASE k + 1 # i
      <4>1. k \in i..n
        BY <1>1, <3>2
      <4>2. PICK C : Splits(k, C)
        BY <4>1
      <4> QED BY <1>17, <4>1, <4>2
    <3> QED BY <3>1, <3>2
  <2>3. T = Nat
    <3> HIDE DEF T
    <3>1. T \in SUBSET Nat
      BY DEF T
    <3> QED BY <2>1, <2>2, <3>1, AllNumbers
  <2>4. n \in i..n /\ n \in Nat
    BY <1>1 DEF n
  <2> QED BY <2>3, <2>4
<1>19. Splice(f[n], r) = h[n]
  <2>1. f[n] = (A \o line.init) \o C /\ h[n] = (A \o r.literal) \o C /\ C \in Seq(S)
    BY <1>2, <1>18
  <2>2. r.end = r.start + Len(line.init)
    BY DEF line
  <2> DEFINE I == line.init
             B == r.literal
             t == (A \o I) \o C
  <2>3. A \in Seq(S) /\ I \in Seq(S) /\ C \in Seq(S) /\ Len(A) = r.start
    BY <1>12, <1>14, <2>1
  <2> HIDE DEF A, I
  <2>4. SubSeq(t, 1, Len(A)) = A /\ SubSeq(t, Len(A) + Len(I) + 1, Len(t)) = C
    BY <2>3, CutText
  <2>5. f[n] = t /\ r.end + 1 = Len(A) + Len(I) + 1
    BY <2>1, <2>2, <2>3 DEF I
  <2> HIDE DEF t
  <2>6. SubSeq(f[n], 1, r.start) = A /\ SubSeq(f[n], r.end + 1, Len(f[n])) = C
    BY <2>3, <2>4, <2>5
  <2> QED BY <2>1, <2>6 DEF Splice
<1> QED BY <1>3, <1>7, <1>8, <1>19 DEF changed, other

-----------------------------------------------------------------------------
\* Each replacement has a turn of its own, and one to its right an earlier one.
LEMMA TurnsOf ==
  ASSUME NEW r, IsFiniteSet(DOMAIN r), DOMAIN r \subseteq Int, \A i \in DOMAIN r : r[i].start \in Int
  PROVE  LET n == Cardinality(DOMAIN r)
         IN /\ n \in Nat
            /\ \A i \in DOMAIN r : Turn(r, i) \in 1..n
            /\ \A i, j \in DOMAIN r : i # j => Turn(r, i) # Turn(r, j)
            /\ \A k \in 1..n : \E i \in DOMAIN r : Turn(r, i) = k
            /\ \A i, j \in DOMAIN r : Turn(r, i) < Turn(r, j) => r[i].start >= r[j].start
<1> DEFINE D == DOMAIN r
           n == Cardinality(D)
           Before(i) == {j \in D : Precedes(r, j, i)}
<1>1. n \in Nat /\ IsFiniteSet(D)
  BY FS_CardinalityType
<1>2. \A i \in D : i \in Int /\ r[i].start \in Int
  OBVIOUS
<1>3. /\ \A i \in D : Precedes(r, i, i)
      /\ \A i, j \in D : Precedes(r, i, j) \/ Precedes(r, j, i)
      /\ \A i, j \in D : Precedes(r, i, j) /\ Precedes(r, j, i) => i = j
      /\ \A i, j, k \in D : Precedes(r, i, j) /\ Precedes(r, j, k) => Precedes(r, i, k)
  BY <1>2 DEF Precedes
<1>4. \A i \in D : Turn(r, i) = Cardinality(Before(i))
  BY DEF Turn
<1> HIDE DEF D
<1>5. \A i \in D : Before(i) \in SUBSET D /\ i \in Before(i)
  BY <1>3
<1>6. ASSUME NEW i \in D
      PROVE  IsFiniteSet(Before(i)) /\ Turn(r, i) \in 1..n
  <2>1. IsFiniteSet(Before(i)) /\ Cardinality(Before(i)) <= n
    BY <1>1, <1>5, FS_Subset
  <2>2. Cardinality(Before(i)) \in Nat /\ Cardinality(Before(i)) # 0
    BY <1>5, <2>1, FS_CardinalityType, FS_EmptySet
  <2> QED BY <1>1, <1>4, <2>1, <2>2
<1>11. \A i \in D : Cardinality(Before(i)) \in Nat
  BY <1>1, <1>4, <1>6
<1>12. ASSUME NEW i \in D PROVE Turn(r, i) \in Int
  <2> HIDE DEF n
  <2>1. Turn(r, i) \in 1..n
    BY <1>6
  <2> QED BY <1>1, <2>1
<1>7. ASSUME NEW i \in D, NEW j \in D, i # j, Precedes(r, i, j)
      PROVE  Turn(r, i) < Turn(r, j)
  <2>1. Before(i) \in SUBSET Before(j)
    BY <1>3, <1>7
  <2>2. j \in Before(j) /\ j \notin Before(i)
    BY <1>3, <1>7
  <2>3. Cardinality(Before(i)) <= Cardinality(Before(j)) /\ Cardinality(Before(i)) # Cardinality(Before(j))
    BY <1>6, <2>1, <2>2, FS_Subset
  <2> HIDE DEF Before
  <2> QED BY <1>4, <1>11, <2>3
<1>8. \A i, j \in D : i # j => Turn(r, i) # Turn(r, j)
  <2> SUFFICES ASSUME NEW i \in D, NEW j \in D, i # j PROVE Turn(r, i) # Turn(r, j)
    OBVIOUS
  <2>1. Turn(r, i) < Turn(r, j) \/ Turn(r, j) < Turn(r, i)
    BY <1>3, <1>7
  <2>2. Turn(r, i) \in Int /\ Turn(r, j) \in Int
    BY <1>12
  <2> QED BY <2>1, <2>2
<1>9. \A i, j \in D : Turn(r, i) < Turn(r, j) => r[i].start >= r[j].start
  <2> SUFFICES ASSUME NEW i \in D, NEW j \in D, Turn(r, i) < Turn(r, j)
               PROVE  r[i].start >= r[j].start
    OBVIOUS
  <2>1. Precedes(r, i, j) \/ Precedes(r, j, i)
    BY <1>3
  <2>2. ~(i # j /\ Precedes(r, j, i))
    <3>1. i # j /\ Precedes(r, j, i) => Turn(r, j) < Turn(r, i)
      BY <1>7
    <3>2. Turn(r, i) \in Int /\ Turn(r, j) \in Int
      BY <1>12
    <3> QED BY <3>1, <3>2
  <2>3. i # j
    <3>1. Turn(r, i) \in Int
      BY <1>12
    <3> QED BY <3>1
  <2> QED BY <1>2, <2>1, <2>2, <2>3 DEF Precedes
<1>10. \A k \in 1..n : \E i \in D : Turn(r, i) = k
  <2> DEFINE f == [i \in D |-> Turn(r, i)]
  <2>1. f \in [D -> 1..n]
    BY <1>6
  <2>2. IsInjective(f)
    BY <1>8 DEF IsInjective
  <2>3. f \in Injection(D, 1..n)
    BY <2>1, <2>2 DEF Injection
  <2>4. IsFiniteSet(1..n) /\ Cardinality(1..n) = n
    BY <1>1, FS_Interval
  <2>5. f \in Surjection(D, 1..n)
    <3> HIDE DEF f
    <3> QED BY <1>1, <2>3, <2>4, FS_Injection
  <2> QED BY <2>5 DEF Surjection
<1> QED BY <1>1, <1>6, <1>8, <1>9, <1>10 DEF D

\* The replacements in order are the replacements, each once, and never one to
\* the right of one before it.
LEMMA InOrderOf ==
  ASSUME NEW r, IsFiniteSet(DOMAIN r), DOMAIN r \subseteq Int, \A i \in DOMAIN r : r[i].start \in Int
  PROVE  LET n == Cardinality(DOMAIN r)
         IN \E p \in [1..n -> DOMAIN r] :
              /\ n \in Nat
              /\ InOrder(r) = [k \in 1..n |-> r[p[k]]]
              /\ \A i \in DOMAIN r : \E k \in 1..n : p[k] = i
              /\ \A k, l \in 1..n : k # l => p[k] # p[l]
              /\ \A k, l \in 1..n : k < l => r[p[k]].start >= r[p[l]].start
<1> DEFINE n == Cardinality(DOMAIN r)
           p == [k \in 1..n |-> CHOOSE i \in DOMAIN r : Turn(r, i) = k]
<1>1. \A k \in 1..n : p[k] \in DOMAIN r /\ Turn(r, p[k]) = k
  BY TurnsOf
<1>2. InOrder(r) = [k \in 1..n |-> r[p[k]]]
  BY DEF InOrder
<1>3. p \in [1..n -> DOMAIN r]
  BY <1>1
<1> HIDE DEF p
<1>4. \A i \in DOMAIN r : \E k \in 1..n : p[k] = i
  <2> SUFFICES ASSUME NEW i \in DOMAIN r PROVE p[Turn(r, i)] = i /\ Turn(r, i) \in 1..n
    OBVIOUS
  <2>1. Turn(r, i) \in 1..n
    BY TurnsOf
  <2>2. p[Turn(r, i)] \in DOMAIN r /\ Turn(r, p[Turn(r, i)]) = Turn(r, i)
    BY <1>1, <2>1
  <2> QED BY <2>1, <2>2, TurnsOf
<1>5. \A k, l \in 1..n : k # l => p[k] # p[l]
  BY <1>1
<1>6. \A k, l \in 1..n : k < l => r[p[k]].start >= r[p[l]].start
  BY <1>1, TurnsOf
<1>7. n \in Nat
  BY TurnsOf
<1> QED BY <1>2, <1>3, <1>4, <1>5, <1>6, <1>7

-----------------------------------------------------------------------------
\* A value becomes a literal exactly if C# can hold it in a variable of the kind.
LEMMA ScalarFits ==
  ASSUME NEW kind \in ScalarKinds, NEW v \in Scalar
  PROVE  /\ ScalarLiteral(kind, v) = None <=> ~Fits(kind, v)
         /\ Fits(kind, v) => ScalarLiteral(kind, v) \in ScalarKinds \X Int
<1>1. v = <<v[1], v[2]>> /\ v[2] \in Int
  BY DEF Scalar
<1>2. None \notin Scalar
  BY BindingAssumption
<1>3. \A k \in ScalarKinds, n \in Int : <<k, n>> # None
  <2> SUFFICES ASSUME NEW k \in ScalarKinds, NEW n \in Int
               PROVE  <<k, n>> # None
    OBVIOUS
  <2>2. <<k, n>> \in Scalar
    BY DEF Scalar
  <2> QED BY <1>2, <2>2
<1>4. IntMax \in Nat /\ SafeMax \in Nat
  BY BindingAssumption
<1>5. CASE kind = "string"
  BY <1>1, <1>2, <1>5 DEF ScalarLiteral, Fits, ScalarKinds
<1>6. CASE kind = "bool"
  BY <1>1, <1>2, <1>6 DEF ScalarLiteral, Fits, ScalarKinds
<1>7. CASE kind = "int"
  <2>1. v[2] \in (-IntMax - 1)..IntMax <=> v[2] <= IntMax /\ v[2] >= -(IntMax + 1)
    BY <1>1, <1>4
  <2> QED BY <1>1, <1>3, <1>7, <2>1 DEF ScalarLiteral, Fits, ScalarKinds
<1>8. CASE kind = "long"
  <2>1. v[2] \in (-SafeMax)..SafeMax <=> v[2] <= SafeMax /\ v[2] >= -SafeMax
    BY <1>1, <1>4
  <2> QED BY <1>1, <1>3, <1>8, <2>1 DEF ScalarLiteral, Fits, ScalarKinds
<1>9. CASE kind = "double"
  BY <1>1, <1>3, <1>9 DEF ScalarLiteral, Fits, ScalarKinds
<1> QED BY <1>5, <1>6, <1>7, <1>8, <1>9 DEF ScalarKinds

-----------------------------------------------------------------------------
\* A row fits the elements of an array.
RowFits(elements, row) ==
  \/ /\ row[1] = "array" /\ Len(row[2]) = Len(elements)
     /\ \A e \in DOMAIN elements : Fits(elements[e].kind, row[2][e])
  \/ /\ row[1] = "object" /\ Cardinality(DOMAIN row[2]) = Len(elements)
     /\ \A e \in DOMAIN elements :
          elements[e].name \in DOMAIN row[2] /\ Fits(elements[e].kind, row[2][elements[e].name])

\* The fields of a row, where it has exactly those of the elements, are scalars.
LEMMA FieldsOf ==
  ASSUME NEW elements \in Seq(Element), NEW row, IsRow(row)
  PROVE  \/ /\ Fields(elements, row) \in [1..Len(elements) -> Scalar]
            /\ Fields(elements, row) # None
            /\ \/ /\ row[1] = "array" /\ Len(row[2]) = Len(elements)
                  /\ Fields(elements, row) = row[2]
               \/ /\ row[1] = "object" /\ Cardinality(DOMAIN row[2]) = Len(elements)
                  /\ \A i \in DOMAIN elements : elements[i].name \in DOMAIN row[2]
                  /\ Fields(elements, row) = [i \in DOMAIN elements |-> row[2][elements[i].name]]
         \/ Fields(elements, row) = None /\ ~RowFits(elements, row)
<1>1. None \notin Seq(Scalar) /\ DOMAIN elements = 1..Len(elements) /\ Len(elements) \in Nat
  BY BindingAssumption
<1>2. CASE row[1] = "array" /\ Len(row[2]) = Len(elements)
  <2>1. row[2] \in Seq(Scalar)
    BY <1>2 DEF IsRow
  <2>2. Fields(elements, row) = row[2]
    BY <1>2 DEF Fields
  <2> QED BY <1>1, <1>2, <2>1, <2>2
<1>3. CASE /\ row[1] = "object" /\ Cardinality(DOMAIN row[2]) = Len(elements)
           /\ \A i \in DOMAIN elements : elements[i].name \in DOMAIN row[2]
  <2>1. \A name \in DOMAIN row[2] : row[2][name] \in Scalar
    BY <1>3 DEF IsRow
  <2>2. Fields(elements, row) = [i \in DOMAIN elements |-> row[2][elements[i].name]]
    BY <1>3 DEF Fields
  <2>3. [i \in DOMAIN elements |-> row[2][elements[i].name]] \in [1..Len(elements) -> Scalar]
    BY <1>1, <1>3, <2>1
  <2>4. [i \in DOMAIN elements |-> row[2][elements[i].name]] \in Seq(Scalar)
    BY <1>1, <2>3, SeqDef
  <2> QED BY <1>1, <1>3, <2>2, <2>3, <2>4
<1>4. CASE /\ ~(row[1] = "array" /\ Len(row[2]) = Len(elements))
           /\ ~(/\ row[1] = "object" /\ Cardinality(DOMAIN row[2]) = Len(elements)
                /\ \A i \in DOMAIN elements : elements[i].name \in DOMAIN row[2])
  BY <1>4 DEF Fields, RowFits
<1> QED BY <1>2, <1>3, <1>4

\* A row becomes a literal exactly if it fits.
LEMMA RowLiteralOf ==
  ASSUME NEW elements \in Seq(Element), \A i \in DOMAIN elements : elements[i].kind \in ScalarKinds,
         NEW row, IsRow(row)
  PROVE  /\ RowLiteral(elements, row) = None <=> ~RowFits(elements, row)
         /\ RowFits(elements, row) => RowLiteral(elements, row) \in {"row"} \X Seq(Scalar)
<1> DEFINE fields == Fields(elements, row)
           literals == [i \in DOMAIN elements |-> ScalarLiteral(elements[i].kind, fields[i])]
<1>1. DOMAIN elements = 1..Len(elements) /\ Len(elements) \in Nat
  OBVIOUS
<1>2. CASE fields = None
  BY <1>2, FieldsOf DEF RowLiteral
<1>3. CASE fields # None
  <2>1. fields \in [1..Len(elements) -> Scalar]
    BY <1>3, FieldsOf
  <2>2. \A i \in DOMAIN elements : /\ literals[i] = None <=> ~Fits(elements[i].kind, fields[i])
                                   /\ Fits(elements[i].kind, fields[i]) => literals[i] \in Scalar
    <3> SUFFICES ASSUME NEW i \in DOMAIN elements
                 PROVE  /\ literals[i] = None <=> ~Fits(elements[i].kind, fields[i])
                        /\ Fits(elements[i].kind, fields[i]) => literals[i] \in Scalar
      OBVIOUS
    <3>1. fields[i] \in Scalar
      BY <1>1, <2>1
    <3>2. elements[i].kind \in ScalarKinds
      OBVIOUS
    <3>3. literals[i] = ScalarLiteral(elements[i].kind, fields[i])
      OBVIOUS
    <3>4. ScalarKinds \X Int \subseteq Scalar
      BY DEF Scalar
    <3> HIDE DEF fields, literals
    <3> QED BY <3>1, <3>2, <3>3, <3>4, ScalarFits
  <2>3. RowFits(elements, row) <=> \A i \in DOMAIN elements : Fits(elements[i].kind, fields[i])
    <3>1. CASE row[1] = "array"
      <4>1. Len(row[2]) = Len(elements) /\ fields = row[2]
        BY <1>3, <3>1, FieldsOf
      <4> QED BY <3>1, <4>1 DEF RowFits
    <3>2. CASE row[1] # "array"
      <4>1. /\ row[1] = "object" /\ Cardinality(DOMAIN row[2]) = Len(elements)
            /\ \A i \in DOMAIN elements : elements[i].name \in DOMAIN row[2]
            /\ fields = [i \in DOMAIN elements |-> row[2][elements[i].name]]
        BY <1>3, <3>2, FieldsOf
      <4>2. \A i \in DOMAIN elements : fields[i] = row[2][elements[i].name]
        BY <4>1
      <4> HIDE DEF fields
      <4> QED BY <4>1, <4>2 DEF RowFits
    <3> QED BY <3>1, <3>2
  <2>4. RowLiteral(elements, row) = IF \E i \in DOMAIN elements : literals[i] = None THEN None
                                    ELSE <<"row", literals>>
    BY <1>3 DEF RowLiteral
  <2>5. ASSUME \A i \in DOMAIN elements : Fits(elements[i].kind, fields[i])
        PROVE  literals \in Seq(Scalar)
    <3>1. \A i \in 1..Len(elements) : literals[i] \in Scalar
      BY <1>1, <2>2, <2>5
    <3>2. literals \in [1..Len(elements) -> Scalar]
      BY <1>1, <3>1
    <3> QED BY <1>1, <3>2, SeqDef
  <2> HIDE DEF fields, literals
  <2>6. None \notin {"row"} \X Seq(Scalar)
    BY BindingAssumption DEF LiteralToken
  <2>7. CASE \A i \in DOMAIN elements : Fits(elements[i].kind, fields[i])
    <3>1. <<"row", literals>> \in {"row"} \X Seq(Scalar)
      BY <2>5, <2>7
    <3> QED BY <2>2, <2>3, <2>4, <2>6, <2>7, <3>1
  <2>8. CASE \E i \in DOMAIN elements : ~Fits(elements[i].kind, fields[i])
    BY <2>2, <2>3, <2>4, <2>8
  <2> QED BY <2>7, <2>8
<1> QED BY <1>2, <1>3

-----------------------------------------------------------------------------
\* What a template line is.
LEMMA LineOf ==
  ASSUME NEW s \in Skills, s.lines # None, NEW i \in DOMAIN s.lines
  PROVE  /\ s.lines \in Seq(TemplateLine) /\ s.lines[i] \in TemplateLine
         /\ s.lines[i].type # "code" => s.lines[i].init # <<>>
<1>1. s.lines \in Seq(TemplateLine)
  BY BindingAssumption
<1> QED BY <1>1, BindingAssumption

\* A declared name has one line, whose initialiser is what is replaced.
LEMMA DeclarationOf ==
  ASSUME NEW lines \in Seq(TemplateLine), NEW name, FindDeclaration(lines, name) # None
  PROVE  \E i \in DOMAIN lines :
           /\ IsFor(lines[i], name)
           /\ \A j \in DOMAIN lines : IsFor(lines[j], name) => j = i
           /\ BindableKind(lines[i]) # None
           /\ FindDeclaration(lines, name) =
                [kind |-> BindableKind(lines[i]), init |-> lines[i].init,
                 start |-> Len(Text(SubSeq(lines, 1, i - 1))) + 2,
                 end |-> Len(Text(SubSeq(lines, 1, i - 1))) + 2 + Len(lines[i].init)]
<1> DEFINE matches == {i \in DOMAIN lines : lines[i].type # "code" /\ lines[i].name = name}
<1>1. Cardinality(matches) = 1
  BY DEF FindDeclaration
<1>2. IsFiniteSet(matches)
  <2>1. IsFiniteSet(1..Len(lines))
    BY FS_Interval
  <2> QED BY <2>1, FS_Subset
<1>3. PICK x : matches = {x}
  BY <1>1, <1>2, FS_Singleton
<1>4. (CHOOSE j \in matches : TRUE) = x
  BY <1>3
<1>5. x \in DOMAIN lines /\ \A j \in DOMAIN lines : IsFor(lines[j], name) <=> j = x
  BY <1>3 DEF IsFor
<1>6. FindDeclaration(lines, name) =
        IF BindableKind(lines[x]) = None THEN None
        ELSE [kind |-> BindableKind(lines[x]), init |-> lines[x].init,
              start |-> Len(Text(SubSeq(lines, 1, x - 1))) + 2,
              end |-> Len(Text(SubSeq(lines, 1, x - 1))) + 2 + Len(lines[x].init)]
  BY <1>1, <1>4 DEF FindDeclaration
<1> QED BY <1>5, <1>6

\* What a line that is bindable declares.
LEMMA BindableOf ==
  ASSUME NEW line \in TemplateLine, line.type # "code", line.init # <<>>, BindableKind(line) # None
  PROVE  \/ /\ line.init[1][1] # "new" /\ BindableKind(line) \in ScalarKinds
            /\ BindableKind(line) = IF line.type = "var" THEN line.init[1][1] ELSE line.type
         \/ /\ BindableKind(line) = "tuple-array" /\ line.type = "var"
            /\ line.init[1][1] = "new" /\ Len(line.init) = 1
            /\ line.init[1][2] \in Seq(Element)
            /\ \A e \in DOMAIN line.init[1][2] : line.init[1][2][e].kind \in ScalarKinds
<1>1. line.type \in ScalarKinds \cup {"var"} /\ line.init \in Seq(InitToken)
  BY DEF TemplateLine
<1>2. None \notin ScalarKinds \cup {"tuple-array"}
  BY BindingAssumption
<1>3. InferScalarKind(line.init) # None =>
        line.init[1][1] = InferScalarKind(line.init) /\ line.init[1][1] \in {"string", "int", "double", "bool"}
  BY DEF InferScalarKind
<1>4. CASE line.type # "var"
  BY <1>1, <1>2, <1>3, <1>4 DEF BindableKind, ScalarKinds
<1>5. CASE line.type = "var" /\ IsTupleArray(line.init)
  <2>1. Len(line.init) = 1 /\ line.init[1][1] = "new"
        /\ \A i \in DOMAIN line.init[1][2] : line.init[1][2][i].kind \in ScalarKinds
    BY <1>5 DEF IsTupleArray
  <2>2. line.init[1] \in InitToken
    BY <1>1, <2>1
  <2>3. line.init[1] \in {"new"} \X Seq(Element)
    BY <2>1, <2>2 DEF InitToken, ScalarKinds
  <2> QED BY <1>5, <2>1, <2>3 DEF BindableKind
<1>6. CASE line.type = "var" /\ ~IsTupleArray(line.init)
  BY <1>3, <1>6 DEF BindableKind, ScalarKinds
<1> QED BY <1>4, <1>5, <1>6

\* A value becomes a literal exactly if it fits the variable that is declared.
LEMMA LiteralFits ==
  ASSUME NEW line \in TemplateLine, line.type # "code", line.init # <<>>, BindableKind(line) # None,
         NEW declaration, declaration.kind = BindableKind(line), declaration.init = line.init,
         NEW v \in Values
  PROVE  ToLiteral(declaration, v) = None <=> ~FitsLine(line, v)
<1>1. CASE line.init[1][1] # "new"
  <2>1. /\ declaration.kind # "tuple-array" /\ declaration.kind \in ScalarKinds
        /\ declaration.kind = IF line.type = "var" THEN line.init[1][1] ELSE line.type
    BY <1>1, BindableOf DEF ScalarKinds
  <2>2. FitsLine(line, v) <=> Fits(declaration.kind, v)
    BY <1>1, <2>1 DEF FitsLine
  <2>3. ToLiteral(declaration, v) =
          IF ScalarLiteral(declaration.kind, v) = None THEN None ELSE <<ScalarLiteral(declaration.kind, v)>>
    BY <2>1 DEF ToLiteral
  <2>4. \A x \in Scalar : <<x>> # None
    <3>1. \A x \in Scalar : <<x>> \in Seq(Scalar)
      OBVIOUS
    <3> QED BY <3>1, BindingAssumption
  <2>5. CASE v \in Scalar
    <3>1. ScalarKinds \X Int \subseteq Scalar
      BY DEF Scalar
    <3> QED BY <2>1, <2>2, <2>3, <2>4, <2>5, <3>1, ScalarFits
  <2>6. CASE v \notin Scalar
    <3>1. v[1] \in {"array", "object"}
      BY <2>6, BindingAssumption DEF IsRow
    <3>2. ScalarLiteral(declaration.kind, v) = None
      BY <3>1 DEF ScalarLiteral
    <3>3. ~Fits(declaration.kind, v)
      BY <2>1, <3>1 DEF Fits
    <3> QED BY <2>2, <2>3, <3>2, <3>3
  <2> QED BY <2>5, <2>6
<1>2. CASE line.init[1][1] = "new"
  <2> DEFINE elements == line.init[1][2]
             rows == [i \in DOMAIN v[2] |-> RowLiteral(elements, v[2][i])]
  <2>1. /\ declaration.kind = "tuple-array" /\ line.init[1][2] \in Seq(Element) /\ Len(line.init) = 1
        /\ \A e \in DOMAIN line.init[1][2] : line.init[1][2][e].kind \in ScalarKinds
    BY <1>2, BindableOf
  <2>2. CASE v[1] # "array"
    BY <1>2, <2>1, <2>2 DEF ToLiteral, FitsLine
  <2>3. CASE v[1] = "array"
    <3>1. FitsLine(line, v) <=> \A r \in DOMAIN v[2] : RowFits(elements, v[2][r])
      BY <1>2, <2>3 DEF FitsLine, RowFits
    <3>2. \A r \in DOMAIN v[2] : IsRow(v[2][r])
      BY <2>3, BindingAssumption
    <3>3. \A r \in DOMAIN v[2] :
            /\ RowLiteral(elements, v[2][r]) = None <=> ~RowFits(elements, v[2][r])
            /\ RowFits(elements, v[2][r]) => RowLiteral(elements, v[2][r]) \in {"row"} \X Seq(Scalar)
      BY <2>1, <3>2, RowLiteralOf
    <3>4. ToLiteral(declaration, v) =
            IF \E i \in DOMAIN rows : rows[i] = None THEN None ELSE line.init \o rows
      BY <2>1, <2>3 DEF ToLiteral
    <3>5. ASSUME \A i \in DOMAIN rows : rows[i] # None
          PROVE  line.init \o rows \in Seq(LiteralToken)
      <4>1. DOMAIN v[2] = 1..Len(v[2]) /\ Len(v[2]) \in Nat
        BY <2>3, BindingAssumption
      <4>2. \A i \in 1..Len(v[2]) : rows[i] \in LiteralToken
        BY <3>3, <3>5, <4>1 DEF LiteralToken
      <4>3. rows \in [1..Len(v[2]) -> LiteralToken]
        BY <4>1, <4>2
      <4>4. rows \in Seq(LiteralToken)
        BY <4>1, <4>3, SeqDef
      <4>5. line.init \in Seq(LiteralToken)
        BY DEF TemplateLine, LiteralToken
      <4> HIDE DEF rows
      <4> QED BY <4>4, <4>5
    <3>6. None \notin Seq(LiteralToken)
      BY BindingAssumption
    <3>7. \A i \in DOMAIN rows : rows[i] = RowLiteral(elements, v[2][i])
      OBVIOUS
    <3>8. DOMAIN rows = DOMAIN v[2]
      OBVIOUS
    <3> HIDE DEF rows, elements
    <3> QED BY <3>1, <3>3, <3>4, <3>5, <3>6, <3>7, <3>8
  <2> QED BY <2>2, <2>3
<1> QED BY <1>1, <1>2

-----------------------------------------------------------------------------
\* The replacement of a parameter that is given, and the line it is for.
LEMMA ReplacementOf ==
  ASSUME NEW s \in Skills, NEW taken \in Given, IsRunnable(s),
         NEW p \in DOMAIN s.parameters, s.parameters[p].name \in DOMAIN taken
  PROVE  LET name == s.parameters[p].name
             r == Replacements(s, taken)[p]
         IN \E i \in DOMAIN s.lines :
              /\ IsFor(s.lines[i], name)
              /\ \A j \in DOMAIN s.lines : IsFor(s.lines[j], name) => j = i
              /\ BindableKind(s.lines[i]) # None
              /\ r.start = Len(Text(SubSeq(s.lines, 1, i - 1))) + 2
              /\ r.end = r.start + Len(s.lines[i].init)
              /\ r.literal = ToLiteral(FindDeclaration(s.lines, name), taken[name])
              /\ FindDeclaration(s.lines, name).kind = BindableKind(s.lines[i])
              /\ FindDeclaration(s.lines, name).init = s.lines[i].init
              /\ r.literal = None <=> ~FitsLine(s.lines[i], taken[name])
<1> DEFINE name == s.parameters[p].name
           r == Replacements(s, taken)[p]
           declaration == FindDeclaration(s.lines, name)
<1>1. s.lines # None /\ declaration # None
  BY DEF IsRunnable, Names
<1>2. s.lines \in Seq(TemplateLine)
  BY <1>1, BindingAssumption
<1>3. PICK i \in DOMAIN s.lines :
        /\ IsFor(s.lines[i], name)
        /\ \A j \in DOMAIN s.lines : IsFor(s.lines[j], name) => j = i
        /\ BindableKind(s.lines[i]) # None
        /\ declaration =
             [kind |-> BindableKind(s.lines[i]), init |-> s.lines[i].init,
              start |-> Len(Text(SubSeq(s.lines, 1, i - 1))) + 2,
              end |-> Len(Text(SubSeq(s.lines, 1, i - 1))) + 2 + Len(s.lines[i].init)]
  <2> HIDE DEF name
  <2> QED BY <1>1, <1>2, DeclarationOf
<1>4. r = [start |-> declaration.start, end |-> declaration.end,
           literal |-> ToLiteral(declaration, taken[name])]
  BY DEF Replacements
<1>5. taken[name] \in Values
  BY DEF Given
<1>6. /\ s.lines[i] \in TemplateLine /\ s.lines[i].type # "code" /\ s.lines[i].init # <<>>
  BY <1>1, <1>3, LineOf DEF IsFor
<1> HIDE DEF name, declaration
<1>7. /\ declaration.kind = BindableKind(s.lines[i]) /\ declaration.init = s.lines[i].init
      /\ declaration.start = Len(Text(SubSeq(s.lines, 1, i - 1))) + 2
      /\ declaration.end = declaration.start + Len(s.lines[i].init)
  BY <1>3
<1>8. ToLiteral(declaration, taken[name]) = None <=> ~FitsLine(s.lines[i], taken[name])
  BY <1>3, <1>5, <1>6, <1>7, LiteralFits
<1>9. /\ r.start = declaration.start /\ r.end = declaration.end
      /\ r.literal = ToLiteral(declaration, taken[name])
  BY <1>4
<1> QED BY <1>3, <1>7, <1>8, <1>9 DEF name, declaration

\* A run is refused for a value exactly if one does not fit the variable it is for.
LEMMA MisfitOf ==
  ASSUME NEW s \in Skills, NEW taken \in Given, IsRunnable(s), DOMAIN taken \subseteq Names(s)
  PROVE  (\E p \in DOMAIN Replacements(s, taken) : Replacements(s, taken)[p].literal = None)
           <=> \E i \in DOMAIN s.lines, name \in DOMAIN taken :
                 IsFor(s.lines[i], name) /\ ~FitsLine(s.lines[i], taken[name])
<1>1. DOMAIN Replacements(s, taken) = {p \in DOMAIN s.parameters : s.parameters[p].name \in DOMAIN taken}
  BY DEF Replacements
<1>2. ASSUME NEW p \in DOMAIN Replacements(s, taken), Replacements(s, taken)[p].literal = None
      PROVE  \E i \in DOMAIN s.lines, name \in DOMAIN taken :
               IsFor(s.lines[i], name) /\ ~FitsLine(s.lines[i], taken[name])
  BY <1>1, <1>2, ReplacementOf
<1>3. ASSUME NEW i \in DOMAIN s.lines, NEW name \in DOMAIN taken,
             IsFor(s.lines[i], name), ~FitsLine(s.lines[i], taken[name])
      PROVE  \E p \in DOMAIN Replacements(s, taken) : Replacements(s, taken)[p].literal = None
  <2>1. PICK p \in DOMAIN s.parameters : s.parameters[p].name = name
    BY DEF Names
  <2>2. p \in DOMAIN Replacements(s, taken)
    BY <1>1, <2>1
  <2>3. PICK j \in DOMAIN s.lines :
          /\ \A k \in DOMAIN s.lines : IsFor(s.lines[k], name) => k = j
          /\ Replacements(s, taken)[p].literal = None <=> ~FitsLine(s.lines[j], taken[name])
    BY <2>1, ReplacementOf
  <2> QED BY <1>3, <2>2, <2>3
<1> QED BY <1>2, <1>3

\* What is known of the run: what get told, and why it ended as it did.
RunInv ==
  /\ skill \in Skills
  /\ told # None /\ ~edited => told = IsRunnable(skill)
  /\ outcome # "none" =>
       /\ values \in Given
       /\ outcome = "bound" <=> WhyUnbound(skill, values) = "none"
  /\ outcome = "bound" => code = Bound(skill, values)

\* What is known of a run holds in every behaviour of SkillBinding.
THEOREM RunInvariance == BindingSpec => []RunInv
<1>1. BindingInit => RunInv
  BY DEF BindingInit, RunInv
<1>2. RunInv /\ [BindingNext]_bindingVars => RunInv'
  <2> SUFFICES ASSUME RunInv, [BindingNext]_bindingVars
               PROVE  RunInv'
    OBVIOUS
  <2>1. CASE outcome = "none" /\ Get
    BY <2>1 DEF RunInv, Get
  <2>2. CASE outcome = "none" /\ EditSkill
    BY <2>2 DEF RunInv, EditSkill
  <2>3. ASSUME NEW taken \in Given, Bind(taken)
        PROVE  RunInv'
    <3>1. /\ values' = taken /\ UNCHANGED <<skill, told, edited>>
      BY <2>3 DEF Bind
    <3>2. CASE WhyUnbound(skill, taken) = "none"
      BY <2>3, <3>1, <3>2 DEF RunInv, Bind
    <3>3. CASE WhyUnbound(skill, taken) # "none"
      <4>1. WhyUnbound(skill, taken) # "bound"
        BY DEF WhyUnbound
      <4>2. outcome' = WhyUnbound(skill, taken)
        BY <2>3, <3>3 DEF Bind
      <4> QED BY <3>1, <3>3, <4>1, <4>2 DEF RunInv
    <3> QED BY <3>2, <3>3
  <2>4. CASE UNCHANGED bindingVars
    BY <2>4 DEF RunInv, bindingVars
  <2> QED BY <2>1, <2>2, <2>3, <2>4 DEF BindingNext
<1> QED BY <1>1, <1>2, PTL DEF BindingSpec

\* What civil3d_skills get tells is what a run does, and an edited file is judged
\* by what it is at the run: exactly the values that fit its variables are bound,
\* for every file and every value.
THEOREM RunByNameIsExact == BindingSpec => []RunByNameIsTrue
<1>1. RunInv => RunByNameIsTrue
  <2> SUFFICES ASSUME RunInv, outcome # "none"
               PROVE  (outcome = "bound") =
                        (/\ IF told = None \/ edited THEN IsRunnable(skill) ELSE told
                         /\ DOMAIN values \subseteq Names(skill)
                         /\ \A i \in DOMAIN skill.parameters :
                              skill.parameters[i].required => skill.parameters[i].name \in DOMAIN values
                         /\ \A i \in DOMAIN skill.lines, name \in DOMAIN values :
                              IsFor(skill.lines[i], name) => FitsLine(skill.lines[i], values[name]))
    BY DEF RunByNameIsTrue
  <2>1. /\ (IF told = None \/ edited THEN IsRunnable(skill) ELSE told) = IsRunnable(skill)
        /\ skill \in Skills /\ values \in Given
        /\ outcome = "bound" <=> WhyUnbound(skill, values) = "none"
    BY DEF RunInv
  <2>2. IsRunnable(skill) => skill.lines # None
    BY DEF IsRunnable
  <2>3. WhyUnbound(skill, values) = "none" <=>
          /\ IsRunnable(skill) /\ DOMAIN values \subseteq Names(skill)
          /\ \A i \in DOMAIN skill.parameters :
               skill.parameters[i].required => skill.parameters[i].name \in DOMAIN values
          /\ ~\E p \in DOMAIN Replacements(skill, values) : Replacements(skill, values)[p].literal = None
    BY <2>2 DEF WhyUnbound
  <2>4. IsRunnable(skill) \in BOOLEAN
    BY DEF IsRunnable
  <2> QED BY <2>1, <2>3, <2>4, MisfitOf
<1> QED BY <1>1, RunInvariance, PTL

-----------------------------------------------------------------------------
\* What is put behind a text leaves its first token.
LEMMA FirstStays ==
  \A a, b \in Seq(LiteralToken) : Len(a) = 1 => (a \o b)[1] = a[1] /\ a \o b # <<>>
<1> SUFFICES ASSUME NEW a \in Seq(LiteralToken), NEW b \in Seq(LiteralToken), Len(a) = 1
             PROVE  (a \o b)[1] = a[1] /\ a \o b # <<>>
  OBVIOUS
<1>1. /\ Len(a \o b) = Len(a) + Len(b) /\ Len(b) \in Nat
      /\ \A i \in 1..(Len(a) + Len(b)) : (a \o b)[i] = IF i <= Len(a) THEN a[i] ELSE b[i - Len(a)]
  <2>1. \A s, t \in Seq(LiteralToken) :
          /\ Len(s \o t) = Len(s) + Len(t) /\ Len(t) \in Nat
          /\ \A i \in 1..(Len(s) + Len(t)) : (s \o t)[i] = IF i <= Len(s) THEN s[i] ELSE t[i - Len(s)]
    BY ConcatProperties
  <2> QED BY <2>1
<1>2. 1 \in 1..(Len(a) + Len(b)) /\ 1 <= Len(a) /\ Len(a) + Len(b) # 0
  BY <1>1
<1>3. (a \o b)[1] = a[1]
  BY <1>1, <1>2
<1>4. a \o b # <<>>
  BY <1>1, <1>2
<1> QED BY <1>3, <1>4

\* A value that becomes a literal becomes tokens, and an array keeps its type.
LEMMA LiteralTokens ==
  ASSUME NEW line \in TemplateLine, line.type # "code", line.init # <<>>, BindableKind(line) # None,
         NEW declaration, declaration.kind = BindableKind(line), declaration.init = line.init,
         NEW v \in Values, ToLiteral(declaration, v) # None
  PROVE  /\ ToLiteral(declaration, v) \in Seq(LiteralToken)
         /\ line.init[1][1] = "new" => /\ ToLiteral(declaration, v) # <<>>
                                       /\ ToLiteral(declaration, v)[1] = line.init[1]
<1>1. CASE line.init[1][1] # "new"
  <2>1. declaration.kind # "tuple-array" /\ declaration.kind \in ScalarKinds
    BY <1>1, BindableOf DEF ScalarKinds
  <2>2. ToLiteral(declaration, v) = <<ScalarLiteral(declaration.kind, v)>>
        /\ ScalarLiteral(declaration.kind, v) # None
    BY <2>1 DEF ToLiteral
  <2>3. v \in Scalar
    <3>1. ScalarLiteral(declaration.kind, v) = None \/ v[1] \notin {"array", "object"}
      BY DEF ScalarLiteral
    <3> QED BY <2>2, <3>1, BindingAssumption DEF IsRow
  <2>4. ScalarLiteral(declaration.kind, v) \in ScalarKinds \X Int
    BY <2>1, <2>2, <2>3, ScalarFits
  <2>5. ScalarLiteral(declaration.kind, v) \in LiteralToken
    BY <2>4 DEF LiteralToken, InitToken
  <2> QED BY <1>1, <2>2, <2>5, OneToken
<1>2. CASE line.init[1][1] = "new"
  <2> DEFINE elements == line.init[1][2]
             rows == [i \in DOMAIN v[2] |-> RowLiteral(elements, v[2][i])]
  <2>1. /\ declaration.kind = "tuple-array" /\ elements \in Seq(Element)
        /\ \A e \in DOMAIN elements : elements[e].kind \in ScalarKinds
        /\ Len(line.init) = 1
    BY <1>2, BindableOf
  <2>2. v[1] = "array"
    BY <2>1 DEF ToLiteral
  <2>3. /\ DOMAIN v[2] = 1..Len(v[2]) /\ Len(v[2]) \in Nat
        /\ \A i \in DOMAIN v[2] : IsRow(v[2][i])
    BY <2>2, BindingAssumption
  <2>4. /\ ToLiteral(declaration, v) = line.init \o rows
        /\ \A i \in DOMAIN rows : rows[i] # None
    BY <2>1, <2>2 DEF ToLiteral
  <2>5. \A i \in 1..Len(v[2]) : rows[i] = RowLiteral(elements, v[2][i]) /\ rows[i] # None
    BY <2>3, <2>4
  <2> HIDE DEF elements
  <2>6. \A i \in 1..Len(v[2]) : RowLiteral(elements, v[2][i]) \in {"row"} \X Seq(Scalar)
    BY <2>1, <2>3, <2>5, RowLiteralOf
  <2>7. \A i \in 1..Len(v[2]) : rows[i] \in LiteralToken
    BY <2>5, <2>6 DEF LiteralToken
  <2>8. rows \in Seq(LiteralToken)
    <3>1. rows \in [1..Len(v[2]) -> LiteralToken]
      <4>1. rows = [i \in 1..Len(v[2]) |-> rows[i]]
        BY <2>3
      <4> HIDE DEF rows
      <4> QED BY <2>7, <4>1
    <3> HIDE DEF rows
    <3> QED BY <2>3, <3>1, SeqDef
  <2>9. line.init \in Seq(LiteralToken)
    BY DEF TemplateLine, LiteralToken
  <2> HIDE DEF rows
  <2>10. line.init \o rows \in Seq(LiteralToken)
    BY <2>8, <2>9, ConcatProperties
  <2>11. (line.init \o rows)[1] = line.init[1] /\ line.init \o rows # <<>>
    BY <2>1, <2>8, <2>9, FirstStays
  <2> QED BY <2>4, <2>10, <2>11
<1> QED BY <1>1, <1>2

\* An initialiser further down starts further right.
LEMMA StartsGrow ==
  ASSUME NEW lines \in Seq(AnyLine), NEW i \in 1..Len(lines), NEW j \in 1..Len(lines), i < j
  PROVE  /\ Len(Text(SubSeq(lines, 1, i - 1))) \in Nat
         /\ Len(Text(SubSeq(lines, 1, i - 1))) < Len(Text(SubSeq(lines, 1, j - 1)))
<1> DEFINE n == Len(lines)
<1>1. PICK f : IsTextOf(f, lines)
  BY TextExists
<1>2. n \in Nat /\ i \in Nat /\ j \in Nat /\ i - 1 \in 0..n /\ j - 1 \in 0..n
  OBVIOUS
<1>3. Text(SubSeq(lines, 1, i - 1)) = f[i - 1] /\ Text(SubSeq(lines, 1, j - 1)) = f[j - 1]
  BY <1>1, <1>2, TextIs
<1>4. \A k \in 0..n : f[k] \in Seq(TextToken)
  BY <1>1 DEF IsTextOf
<1>5. ASSUME NEW k \in 1..n PROVE Len(f[k - 1]) < Len(f[k])
  <2>1. k - 1 \in 0..n
    BY <1>2
  <2>2. f[k - 1] \in Seq(TextToken) /\ LineText(lines[k]) \in Seq(TextToken)
    <3>1. lines[k] \in AnyLine /\ k \in 0..n
      BY <1>2
    <3> QED BY <1>4, <2>1, <3>1, LineTextOf
  <2>3. Len(LineText(lines[k])) >= 1
    <3>1. CASE lines[k].type = "code"
      BY <3>1 DEF LineText
    <3>2. CASE lines[k].type # "code"
      <4>1. lines[k] \in AnyLine
        OBVIOUS
      <4>2. /\ LineText(lines[k]) = (Left(lines[k]) \o lines[k].init) \o << <<";">> >>
            /\ Left(lines[k]) \in Seq(TextToken) /\ Len(Left(lines[k])) = 2
            /\ lines[k].init \in Seq(TextToken) /\ << <<";">> >> \in Seq(TextToken)
        BY <3>2, <4>1, LineTextOf
      <4> DEFINE a == Left(lines[k])
                 b == lines[k].init
                 c == << <<";">> >>
      <4>3. a \in Seq(TextToken) /\ b \in Seq(TextToken) /\ c \in Seq(TextToken) /\ Len(a) = 2
        BY <4>2
      <4>5. LineText(lines[k]) = (a \o b) \o c
        BY <4>2
      <4> HIDE DEF a, b, c
      <4>4. Len((a \o b) \o c) = Len(a) + Len(b) + Len(c) /\ Len(b) \in Nat /\ Len(c) \in Nat
        <5>1. \A x, y, z \in Seq(TextToken) :
                 /\ Len((x \o y) \o z) = Len(x) + Len(y) + Len(z)
                 /\ Len(y) \in Nat /\ Len(z) \in Nat
          BY CutOf
        <5> QED BY <4>3, <5>1
      <4> QED BY <4>3, <4>4, <4>5
    <3> QED BY <3>1, <3>2
  <2>4. f[k] = f[k - 1] \o LineText(lines[k])
    BY <1>1 DEF IsTextOf
  <2>5. Len(f[k]) = Len(f[k - 1]) + Len(LineText(lines[k]))
    BY <2>2, <2>4, ConcatProperties
  <2>6. Len(f[k - 1]) \in Nat /\ Len(LineText(lines[k])) \in Nat
    BY <2>2
  <2> DEFINE x == Len(f[k - 1])
             y == Len(LineText(lines[k]))
  <2>7. x \in Nat /\ y \in Nat /\ y >= 1 /\ Len(f[k]) = x + y
    BY <2>3, <2>5, <2>6
  <2> HIDE DEF x, y
  <2>8. x < Len(f[k])
    BY <2>7
  <2> QED BY <2>8 DEF x
<1> DEFINE T == {k \in Nat : i + k <= n => Len(f[i - 1]) < Len(f[i + k])}
<1>6. 0 \in T
  BY <1>2, <1>5
<1>7. ASSUME NEW k \in T PROVE k + 1 \in T
  <2> SUFFICES ASSUME i + (k + 1) <= n PROVE Len(f[i - 1]) < Len(f[i + (k + 1)])
    OBVIOUS
  <2>1. /\ i + (k + 1) \in 1..n /\ (i + (k + 1)) - 1 = i + k /\ i + k <= n
        /\ i + k \in 0..n /\ i + (k + 1) \in 0..n
    BY <1>2
  <2>2. Len(f[i - 1]) < Len(f[i + k])
    BY <2>1
  <2>3. Len(f[i + k]) < Len(f[i + (k + 1)])
    BY <1>5, <2>1
  <2>4. Len(f[i - 1]) \in Nat /\ Len(f[i + k]) \in Nat /\ Len(f[i + (k + 1)]) \in Nat
    BY <1>2, <1>4, <2>1
  <2> QED BY <2>2, <2>3, <2>4
<1>8. T = Nat
  <2> HIDE DEF T
  <2>1. T \in SUBSET Nat
    BY DEF T
  <2> QED BY <1>6, <1>7, <2>1, AllNumbers
<1>9. Len(f[i - 1]) < Len(f[j - 1])
  <2>1. (j - 1) - i \in Nat /\ i + ((j - 1) - i) = j - 1 /\ j - 1 <= n
    BY <1>2
  <2> QED BY <1>8, <2>1
<1>10. Len(f[i - 1]) \in Nat
  BY <1>2, <1>4
<1> QED BY <1>3, <1>9, <1>10

\* The lines once the initialisers of the first k of some lines are exchanged.
Exchanged(lines, L, inits, k) ==
  [i \in 1..Len(lines) |-> IF \E j \in 1..k : L[j] = i
                           THEN [lines[i] EXCEPT !.init = inits[i]] ELSE lines[i]]

\* r replaces the initialisers of the lines L by those given, from the right.
ReplacesAt(r, n, lines, L, inits) ==
  /\ n \in Nat /\ L \in [1..n -> 1..Len(lines)]
  /\ \A k, l \in 1..n : k < l => L[l] < L[k]
  /\ \A k \in 1..n : /\ lines[L[k]].type # "code"
                     /\ r[k].start = Len(Text(SubSeq(lines, 1, L[k] - 1))) + 2
                     /\ r[k].end = r[k].start + Len(lines[L[k]].init)
                     /\ r[k].literal = inits[L[k]] /\ r[k].literal \in Seq(LiteralToken)

\* What is exchanged so far is lines of the same kind.
LEMMA ExchangedIs ==
  ASSUME NEW lines \in Seq(AnyLine), NEW r, NEW n, NEW L, NEW inits,
         ReplacesAt(r, n, lines, L, inits), NEW k \in 0..n
  PROVE  Exchanged(lines, L, inits, k) \in Seq(AnyLine) /\ Len(Exchanged(lines, L, inits, k)) = Len(lines)
<1> DEFINE E == Exchanged(lines, L, inits, k)
<1>1. Len(lines) \in Nat /\ \A i \in 1..Len(lines) : lines[i] \in AnyLine
  OBVIOUS
<1>2. ASSUME NEW i \in 1..Len(lines), NEW j \in 1..k, L[j] = i
      PROVE  [lines[i] EXCEPT !.init = inits[i]] \in AnyLine
  <2>1. j \in 1..n
    BY DEF ReplacesAt
  <2>2. inits[i] \in Seq(LiteralToken)
    BY <1>2, <2>1 DEF ReplacesAt
  <2> QED BY <1>1, <2>2 DEF AnyLine
<1>3. \A i \in 1..Len(lines) :
        (IF \E j \in 1..k : L[j] = i THEN [lines[i] EXCEPT !.init = inits[i]] ELSE lines[i]) \in AnyLine
  BY <1>1, <1>2
<1>4. E \in [1..Len(lines) -> AnyLine]
  BY <1>3 DEF Exchanged
<1> HIDE DEF E
<1>5. E \in Seq(AnyLine) /\ Len(E) = Len(lines)
  <2>1. DOMAIN E = 1..Len(lines)
    BY <1>4
  <2>2. E \in Seq(AnyLine)
    BY <1>1, <1>4, SeqDef
  <2> QED BY <1>1, <2>1, <2>2, LenProperties
<1> QED BY <1>5 DEF E

\* One replacement exchanges the initialiser of its line.
LEMMA SpliceExchanges ==
  ASSUME NEW lines \in Seq(AnyLine), NEW r, NEW n, NEW L, NEW inits,
         ReplacesAt(r, n, lines, L, inits), NEW k \in 1..n
  PROVE  Splice(Text(Exchanged(lines, L, inits, k - 1)), r[k]) = Text(Exchanged(lines, L, inits, k))
<1> DEFINE before == Exchanged(lines, L, inits, k - 1)
           after == Exchanged(lines, L, inits, k)
           i == L[k]
           m == Len(lines)
<1>1. /\ n \in Nat /\ k - 1 \in 0..n /\ k \in 0..n /\ m \in Nat /\ i \in 1..m
      /\ \A j \in 1..(k - 1) : j \in 1..n /\ j < k
      /\ \A j \in 1..k : j = k \/ j \in 1..(k - 1)
      /\ k \in 1..k /\ \A j \in 1..(k - 1) : j \in 1..k
  BY DEF ReplacesAt
<1>2. /\ before \in Seq(AnyLine) /\ Len(before) = m
      /\ after \in Seq(AnyLine) /\ Len(after) = m
  BY <1>1, ExchangedIs
<1>3. \A j \in 1..(k - 1) : L[j] \in Int /\ i < L[j]
  BY <1>1 DEF ReplacesAt
<1>4. \A x \in 1..m : x <= i => before[x] = lines[x]
  <2> SUFFICES ASSUME NEW x \in 1..m, x <= i PROVE before[x] = lines[x]
    OBVIOUS
  <2>1. ~\E j \in 1..(k - 1) : L[j] = x
    BY <1>1, <1>3
  <2> QED BY <2>1 DEF Exchanged
<1>5. after[i] = [lines[i] EXCEPT !.init = inits[i]]
  <2>1. \E j \in 1..k : L[j] = i
    BY <1>1
  <2> QED BY <1>1, <2>1 DEF Exchanged
<1>6. \A x \in 1..m : x # i => after[x] = before[x]
  <2> SUFFICES ASSUME NEW x \in 1..m, x # i PROVE after[x] = before[x]
    OBVIOUS
  <2>1. (\E j \in 1..k : L[j] = x) <=> (\E j \in 1..(k - 1) : L[j] = x)
    BY <1>1
  <2> QED BY <2>1 DEF Exchanged
<1> HIDE DEF before, after
<1>7. SubSeq(before, 1, i - 1) = SubSeq(lines, 1, i - 1)
  <2> DEFINE p == SubSeq(before, 1, i - 1)
             q == SubSeq(lines, 1, i - 1)
  <2>1. i - 1 \in 0..m /\ \A x \in 1..(i - 1) : x \in 1..m /\ x <= i
    BY <1>1
  <2>2. /\ p \in Seq(AnyLine) /\ Len(p) = i - 1 /\ \A x \in 1..(i - 1) : p[x] = before[x]
        /\ q \in Seq(AnyLine) /\ Len(q) = i - 1 /\ \A x \in 1..(i - 1) : q[x] = lines[x]
    BY <1>1, <1>2, <2>1
  <2> HIDE DEF p, q, i
  <2>3. p = q
    BY <1>4, <2>1, <2>2, SeqEqual
  <2> QED BY <2>3 DEF p, q
<1>8. before[i] = lines[i]
  BY <1>1, <1>4
<1>9. /\ before[i].type # "code" /\ r[k].start = Len(Text(SubSeq(before, 1, i - 1))) + 2
      /\ r[k].end = r[k].start + Len(before[i].init) /\ r[k].literal \in Seq(LiteralToken)
      /\ r[k].literal = inits[i]
  BY <1>7, <1>8 DEF ReplacesAt
<1> DEFINE changed == [before EXCEPT ![i] = [before[i] EXCEPT !.init = r[k].literal]]
<1>10. changed \in Seq(AnyLine) /\ Splice(Text(before), r[k]) = Text(changed)
  <2>1. i \in 1..Len(before)
    BY <1>1, <1>2
  <2> HIDE DEF i
  <2> QED BY <1>2, <1>9, <2>1, SpliceIs
<1>11. changed = after
  <2>1. Len(changed) = m /\ \A x \in 1..m : changed[x] = after[x]
    <3>1. DOMAIN before = 1..m
      BY <1>2
    <3> QED BY <1>1, <1>5, <1>6, <1>8, <1>9, <3>1, <1>2, <1>10
  <2> HIDE DEF changed
  <2> QED BY <1>2, <1>10, <2>1, SeqEqual
<1> QED BY <1>10, <1>11 DEF before, after

\* The text after n replacements, as Bound has it.
Spliced(lines, r, n) ==
  (CHOOSE bound : bound = [k \in 0..n |-> IF k = 0 THEN Text(lines)
                                          ELSE Splice(bound[k - 1], r[k])])[n]

\* The splices, one after another, exchange all the initialisers.
LEMMA SplicesExchange ==
  ASSUME NEW lines \in Seq(AnyLine), NEW r, NEW n, NEW L, NEW inits,
         ReplacesAt(r, n, lines, L, inits)
  PROVE  Spliced(lines, r, n) = Text(Exchanged(lines, L, inits, n))
<1> DEFINE Binds(b) == b = [k \in 0..n |-> IF k = 0 THEN Text(lines) ELSE Splice(b[k - 1], r[k])]
           W == [k \in 0..n |-> Text(Exchanged(lines, L, inits, k))]
<1>1. n \in Nat /\ 0 \in 0..n /\ n \in 0..n
  BY DEF ReplacesAt
<1>2. Exchanged(lines, L, inits, 0) = lines
  <2>1. \A i \in 1..Len(lines) : Exchanged(lines, L, inits, 0)[i] = lines[i]
    BY DEF Exchanged
  <2>2. /\ Exchanged(lines, L, inits, 0) \in Seq(AnyLine)
        /\ Len(Exchanged(lines, L, inits, 0)) = Len(lines)
    BY <1>1, ExchangedIs
  <2> QED BY <2>1, <2>2, SeqEqual
<1>3. \A k \in 1..n : k - 1 \in 0..n /\ k \in 0..n /\ k # 0
  BY <1>1
<1>4. Binds(W)
  <2>1. \A k \in 0..n : W[k] = Text(Exchanged(lines, L, inits, k))
    OBVIOUS
  <2>2. W = [k \in 0..n |-> W[k]]
    OBVIOUS
  <2> HIDE DEF W
  <2>3. ASSUME NEW k \in 0..n
        PROVE  W[k] = IF k = 0 THEN Text(lines) ELSE Splice(W[k - 1], r[k])
    <3>1. CASE k = 0
      BY <1>1, <1>2, <2>1, <3>1
    <3>2. CASE k # 0
      <4>1. k \in 1..n /\ k - 1 \in 0..n
        BY <1>1, <3>2
      <4> QED BY <2>1, <3>2, <4>1, SpliceExchanges
    <3> QED BY <3>1, <3>2
  <2> QED BY <2>2, <2>3
<1>5. PICK b : b = (CHOOSE x : Binds(x)) /\ Binds(b)
  BY <1>4
<1> DEFINE T == {k \in Nat : k \in 0..n => b[k] = Text(Exchanged(lines, L, inits, k))}
<1>6. 0 \in T
  BY <1>1, <1>2, <1>5
<1>7. ASSUME NEW k \in T PROVE k + 1 \in T
  <2> SUFFICES ASSUME k + 1 \in 0..n PROVE b[k + 1] = Text(Exchanged(lines, L, inits, k + 1))
    OBVIOUS
  <2>1. k \in 0..n /\ k + 1 \in 1..n /\ (k + 1) - 1 = k /\ k + 1 # 0
    BY <1>1
  <2>2. b[k + 1] = Splice(b[k], r[k + 1])
    BY <1>5, <2>1
  <2>3. b[k] = Text(Exchanged(lines, L, inits, k))
    BY <2>1
  <2> HIDE DEF T
  <2> QED BY <2>1, <2>2, <2>3, SpliceExchanges
<1>8. T = Nat
  <2> HIDE DEF T
  <2>1. T \in SUBSET Nat
    BY DEF T
  <2> QED BY <1>6, <1>7, <2>1, AllNumbers
<1>9. b[n] = Text(Exchanged(lines, L, inits, n))
  BY <1>1, <1>8
<1> QED BY <1>5, <1>9 DEF Spliced

-----------------------------------------------------------------------------
\* A skill lists each of its parameters once.
ListedOnce ==
  \A s \in Skills : \A p, q \in DOMAIN s.parameters :
    s.parameters[p].name = s.parameters[q].name => p = q

\* The template with the initialisers of the variables that are given exchanged.
WithValues(s, taken) ==
  [i \in DOMAIN s.lines |->
     IF \E name \in DOMAIN taken : IsFor(s.lines[i], name)
     THEN [s.lines[i] EXCEPT
             !.init = ToLiteral(FindDeclaration(s.lines, s.lines[i].name), taken[s.lines[i].name])]
     ELSE s.lines[i]]

\* A template is made of lines whose initialisers may be literals.
LEMMA TemplateIs ==
  ASSUME NEW lines \in Seq(TemplateLine)
  PROVE  lines \in Seq(AnyLine)
<1>1. TemplateLine \subseteq AnyLine
  <2> SUFFICES ASSUME NEW line \in TemplateLine PROVE line \in AnyLine
    OBVIOUS
  <2>1. line.init \in Seq(LiteralToken)
    BY SeqMonotonic DEF TemplateLine, LiteralToken
  <2> QED BY <2>1 DEF TemplateLine, AnyLine
<1> QED BY <1>1, SeqMonotonic

\* The text before a line has a length.
LEMMA StartIsNat ==
  ASSUME NEW lines \in Seq(AnyLine), NEW i \in 1..Len(lines)
  PROVE  Len(Text(SubSeq(lines, 1, i - 1))) \in Nat
<1>1. PICK f : IsTextOf(f, lines)
  BY TextExists
<1>2. i - 1 \in 0..Len(lines)
  OBVIOUS
<1>3. f[i - 1] \in Seq(TextToken)
  BY <1>1, <1>2 DEF IsTextOf
<1> QED BY <1>1, <1>2, <1>3, TextIs

\* The text of a run is that of the template with initialisers exchanged.
LEMMA BoundIs ==
  ASSUME ListedOnce, NEW s \in Skills, NEW taken \in Given,
         IsRunnable(s), DOMAIN taken \subseteq Names(s),
         ~\E p \in DOMAIN Replacements(s, taken) : Replacements(s, taken)[p].literal = None
  PROVE  Bound(s, taken) = Text(WithValues(s, taken))
<1> DEFINE R == Replacements(s, taken)
           D == DOMAIN R
           lines == s.lines
           IsOf(p, i) ==
             /\ IsFor(lines[i], s.parameters[p].name)
             /\ \A j \in DOMAIN lines : IsFor(lines[j], s.parameters[p].name) => j = i
             /\ BindableKind(lines[i]) # None
             /\ R[p].start = Len(Text(SubSeq(lines, 1, i - 1))) + 2
             /\ R[p].end = R[p].start + Len(lines[i].init)
             /\ R[p].literal = ToLiteral(FindDeclaration(lines, s.parameters[p].name), taken[s.parameters[p].name])
             /\ FindDeclaration(lines, s.parameters[p].name).kind = BindableKind(lines[i])
             /\ FindDeclaration(lines, s.parameters[p].name).init = lines[i].init
           LineFor == [p \in D |-> CHOOSE i \in DOMAIN lines : IsOf(p, i)]
           inits == [i \in DOMAIN lines |->
                       ToLiteral(FindDeclaration(lines, lines[i].name), taken[lines[i].name])]
<1>1. lines # None /\ lines \in Seq(TemplateLine) /\ lines \in Seq(AnyLine)
      /\ DOMAIN lines = 1..Len(lines) /\ Len(lines) \in Nat
  <2>1. lines # None
    BY DEF IsRunnable
  <2>2. lines \in Seq(TemplateLine)
    BY <2>1, BindingAssumption
  <2> QED BY <2>1, <2>2, TemplateIs
<1>2. /\ D = {p \in DOMAIN s.parameters : s.parameters[p].name \in DOMAIN taken}
      /\ D \subseteq DOMAIN s.parameters /\ D \subseteq Int /\ IsFiniteSet(D)
  <2>1. D = {p \in DOMAIN s.parameters : s.parameters[p].name \in DOMAIN taken}
    BY DEF Replacements
  <2>2. DOMAIN s.parameters = 1..Len(s.parameters) /\ Len(s.parameters) \in Nat
    BY BindingAssumption
  <2>3. IsFiniteSet(DOMAIN s.parameters)
    BY <2>2, FS_Interval
  <2> HIDE DEF R
  <2> QED BY <2>1, <2>2, <2>3, FS_Subset
<1>3. \A p \in D : \E i \in DOMAIN lines : IsOf(p, i)
  <2> SUFFICES ASSUME NEW p \in D PROVE \E i \in DOMAIN lines : IsOf(p, i)
    OBVIOUS
  <2>1. p \in DOMAIN s.parameters /\ s.parameters[p].name \in DOMAIN taken
    BY <1>2
  <2> QED BY <2>1, ReplacementOf
<1>4. \A p \in D : R[p].literal # None
  OBVIOUS
<1> HIDE DEF R
<1>5. \A p \in D : LineFor[p] \in DOMAIN lines /\ IsOf(p, LineFor[p])
  <2> HIDE DEF IsOf
  <2> QED BY <1>3
<1> HIDE DEF LineFor
<1>6. \A p \in D : /\ lines[LineFor[p]].type # "code"
                   /\ lines[LineFor[p]].name = s.parameters[p].name
                   /\ R[p].literal = inits[LineFor[p]]
  BY <1>5 DEF IsFor
<1>7. \A p \in D : R[p].literal \in Seq(LiteralToken)
  <2> SUFFICES ASSUME NEW p \in D PROVE R[p].literal \in Seq(LiteralToken)
    OBVIOUS
  <2> DEFINE i == LineFor[p]
             name == s.parameters[p].name
             declaration == FindDeclaration(lines, name)
  <2>1. i \in DOMAIN lines /\ lines[i].type # "code"
    BY <1>5, <1>6
  <2>2. lines[i] \in TemplateLine /\ lines[i].init # <<>>
    BY <1>1, <2>1, LineOf
  <2>3. /\ BindableKind(lines[i]) # None /\ declaration.kind = BindableKind(lines[i])
        /\ declaration.init = lines[i].init /\ R[p].literal = ToLiteral(declaration, taken[name])
    BY <1>5
  <2>4. taken[name] \in Values
    BY <1>2 DEF Given
  <2> HIDE DEF declaration, name, i
  <2> QED BY <1>4, <2>1, <2>2, <2>3, <2>4, LiteralTokens
<1>8. \A p, q \in D : p # q => LineFor[p] # LineFor[q]
  <2> SUFFICES ASSUME NEW p \in D, NEW q \in D, LineFor[p] = LineFor[q] PROVE p = q
    OBVIOUS
  <2>1. p \in DOMAIN s.parameters /\ q \in DOMAIN s.parameters
    BY <1>2
  <2>2. s.parameters[p].name = s.parameters[q].name
    BY <1>6
  <2> QED BY <2>1, <2>2 DEF ListedOnce
<1>9. \A p \in D : LineFor[p] \in 1..Len(lines) /\ R[p].start \in Int
                   /\ R[p].start = Len(Text(SubSeq(lines, 1, LineFor[p] - 1))) + 2
  <2> SUFFICES ASSUME NEW p \in D
               PROVE  LineFor[p] \in 1..Len(lines) /\ R[p].start \in Int
                      /\ R[p].start = Len(Text(SubSeq(lines, 1, LineFor[p] - 1))) + 2
    OBVIOUS
  <2>1. LineFor[p] \in 1..Len(lines) /\ R[p].start = Len(Text(SubSeq(lines, 1, LineFor[p] - 1))) + 2
    BY <1>1, <1>5
  <2>2. Len(Text(SubSeq(lines, 1, LineFor[p] - 1))) \in Nat
    BY <1>1, <2>1, StartIsNat
  <2> QED BY <2>1, <2>2
<1>10. \A p, q \in D : R[p].start >= R[q].start => LineFor[p] >= LineFor[q]
  <2> SUFFICES ASSUME NEW p \in D, NEW q \in D, R[p].start >= R[q].start, LineFor[p] < LineFor[q]
               PROVE  FALSE
    BY <1>9
  <2>1. /\ Len(Text(SubSeq(lines, 1, LineFor[p] - 1))) \in Nat
        /\ Len(Text(SubSeq(lines, 1, LineFor[p] - 1))) < Len(Text(SubSeq(lines, 1, LineFor[q] - 1)))
    BY <1>1, <1>9, StartsGrow
  <2>2. Len(Text(SubSeq(lines, 1, LineFor[q] - 1))) \in Nat
    BY <1>1, <1>9, StartIsNat
  <2> QED BY <1>9, <2>1, <2>2
<1>11. PICK q \in [1..Cardinality(D) -> D] :
         /\ Cardinality(D) \in Nat
         /\ InOrder(R) = [k \in 1..Cardinality(D) |-> R[q[k]]]
         /\ \A p \in D : \E k \in 1..Cardinality(D) : q[k] = p
         /\ \A k, l \in 1..Cardinality(D) : k # l => q[k] # q[l]
         /\ \A k, l \in 1..Cardinality(D) : k < l => R[q[k]].start >= R[q[l]].start
  BY <1>2, <1>9, InOrderOf
<1> DEFINE n == Cardinality(D)
           r == InOrder(R)
           L == [k \in 1..n |-> LineFor[q[k]]]
<1>12. n \in Nat /\ Len(r) = n
  <2>1. n \in Nat /\ r = [k \in 1..n |-> R[q[k]]]
    BY <1>11
  <2> HIDE DEF n
  <2> QED BY <2>1
<1>13. \A k \in 1..n : /\ q[k] \in D /\ r[k] = R[q[k]] /\ L[k] = LineFor[q[k]]
                       /\ L[k] \in 1..Len(lines)
  BY <1>9, <1>11
<1>14. \A k, l \in 1..n : k < l => L[l] < L[k]
  <2> SUFFICES ASSUME NEW k \in 1..n, NEW l \in 1..n, k < l PROVE L[l] < L[k]
    OBVIOUS
  <2>1. q[k] \in D /\ q[l] \in D /\ q[k] # q[l]
    <3>1. k # l
      BY <1>12
    <3> QED BY <1>11, <1>13, <3>1
  <2>2. R[q[k]].start >= R[q[l]].start
    BY <1>11
  <2>3. LineFor[q[k]] >= LineFor[q[l]] /\ LineFor[q[k]] # LineFor[q[l]]
    BY <1>8, <1>10, <2>1, <2>2
  <2>4. LineFor[q[k]] \in 1..Len(lines) /\ LineFor[q[l]] \in 1..Len(lines)
    BY <1>9, <2>1
  <2>5. L[k] = LineFor[q[k]] /\ L[l] = LineFor[q[l]]
    BY <1>13
  <2> QED BY <2>3, <2>4, <2>5
<1>15. ReplacesAt(r, n, lines, L, inits)
  <2>1. L \in [1..n -> 1..Len(lines)]
    BY <1>13
  <2>2. \A k \in 1..n : /\ lines[L[k]].type # "code"
                        /\ r[k].start = Len(Text(SubSeq(lines, 1, L[k] - 1))) + 2
                        /\ r[k].end = r[k].start + Len(lines[L[k]].init)
                        /\ r[k].literal = inits[L[k]] /\ r[k].literal \in Seq(LiteralToken)
    <3> SUFFICES ASSUME NEW k \in 1..n
                 PROVE  /\ lines[L[k]].type # "code"
                        /\ r[k].start = Len(Text(SubSeq(lines, 1, L[k] - 1))) + 2
                        /\ r[k].end = r[k].start + Len(lines[L[k]].init)
                        /\ r[k].literal = inits[L[k]] /\ r[k].literal \in Seq(LiteralToken)
      OBVIOUS
    <3>1. q[k] \in D /\ r[k] = R[q[k]] /\ L[k] = LineFor[q[k]]
      BY <1>13
    <3> HIDE DEF r, L, D, inits, n
    <3> QED BY <1>5, <1>6, <1>7, <3>1
  <2> HIDE DEF r, L, n
  <2> QED BY <1>12, <1>14, <2>1, <2>2 DEF ReplacesAt
<1>16. Bound(s, taken) = Text(Exchanged(lines, L, inits, n))
  <2>1. Spliced(lines, r, n) = Text(Exchanged(lines, L, inits, n))
    <3> HIDE DEF r, L, n, inits
    <3> QED BY <1>1, <1>15, SplicesExchange
  <2>2. Bound(s, taken) = Spliced(lines, r, Len(r))
    BY DEF Bound, Spliced, R
  <2> HIDE DEF r, L, n, inits
  <2> QED BY <1>12, <2>1, <2>2
<1>17. \A i \in DOMAIN lines :
         (\E k \in 1..n : L[k] = i) <=> (\E name \in DOMAIN taken : IsFor(lines[i], name))
  <2> SUFFICES ASSUME NEW i \in DOMAIN lines
               PROVE  (\E k \in 1..n : L[k] = i) <=> (\E name \in DOMAIN taken : IsFor(lines[i], name))
    OBVIOUS
  <2>1. ASSUME NEW k \in 1..n, L[k] = i PROVE \E name \in DOMAIN taken : IsFor(lines[i], name)
    <3>1. q[k] \in D /\ LineFor[q[k]] = i
      BY <1>13, <2>1
    <3> QED BY <1>2, <1>5, <3>1
  <2>2. ASSUME NEW name \in DOMAIN taken, IsFor(lines[i], name) PROVE \E k \in 1..n : L[k] = i
    <3>1. PICK p \in DOMAIN s.parameters : s.parameters[p].name = name
      BY DEF Names
    <3>2. p \in D
      BY <1>2, <3>1
    <3>3. LineFor[p] = i
      BY <1>5, <2>2, <3>1, <3>2
    <3>4. PICK k \in 1..n : q[k] = p
      BY <1>11, <3>2
    <3> QED BY <1>13, <3>3, <3>4
  <2> QED BY <2>1, <2>2
<1>18. Exchanged(lines, L, inits, n) = WithValues(s, taken)
  <2>1. \A i \in DOMAIN lines :
          inits[i] = ToLiteral(FindDeclaration(lines, lines[i].name), taken[lines[i].name])
    OBVIOUS
  <2> HIDE DEF inits, L, n
  <2> QED BY <1>1, <1>17, <2>1 DEF Exchanged, WithValues
<1> QED BY <1>16, <1>18

\* The text of a bound skill is that of its template with the initialisers of
\* the variables that are given exchanged, and nothing else: for every template,
\* however long the literals are and in whatever order lines and parameters come,
\* provided that a skill lists each parameter once.
THEOREM OnlyInitialisersAreReplaced ==
  ASSUME ListedOnce
  PROVE  BindingSpec => []OnlyInitialisersChange
<1>1. RunInv => OnlyInitialisersChange
  <2> SUFFICES ASSUME RunInv, outcome = "bound"
               PROVE  code = Text(WithValues(skill, values))
    BY DEF OnlyInitialisersChange, WithValues
  <2>1. /\ skill \in Skills /\ values \in Given
        /\ WhyUnbound(skill, values) = "none" /\ code = Bound(skill, values)
    BY DEF RunInv
  <2>2. /\ IsRunnable(skill) /\ DOMAIN values \subseteq Names(skill)
        /\ ~\E p \in DOMAIN Replacements(skill, values) : Replacements(skill, values)[p].literal = None
    BY <2>1 DEF WhyUnbound
  <2> QED BY <2>1, <2>2, BoundIs
<1> QED BY <1>1, RunInvariance, PTL

\* What a text and another after it are together.
LEMMA Together ==
  \A s, t \in Seq(TextToken) :
    /\ s \o t \in Seq(TextToken) /\ Len(s) \in Nat /\ Len(t) \in Nat
    /\ Len(s \o t) = Len(s) + Len(t)
    /\ \A y \in 1..(Len(s) + Len(t)) : (s \o t)[y] = IF y <= Len(s) THEN s[y] ELSE t[y - Len(s)]
BY ConcatProperties

\* A line begins with its type, the name it declares and the initialiser, and
\* has a name nowhere else.
LEMMA LineTokens ==
  ASSUME NEW line \in AnyLine
  PROVE  /\ Len(LineText(line)) \in Nat
         /\ line.type # "code" =>
              /\ LineText(line)[1] = <<line.type>> /\ LineText(line)[2] = <<"name", line.name>>
              /\ Len(LineText(line)) >= 3
              /\ line.init # <<>> => LineText(line)[3] = line.init[1]
         /\ \A y \in 1..Len(LineText(line)), nm \in STRING :
              LineText(line)[y] = <<"name", nm>> => y = 2 /\ line.type # "code" /\ line.name = nm
<1>1. CASE line.type = "code"
  <2>1. LineText(line) = << <<"code">> >>
    BY <1>1 DEF LineText
  <2>2. \A nm : <<"name", nm>> # <<"code">>
    OBVIOUS
  <2> QED BY <1>1, <2>1, <2>2
<1>2. CASE line.type # "code"
  <2> DEFINE a == Left(line)
             b == line.init
             c == << <<";">> >>
             t == LineText(line)
  <2>1. /\ a \in Seq(TextToken) /\ Len(a) = 2 /\ b \in Seq(TextToken) /\ c \in Seq(TextToken)
        /\ t = (a \o b) \o c
    BY <1>2, LineTextOf
  <2>2. a[1] = <<line.type>> /\ a[2] = <<"name", line.name>> /\ Len(c) = 1 /\ c[1] = <<";">>
    BY DEF Left
  <2>3. b \in Seq(LiteralToken)
    BY DEF AnyLine
  <2>4. b # <<>> => Len(b) >= 1 /\ b[1] \in LiteralToken
    BY <2>3
  <2>5. \A x \in LiteralToken, nm \in STRING : x # <<"name", nm>>
    BY DEF LiteralToken, InitToken, ScalarKinds
  <2>6. \A k \in 1..Len(b) : b[k] \in LiteralToken
    BY <2>3
  <2>7. \A nm \in STRING : <<";">> # <<"name", nm>> /\ <<line.type>> # <<"name", nm>>
    OBVIOUS
  <2> HIDE DEF a, b, c, t
  <2>8. a \o b \in Seq(TextToken) /\ Len(a \o b) = 2 + Len(b) /\ Len(b) \in Nat
        /\ \A k \in 1..(2 + Len(b)) : (a \o b)[k] = IF k <= 2 THEN a[k] ELSE b[k - 2]
    <3>1. /\ a \o b \in Seq(TextToken) /\ Len(b) \in Nat /\ Len(a \o b) = Len(a) + Len(b)
          /\ \A k \in 1..(Len(a) + Len(b)) : (a \o b)[k] = IF k <= Len(a) THEN a[k] ELSE b[k - Len(a)]
      <4>1. a \in Seq(TextToken) /\ b \in Seq(TextToken)
        BY <2>1
      <4> QED BY <4>1, Together
    <3>2. Len(a) = 2
      BY <2>1
    <3> QED BY <3>1, <3>2
  <2>9. /\ Len(t) = 3 + Len(b)
        /\ \A k \in 1..(3 + Len(b)) : t[k] = IF k <= 2 + Len(b) THEN (a \o b)[k] ELSE c[k - (2 + Len(b))]
    <3> DEFINE d == a \o b
    <3>1. d \in Seq(TextToken) /\ Len(d) = 2 + Len(b) /\ t = d \o c
      BY <2>1, <2>8
    <3> HIDE DEF d
    <3>2. /\ Len(t) = Len(d) + Len(c)
          /\ \A k \in 1..(Len(d) + Len(c)) : t[k] = IF k <= Len(d) THEN d[k] ELSE c[k - Len(d)]
      <4>1. d \in Seq(TextToken) /\ c \in Seq(TextToken)
        BY <2>1, <3>1
      <4>2. /\ Len(d \o c) = Len(d) + Len(c)
            /\ \A k \in 1..(Len(d) + Len(c)) : (d \o c)[k] = IF k <= Len(d) THEN d[k] ELSE c[k - Len(d)]
        BY <4>1, Together
      <4> QED BY <3>1, <4>2
    <3>4. Len(b) \in Nat /\ Len(c) = 1
      BY <2>2, <2>8
    <3>3. Len(d) + Len(c) = 3 + Len(b)
      BY <3>1, <3>4
    <3> QED BY <3>1, <3>2, <3>3 DEF d
  <2>10. t[1] = a[1] /\ t[2] = a[2] /\ Len(t) \in Nat /\ Len(t) >= 3
    BY <2>8, <2>9
  <2>11. b # <<>> => t[3] = b[1]
    <3> SUFFICES ASSUME b # <<>> PROVE t[3] = b[1]
      OBVIOUS
    <3>1. 3 \in 1..(2 + Len(b)) /\ 3 \in 1..(3 + Len(b)) /\ 3 - 2 = 1
      BY <2>4, <2>8
    <3> QED BY <2>8, <2>9, <3>1
  <2>12. ASSUME NEW y \in 1..Len(t), NEW nm \in STRING, t[y] = <<"name", nm>>
         PROVE  y = 2 /\ line.name = nm
    <3>1. CASE y <= 2
      <4>1. y = 1 \/ y = 2
        BY <2>8, <2>9, <3>1
      <4>2. y # 1
        BY <2>2, <2>7, <2>10, <2>12
      <4>3. t[2] = <<"name", line.name>>
        BY <2>2, <2>10
      <4> QED BY <2>12, <4>1, <4>2, <4>3
    <3>2. CASE y > 2 /\ y <= 2 + Len(b)
      <4>1. y \in 1..(2 + Len(b)) /\ y - 2 \in 1..Len(b) /\ y \in 1..(3 + Len(b)) /\ ~(y <= 2)
        BY <2>8, <2>9, <3>2
      <4>2. t[y] = b[y - 2]
        BY <2>8, <2>9, <3>2, <4>1
      <4> QED BY <2>5, <2>6, <2>12, <4>1, <4>2
    <3>3. CASE y > 2 + Len(b)
      <4>1. y - (2 + Len(b)) = 1 /\ y \in 1..(3 + Len(b)) /\ ~(y <= 2 + Len(b))
        BY <2>8, <2>9, <3>3
      <4>2. t[y] = c[1]
        BY <2>9, <4>1
      <4> QED BY <2>2, <2>7, <2>12, <4>2
    <3> QED BY <2>8, <2>9, <3>1, <3>2, <3>3
  <2> QED BY <1>2, <2>2, <2>10, <2>11, <2>12 DEF a, b, t
<1> QED BY <1>1, <1>2

\* Where a line has its name in the text.
NameAt(f, text, lines, i, x) ==
  /\ lines[i].type # "code" /\ x = Len(f[i - 1]) + 2 /\ x >= 2 /\ x + 1 <= Len(text)
  /\ text[x - 1] = <<lines[i].type>> /\ text[x] = <<"name", lines[i].name>>
  /\ lines[i].init # <<>> => text[x + 1] = lines[i].init[1]

\* Every declaration has its name in the text, and a name is that of a declaration.
LEMMA NamesOf ==
  ASSUME NEW lines \in Seq(AnyLine), NEW f, IsTextOf(f, lines)
  PROVE  LET text == f[Len(lines)]
         IN /\ \A i \in 1..Len(lines) :
                 lines[i].type # "code" => NameAt(f, text, lines, i, Len(f[i - 1]) + 2)
            /\ \A x \in 1..Len(text), nm \in STRING :
                 text[x] = <<"name", nm>> =>
                   \E i \in 1..Len(lines) : NameAt(f, text, lines, i, x) /\ lines[i].name = nm
<1> DEFINE n == Len(lines)
           Placed(k) == \A i \in 1..k : lines[i].type # "code" => NameAt(f, f[k], lines, i, Len(f[i - 1]) + 2)
           Known(k) == \A x \in 1..Len(f[k]), nm \in STRING :
                         f[k][x] = <<"name", nm>> =>
                           \E i \in 1..k : NameAt(f, f[k], lines, i, x) /\ lines[i].name = nm
           T == {k \in Nat : k <= n => Placed(k) /\ Known(k)}
<1>1. n \in Nat /\ \A k \in 1..n : lines[k] \in AnyLine
  OBVIOUS
<1>2. \A k \in 0..n : f[k] \in Seq(TextToken) /\ Len(f[k]) \in Nat
  BY DEF IsTextOf
<1>3. 0 \in T
  BY DEF IsTextOf
<1>4. ASSUME NEW k \in T PROVE k + 1 \in T
  <2> SUFFICES ASSUME k + 1 <= n PROVE Placed(k + 1) /\ Known(k + 1)
    OBVIOUS
  <2>1. Placed(k) /\ Known(k)
    BY <1>1
  <2>2. k + 1 \in 1..n /\ (k + 1) - 1 = k /\ k \in 0..n /\ k + 1 \in 0..n
    BY <1>1
  <2> DEFINE s == f[k]
             t == LineText(lines[k + 1])
             u == f[k + 1]
  <2>3. s \in Seq(TextToken) /\ t \in Seq(TextToken) /\ u = s \o t /\ Len(s) \in Nat /\ Len(t) \in Nat
    <3>1. t \in Seq(TextToken)
      BY <1>1, <2>2, LineTextOf
    <3>2. u = f[(k + 1) - 1] \o t
      BY <2>2 DEF IsTextOf
    <3>3. u = s \o t
      BY <2>2, <3>2
    <3>4. s \in Seq(TextToken) /\ Len(s) \in Nat /\ u \in Seq(TextToken)
      BY <1>2, <2>2
    <3> HIDE DEF s, t, u
    <3> QED BY <3>1, <3>3, <3>4
  <2>4. /\ Len(u) = Len(s) + Len(t)
        /\ \A y \in 1..(Len(s) + Len(t)) : u[y] = IF y <= Len(s) THEN s[y] ELSE t[y - Len(s)]
    <3> HIDE DEF s, t, u
    <3> QED BY <2>3, ConcatProperties
  <2>5. ASSUME NEW i \in 1..k, NEW x, NameAt(f, s, lines, i, x), x \in Int
        PROVE  NameAt(f, u, lines, i, x)
    <3> HIDE DEF s, t, u
    <3>0. x >= 2 /\ x + 1 <= Len(s) /\ x \in Int
      BY <2>5 DEF NameAt
    <3>3. Len(s) \in Nat /\ Len(t) \in Nat /\ Len(u) = Len(s) + Len(t)
      BY <2>3, <2>4
    <3>1. x - 1 \in 1..Len(s) /\ x \in 1..Len(s) /\ x + 1 \in 1..Len(s) /\ x + 1 <= Len(u)
      BY <3>0, <3>3
    <3>2. u[x - 1] = s[x - 1] /\ u[x] = s[x] /\ u[x + 1] = s[x + 1]
      <4>1. \A y \in 1..Len(s) : u[y] = s[y]
        BY <2>3, <2>4
      <4> QED BY <3>1, <4>1
    <3> QED BY <2>5, <3>1, <3>2 DEF NameAt
  <2>6. ASSUME lines[k + 1].type # "code"
        PROVE  NameAt(f, u, lines, k + 1, Len(s) + 2)
    <3> DEFINE line == lines[k + 1]
    <3>1. /\ t[1] = <<line.type>> /\ t[2] = <<"name", line.name>> /\ Len(t) >= 3
          /\ line.init # <<>> => t[3] = line.init[1]
      BY <1>1, <2>2, <2>6, LineTokens
    <3>4. f[(k + 1) - 1] = s
      BY <2>2
    <3> HIDE DEF s, t, u
    <3>2. /\ u[Len(s) + 1] = t[1] /\ u[Len(s) + 2] = t[2] /\ u[Len(s) + 3] = t[3]
          /\ Len(s) + 3 <= Len(u)
      <4>1. \A y \in 1..Len(t) : u[Len(s) + y] = t[y]
        <5> SUFFICES ASSUME NEW y \in 1..Len(t) PROVE u[Len(s) + y] = t[y]
          OBVIOUS
        <5>1. Len(s) + y \in 1..(Len(s) + Len(t)) /\ ~(Len(s) + y <= Len(s)) /\ (Len(s) + y) - Len(s) = y
          BY <2>3
        <5> QED BY <2>4, <5>1
      <4>2. 1 \in 1..Len(t) /\ 2 \in 1..Len(t) /\ 3 \in 1..Len(t)
        BY <2>3, <3>1
      <4> QED BY <2>3, <2>4, <3>1, <4>1, <4>2
    <3>3. (Len(s) + 2) - 1 = Len(s) + 1 /\ (Len(s) + 2) + 1 = Len(s) + 3 /\ Len(s) + 2 >= 2
      BY <2>3
    <3> QED BY <2>6, <3>1, <3>2, <3>3, <3>4 DEF NameAt
  <2>7. Placed(k + 1)
    <3> SUFFICES ASSUME NEW i \in 1..(k + 1), lines[i].type # "code"
                 PROVE  NameAt(f, u, lines, i, Len(f[i - 1]) + 2)
      OBVIOUS
    <3>1. CASE i = k + 1
      <4>1. f[i - 1] = s
        BY <2>2, <3>1
      <4> QED BY <2>6, <3>1, <4>1
    <3>2. CASE i # k + 1
      <4>1. i \in 1..k /\ i - 1 \in 0..n
        BY <1>1, <3>2
      <4>2. NameAt(f, s, lines, i, Len(f[i - 1]) + 2)
        BY <2>1, <4>1
      <4>3. Len(f[i - 1]) + 2 \in Int
        BY <1>2, <4>1
      <4> HIDE DEF s, u
      <4> QED BY <2>5, <4>1, <4>2, <4>3
    <3> QED BY <3>1, <3>2
  <2>8. Known(k + 1)
    <3> SUFFICES ASSUME NEW x \in 1..Len(u), NEW nm \in STRING, u[x] = <<"name", nm>>
                 PROVE  \E i \in 1..(k + 1) : NameAt(f, u, lines, i, x) /\ lines[i].name = nm
      OBVIOUS
    <3>1. CASE x <= Len(s)
      <4>1. x \in 1..Len(s) /\ u[x] = s[x]
        <5> HIDE DEF s, t, u
        <5> QED BY <2>3, <2>4, <3>1
      <4>2. PICK i \in 1..k : NameAt(f, s, lines, i, x) /\ lines[i].name = nm
        BY <2>1, <4>1
      <4>3. NameAt(f, u, lines, i, x)
        <5> HIDE DEF s, t, u
        <5> QED BY <2>5, <4>2
      <4>4. i \in 1..(k + 1)
        OBVIOUS
      <4> QED BY <4>2, <4>3, <4>4
    <3>2. CASE ~(x <= Len(s))
      <4> DEFINE y == x - Len(s)
      <4>1. y \in 1..Len(t) /\ u[x] = t[y] /\ x = Len(s) + y
        <5> HIDE DEF s, t, u
        <5> QED BY <2>3, <2>4, <3>2
      <4>2. y = 2 /\ lines[k + 1].type # "code" /\ lines[k + 1].name = nm
        <5>1. lines[k + 1] \in AnyLine
          BY <1>1, <2>2
        <5>2. t[y] = <<"name", nm>>
          <6> HIDE DEF s, t, u, y
          <6> QED BY <4>1
        <5> DEFINE line == lines[k + 1]
        <5>3. line \in AnyLine /\ y \in 1..Len(LineText(line)) /\ LineText(line)[y] = <<"name", nm>>
          BY <4>1, <5>1, <5>2
        <5> HIDE DEF y, line
        <5>4. y = 2 /\ line.type # "code" /\ line.name = nm
          BY <5>3, LineTokens
        <5> QED BY <5>4 DEF line
      <4>3. NameAt(f, u, lines, k + 1, x)
        <5> HIDE DEF s, t, u, y
        <5> QED BY <2>6, <4>1, <4>2
      <4>4. k + 1 \in 1..(k + 1)
        OBVIOUS
      <4> QED BY <4>2, <4>3, <4>4
    <3> QED BY <3>1, <3>2
  <2> QED BY <2>7, <2>8
<1>5. T = Nat
  <2> HIDE DEF T
  <2>1. T \in SUBSET Nat
    BY DEF T
  <2> QED BY <1>3, <1>4, <2>1, AllNumbers
<1>6. Placed(n) /\ Known(n)
  BY <1>1, <1>5
<1> QED BY <1>6

\* A whole number that a template gives a variable without a type is an int.
DefaultsFit ==
  \A s \in Skills : s.lines # None =>
    \A i \in DOMAIN s.lines :
      s.lines[i].type = "var" /\ s.lines[i].init[1][1] = "int" =>
        s.lines[i].init[1][2] \in (-IntMax - 1)..IntMax

\* A literal has the kind of its variable and the value given, and an array keeps its type.
LEMMA LiteralIs ==
  ASSUME NEW line \in TemplateLine, line.type # "code", line.init # <<>>, BindableKind(line) # None,
         NEW declaration, declaration.kind = BindableKind(line), declaration.init = line.init,
         NEW v \in Values, ToLiteral(declaration, v) # None
  PROVE  LET literal == ToLiteral(declaration, v)
         IN /\ literal # <<>>
            /\ \/ /\ BindableKind(line) \in ScalarKinds
                  /\ BindableKind(line) = IF line.type = "var" THEN line.init[1][1] ELSE line.type
                  /\ literal[1][1] = BindableKind(line) /\ literal[1][2] = v[2]
                  /\ literal[1][1] = "int" => literal[1][2] \in (-IntMax - 1)..IntMax
               \/ line.type = "var" /\ literal[1] = line.init[1] /\ literal[1][1] = "new"
<1> DEFINE literal == ToLiteral(declaration, v)
           kind == BindableKind(line)
<1>1. CASE line.init[1][1] # "new"
  <2>1. /\ kind \in ScalarKinds /\ kind # "tuple-array"
        /\ kind = IF line.type = "var" THEN line.init[1][1] ELSE line.type
    BY <1>1, BindableOf DEF ScalarKinds
  <2>2. literal = <<ScalarLiteral(kind, v)>> /\ ScalarLiteral(kind, v) # None
    BY <2>1 DEF ToLiteral
  <2> HIDE DEF literal, kind
  <2>3. /\ ScalarLiteral(kind, v)[1] = kind /\ ScalarLiteral(kind, v)[2] = v[2]
        /\ kind = "int" => v[2] \in (-IntMax - 1)..IntMax
    BY <2>1, <2>2 DEF ScalarLiteral, ScalarKinds
  <2>4. literal # <<>> /\ literal[1] = ScalarLiteral(kind, v)
    BY <2>2
  <2> QED BY <2>1, <2>3, <2>4 DEF literal, kind
<1>2. CASE line.init[1][1] = "new"
  <2>1. line.type = "var" /\ kind = "tuple-array" /\ Len(line.init) = 1
    BY <1>2, BindableOf
  <2>2. literal # <<>> /\ literal[1] = line.init[1]
    BY <1>2, LiteralTokens
  <2> QED BY <1>2, <2>1, <2>2
<1> QED BY <1>1, <1>2

\* The literal that a declaration is given.
LEMMA GivenIs ==
  ASSUME NEW s \in Skills, NEW taken \in Given,
         IsRunnable(s), DOMAIN taken \subseteq Names(s),
         ~\E p \in DOMAIN Replacements(s, taken) : Replacements(s, taken)[p].literal = None,
         NEW i \in DOMAIN s.lines, NEW name \in DOMAIN taken, IsFor(s.lines[i], name)
  PROVE  LET declaration == FindDeclaration(s.lines, name)
         IN /\ s.lines[i] \in TemplateLine /\ s.lines[i].type # "code" /\ s.lines[i].init # <<>>
            /\ s.lines[i].name = name /\ name \in STRING /\ taken[name] \in Values
            /\ BindableKind(s.lines[i]) # None
            /\ declaration.kind = BindableKind(s.lines[i]) /\ declaration.init = s.lines[i].init
            /\ ToLiteral(declaration, taken[name]) # None
<1>1. s.lines # None
  BY DEF IsRunnable
<1>2. PICK p \in DOMAIN s.parameters : s.parameters[p].name = name
  BY DEF Names
<1>3. p \in DOMAIN Replacements(s, taken)
  BY <1>2 DEF Replacements
<1>4. PICK j \in DOMAIN s.lines :
        /\ \A k \in DOMAIN s.lines : IsFor(s.lines[k], name) => k = j
        /\ BindableKind(s.lines[j]) # None
        /\ Replacements(s, taken)[p].literal = ToLiteral(FindDeclaration(s.lines, name), taken[name])
        /\ FindDeclaration(s.lines, name).kind = BindableKind(s.lines[j])
        /\ FindDeclaration(s.lines, name).init = s.lines[j].init
  BY <1>2, ReplacementOf
<1>5. j = i
  BY <1>4
<1>6. s.lines[i].type # "code" /\ s.lines[i].name = name
  BY DEF IsFor
<1>7. s.lines[i] \in TemplateLine /\ s.lines[i].init # <<>>
  BY <1>1, <1>6, LineOf
<1>8. name \in STRING
  BY <1>6, <1>7 DEF TemplateLine
<1>9. taken[name] \in Values
  BY DEF Given
<1> QED BY <1>3, <1>4, <1>5, <1>6, <1>7, <1>8, <1>9

\* The lines of a run declare what those of the template do.
LEMMA WithValuesIs ==
  ASSUME NEW s \in Skills, NEW taken \in Given,
         IsRunnable(s), DOMAIN taken \subseteq Names(s),
         ~\E p \in DOMAIN Replacements(s, taken) : Replacements(s, taken)[p].literal = None
  PROVE  /\ s.lines \in Seq(AnyLine)
         /\ WithValues(s, taken) \in Seq(AnyLine) /\ Len(WithValues(s, taken)) = Len(s.lines)
         /\ \A i \in 1..Len(s.lines) :
              /\ WithValues(s, taken)[i].type = s.lines[i].type
              /\ WithValues(s, taken)[i].name = s.lines[i].name
              /\ \A name \in DOMAIN taken :
                   IsFor(s.lines[i], name) =>
                     WithValues(s, taken)[i].init = ToLiteral(FindDeclaration(s.lines, name), taken[name])
<1> DEFINE lines == s.lines
           W == WithValues(s, taken)
           literal(i) == ToLiteral(FindDeclaration(lines, lines[i].name), taken[lines[i].name])
<1>1. lines \in Seq(TemplateLine) /\ lines \in Seq(AnyLine)
  <2>1. lines # None
    BY DEF IsRunnable
  <2>2. lines \in Seq(TemplateLine)
    BY <2>1, BindingAssumption
  <2> QED BY <2>2, TemplateIs
<1>2. /\ Len(lines) \in Nat /\ DOMAIN lines = 1..Len(lines)
      /\ \A i \in 1..Len(lines) : lines[i] \in AnyLine
  BY <1>1
<1>3. ASSUME NEW i \in 1..Len(lines), NEW name \in DOMAIN taken, IsFor(lines[i], name)
      PROVE  name = lines[i].name /\ literal(i) \in Seq(LiteralToken)
  <2> DEFINE declaration == FindDeclaration(lines, name)
  <2>1. /\ lines[i] \in TemplateLine /\ lines[i].type # "code" /\ lines[i].init # <<>>
        /\ lines[i].name = name /\ taken[name] \in Values
        /\ BindableKind(lines[i]) # None
        /\ declaration.kind = BindableKind(lines[i]) /\ declaration.init = lines[i].init
        /\ ToLiteral(declaration, taken[name]) # None
    BY <1>2, <1>3, GivenIs
  <2> HIDE DEF declaration
  <2>2. ToLiteral(declaration, taken[name]) \in Seq(LiteralToken)
    BY <2>1, LiteralTokens
  <2> QED BY <2>1, <2>2 DEF declaration
<1>4. \A i \in 1..Len(lines) :
        W[i] = IF \E name \in DOMAIN taken : IsFor(lines[i], name)
               THEN [lines[i] EXCEPT !.init = literal(i)] ELSE lines[i]
  BY <1>2 DEF WithValues
<1>5. DOMAIN W = 1..Len(lines) /\ W = [i \in 1..Len(lines) |-> W[i]]
  BY <1>2 DEF WithValues
<1> HIDE DEF W, lines, literal
<1>6. ASSUME NEW i \in 1..Len(lines)
      PROVE  /\ W[i] \in AnyLine /\ W[i].type = lines[i].type /\ W[i].name = lines[i].name
             /\ \A name \in DOMAIN taken :
                  IsFor(lines[i], name) => name = lines[i].name /\ W[i].init = literal(i)
  <2>1. CASE \E name \in DOMAIN taken : IsFor(lines[i], name)
    <3>1. literal(i) \in Seq(LiteralToken) /\ \A name \in DOMAIN taken : IsFor(lines[i], name) => name = lines[i].name
      BY <1>3, <2>1
    <3>2. W[i] = [lines[i] EXCEPT !.init = literal(i)] /\ lines[i] \in AnyLine
      BY <1>2, <1>4, <2>1
    <3> QED BY <3>1, <3>2 DEF AnyLine
  <2>2. CASE ~\E name \in DOMAIN taken : IsFor(lines[i], name)
    BY <1>2, <1>4, <2>2
  <2> QED BY <2>1, <2>2
<1>7. W \in Seq(AnyLine) /\ Len(W) = Len(lines)
  <2>1. W \in [1..Len(lines) -> AnyLine]
    BY <1>5, <1>6
  <2>2. W \in Seq(AnyLine)
    BY <1>2, <2>1, SeqDef
  <2> QED BY <1>2, <1>5, <2>2, LenProperties
<1> QED BY <1>1, <1>6, <1>7 DEF W, lines, literal

\* A variable that is given a value keeps its type, and its literal holds the value.
LEMMA KeptIs ==
  ASSUME DefaultsFit, NEW s \in Skills, NEW taken \in Given,
         IsRunnable(s), DOMAIN taken \subseteq Names(s),
         ~\E p \in DOMAIN Replacements(s, taken) : Replacements(s, taken)[p].literal = None,
         NEW text, text = Text(WithValues(s, taken)),
         NEW name \in DOMAIN taken, NEW x \in 2..Len(text), x \in Declares(text, name)
  PROVE  /\ \E y \in Declares(Text(s.lines), name) : VariableType(text, x) = VariableType(Text(s.lines), y)
         /\ Assignable(text, x)
         /\ text[x + 1][1] # "new" => text[x + 1][2] = taken[name][2]
<1> DEFINE lines == s.lines
           W == WithValues(s, taken)
           template == Text(lines)
           n == Len(lines)
<1>1. /\ lines \in Seq(AnyLine) /\ W \in Seq(AnyLine) /\ Len(W) = n /\ n \in Nat
      /\ \A i \in 1..n : W[i].type = lines[i].type /\ W[i].name = lines[i].name
      /\ \A i \in 1..n, nm \in DOMAIN taken :
           IsFor(lines[i], nm) => W[i].init = ToLiteral(FindDeclaration(lines, nm), taken[nm])
  BY WithValuesIs
<1> HIDE DEF W, lines
<1>2. PICK f : IsTextOf(f, W)
  BY <1>1, TextExists
<1>3. PICK g : IsTextOf(g, lines)
  BY <1>1, TextExists
<1>4. text = f[n] /\ template = g[n]
  <2>1. SubSeq(W, 1, n) = W /\ SubSeq(lines, 1, n) = lines
    BY <1>1, SubSeqFull
  <2>2. n \in 0..Len(W) /\ n \in 0..Len(lines)
    BY <1>1
  <2>3. Text(SubSeq(W, 1, n)) = f[n] /\ Text(SubSeq(lines, 1, n)) = g[n]
    <3> HIDE DEF n
    <3> QED BY <1>1, <1>2, <1>3, <2>2, TextIs
  <2> QED BY <2>1, <2>3 DEF W, lines
<1>5. text[x] = <<"name", name>> /\ Len(text) \in Nat /\ x \in 1..Len(text)
  <2>1. f[n] \in Seq(TextToken)
    BY <1>1, <1>2 DEF IsTextOf
  <2> QED BY <1>4, <2>1 DEF Declares
<1>6. name \in STRING
  <2>1. PICK p \in DOMAIN s.parameters : s.parameters[p].name = name
    BY DEF Names
  <2>2. s.parameters \in Seq([name : STRING, required : BOOLEAN])
    BY BindingAssumption
  <2> DEFINE ps == s.parameters
             P == [name : STRING, required : BOOLEAN]
  <2>3. ps \in Seq(P) /\ p \in DOMAIN ps
    BY <2>1, <2>2
  <2>4. \A q \in P : q.name \in STRING
    OBVIOUS
  <2>5. ps[p].name = name
    BY <2>1
  <2> HIDE DEF ps, P
  <2>6. ps[p] \in P
    BY <2>3
  <2> QED BY <2>4, <2>5, <2>6
<1>7. PICK i \in 1..n : NameAt(f, text, W, i, x) /\ W[i].name = name
  <2>1. \A z \in 1..Len(f[Len(W)]), nm \in STRING :
          f[Len(W)][z] = <<"name", nm>> =>
            \E i \in 1..Len(W) : NameAt(f, f[Len(W)], W, i, z) /\ W[i].name = nm
    <3>1. W \in Seq(AnyLine) /\ IsTextOf(f, W)
      BY <1>1, <1>2
    <3> HIDE DEF n
    <3> QED BY <3>1, NamesOf
  <2>2. Len(W) = n /\ f[Len(W)] = text
    BY <1>1, <1>4
  <2> HIDE DEF n
  <2> QED BY <1>5, <1>6, <2>1, <2>2
<1>8. IsFor(lines[i], name) /\ lines[i] \in AnyLine
  BY <1>1, <1>7 DEF IsFor, NameAt
<1> DEFINE line == lines[i]
           declaration == FindDeclaration(lines, name)
           literal == ToLiteral(declaration, taken[name])
           y == Len(g[i - 1]) + 2
<1>9. /\ line \in TemplateLine /\ line.type # "code" /\ line.init # <<>>
      /\ line.name = name /\ taken[name] \in Values /\ BindableKind(line) # None
      /\ declaration.kind = BindableKind(line) /\ declaration.init = line.init
      /\ literal # None
  <2>1. i \in DOMAIN lines
    BY <1>1
  <2> QED BY <1>8, <2>1, GivenIs DEF lines
<1> HIDE DEF line, template
<1>10. NameAt(g, template, lines, i, y)
  BY <1>1, <1>3, <1>4, <1>9, NamesOf DEF line
<1>11. W[i].init = literal /\ W[i].type = line.type
  BY <1>1, <1>8 DEF line
<1> HIDE DEF declaration, y, n
<1>12. /\ literal # <<>>
       /\ \/ /\ BindableKind(line) \in ScalarKinds
             /\ BindableKind(line) = IF line.type = "var" THEN line.init[1][1] ELSE line.type
             /\ literal[1][1] = BindableKind(line) /\ literal[1][2] = taken[name][2]
             /\ literal[1][1] = "int" => literal[1][2] \in (-IntMax - 1)..IntMax
          \/ line.type = "var" /\ literal[1] = line.init[1] /\ literal[1][1] = "new"
  BY <1>9, LiteralIs
<1> HIDE DEF literal
<1>13. text[x - 1] = <<line.type>> /\ text[x + 1] = literal[1]
  BY <1>7, <1>11, <1>12 DEF NameAt
<1>14. /\ template[y - 1] = <<line.type>> /\ template[y + 1] = line.init[1]
       /\ template[y] = <<"name", name>> /\ y >= 2 /\ y + 1 <= Len(template)
  BY <1>9, <1>10 DEF NameAt, line
<1>15. line.type \in ScalarKinds \cup {"var"}
  BY <1>9 DEF TemplateLine
<1>16. y \in 2..Len(template)
  <2>1. g[i - 1] \in Seq(TextToken) /\ template \in Seq(TextToken)
    <3>1. i - 1 \in 0..n /\ n \in 0..n
      BY <1>1 DEF n
    <3> QED BY <1>3, <1>4, <3>1 DEF IsTextOf, n
  <2>2. y \in Int /\ Len(template) \in Nat
    BY <2>1 DEF y
  <2> QED BY <1>14, <2>2
<1>17. y \in Declares(template, name)
  BY <1>14, <1>15, <1>16 DEF Declares
<1>18. line.type = "var" /\ line.init[1][1] = "int" => line.init[1][2] \in (-IntMax - 1)..IntMax
  <2>1. s.lines # None /\ i \in DOMAIN lines
    BY <1>1 DEF IsRunnable, n
  <2> QED BY <2>1 DEF DefaultsFit, lines, line
<1>19. VariableType(text, x) = VariableType(template, y)
  <2>1. CASE line.type # "var"
    BY <1>13, <1>14, <2>1 DEF VariableType
  <2>2. CASE line.type = "var"
    <3>1. VariableType(text, x) = CSharpType(literal[1]) /\ VariableType(template, y) = CSharpType(line.init[1])
      BY <1>13, <1>14, <2>2 DEF VariableType
    <3>2. CSharpType(literal[1]) = literal[1][1] /\ CSharpType(line.init[1]) = line.init[1][1]
      BY <1>12, <1>18, <2>2 DEF CSharpType
    <3>3. literal[1][1] = line.init[1][1]
      BY <1>12, <2>2
    <3> QED BY <3>1, <3>2, <3>3
  <2> QED BY <2>1, <2>2
<1>20. Assignable(text, x)
  <2>1. CASE line.type = "var"
    BY <1>13, <2>1 DEF Assignable
  <2>2. CASE line.type # "var"
    <3>1. literal[1][1] = line.type /\ CSharpType(literal[1]) = line.type
      BY <1>12, <2>2 DEF CSharpType
    <3> QED BY <1>13, <3>1 DEF Assignable
  <2> QED BY <2>1, <2>2
<1>21. text[x + 1][1] # "new" => text[x + 1][2] = taken[name][2]
  BY <1>12, <1>13
<1> QED BY <1>17, <1>19, <1>20, <1>21 DEF template, lines

\* A bound variable keeps its C# type and holds the value it is given, in every
\* template, provided that a skill lists each parameter once and that a whole
\* number a template starts a "var" with fits an int.
THEOREM BoundTypesAreKept ==
  ASSUME ListedOnce, DefaultsFit
  PROVE  BindingSpec => []TypesAreKept
<1>1. RunInv => TypesAreKept
  <2> SUFFICES ASSUME RunInv, outcome = "bound", NEW name \in DOMAIN values,
                      NEW x \in 2..Len(code), x \in Declares(code, name)
               PROVE  /\ \E y \in Declares(Text(skill.lines), name) :
                           VariableType(code, x) = VariableType(Text(skill.lines), y)
                      /\ Assignable(code, x)
                      /\ code[x + 1][1] # "new" => code[x + 1][2] = values[name][2]
    BY DEF TypesAreKept
  <2>1. /\ skill \in Skills /\ values \in Given
        /\ WhyUnbound(skill, values) = "none" /\ code = Bound(skill, values)
    BY DEF RunInv
  <2>2. /\ IsRunnable(skill) /\ DOMAIN values \subseteq Names(skill)
        /\ ~\E p \in DOMAIN Replacements(skill, values) : Replacements(skill, values)[p].literal = None
    BY <2>1 DEF WhyUnbound
  <2>3. code = Text(WithValues(skill, values))
    BY <2>1, <2>2, BoundIs
  <2> QED BY <2>1, <2>2, <2>3, KeptIs
<1> QED BY <1>1, RunInvariance, PTL
=============================================================================
