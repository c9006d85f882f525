----------------------------- MODULE SkillCatalog -----------------------------
(***************************************************************************)
(* The list and search actions of civil3d_skills: a client walks the pages *)
(* of a result with the cursor of the page before, while somebody edits    *)
(* the skill files.  The server keeps nothing between two calls: each reads *)
(* the files again, and a cursor is an offset and the filters it is for.   *)
(*                                                                         *)
(* Skills are numbers in the order of sortSkills; a page is a set, since   *)
(* its order is that order.  A category or query stands for its spellings  *)
(* up to case.                                                             *)
(***************************************************************************)
EXTENDS Naturals, FiniteSets, Option

CONSTANTS
  Skill, Category, Query,
  CategoryOf,        \* the category of each skill
  WordsOf,           \* words of its name, description, aliases, tags and parameters
  TokensOf,          \* words of each query
  CursorLength,      \* characters of a cursor with that query
  MaxCursorLength,   \* MAX_CURSOR_LENGTH
  Limit              \* page limits clients use, the default among them

Args == [action : {"list", "search"}, category : Category \cup {None}, query : Query \cup {None}]

\* An offset in the result, and the filters the result is for.
Cursor == [offset : Nat, filters : Args]

ASSUME CatalogAssumption ==
  /\ Skill \subseteq Nat /\ IsFiniteSet(Skill)
  /\ None \notin Category \cup Query /\ None \notin Args /\ None \notin Cursor
  /\ (\A q \in Query : CursorLength[q] \in Nat) /\ MaxCursorLength \in Nat
  /\ Limit \subseteq Nat \ {0}

VARIABLES
  catalog,    \* skills whose file is there and can be parsed
  args,       \* the arguments of the walk, None before it
  cursor,     \* its next cursor, None at its end
  delivered,  \* skills it has been given
  answer,     \* "page", or why the last call was refused
  call,       \* its arguments and cursor
  given,      \* history: how many skills the pages of the walk held
  found,      \* history: the result when the walk began
  added, removed  \* history: whether a file came or went since then

walkVars == <<args, cursor, delivered, found, given>>
catalogVars == <<catalog, walkVars, answer, call, added, removed>>

CatalogInit ==
  /\ catalog \in SUBSET Skill
  /\ args = None /\ cursor = None /\ delivered = {} /\ found = {}
  /\ answer = "none" /\ call = None /\ given = 0
  /\ added = FALSE /\ removed = FALSE

\* The filters a cursor is made for: normalizeCursorFilter; list has no query.
FiltersOf(a) ==
  [action |-> a.action, category |-> a.category,
   query |-> IF a.action = "search" THEN a.query ELSE None]

\* Faulty variant of Filters: whatever query was given is kept.
FiltersAsGiven(a) == a

\* Filters as encodeCursor writes them.
Filters(a) == FiltersOf(a)

\* getSkills: every word of a query occurs, and a query without words finds nothing.
Matches(s, a) ==
  /\ a.category = None \/ CategoryOf[s] = a.category
  /\ a.action = "search" => TokensOf[a.query] # {} /\ TokensOf[a.query] \subseteq WordsOf[s]

Results(a) == {s \in catalog : Matches(s, a)}

\* The place of a skill in the sorted result, from 0.
Rank(s, result) == Cardinality({t \in result : t < s})

\* Faulty variant of NextOffset: one skill is left out between two pages.
NextOffsetBeyond(offset, limit, result) ==
  IF offset + limit + 1 < Cardinality(result) THEN offset + limit + 1 ELSE Cardinality(result)

NextOffset(offset, limit, result) ==
  IF offset + limit < Cardinality(result) THEN offset + limit ELSE Cardinality(result)

\* paginateSkills; seen and count are what the walk was given before.
Page(a, offset, limit, seen, count) ==
  LET result == Results(a)
      next == NextOffset(offset, limit, result)
      page == {s \in result : Rank(s, result) >= offset /\ Rank(s, result) < offset + limit}
  IN /\ answer' = "page"
     /\ delivered' = seen \cup page /\ given' = count + Cardinality(page)
     /\ cursor' = IF next < Cardinality(result) THEN [offset |-> next, filters |-> Filters(a)]
                  ELSE None

Refuse(why) ==
  /\ answer' = why
  /\ UNCHANGED <<walkVars, added, removed>>

\* A call without a cursor begins a walk.
FirstPage(a, limit) ==
  /\ a.action = "search" => a.query # None
  /\ call' = [args |-> a, cursor |-> None]
  /\ args' = a /\ found' = Results(a) /\ added' = FALSE /\ removed' = FALSE
  /\ Page(a, 0, limit, {}, 0)
  /\ UNCHANGED catalog

SameFilters(a, c) == c.filters = FiltersOf(a)

TooLong(c) == c.filters.query # None /\ CursorLength[c.filters.query] > MaxCursorLength

\* A call with the cursor of the page before, and these arguments.
UseCursor(a, limit) ==
  /\ cursor # None
  /\ a.action = "search" => a.query # None
  /\ call' = [args |-> a, cursor |-> cursor]
  /\ IF TooLong(cursor) THEN Refuse("invalid")
     ELSE IF ~SameFilters(a, cursor) THEN Refuse("mismatch")
     ELSE IF cursor.offset >= Cardinality(Results(a)) THEN Refuse("outside")
     ELSE Page(a, cursor.offset, limit, delivered, given) /\ UNCHANGED <<args, found, added, removed>>
  /\ UNCHANGED catalog

\* A search without a query, a limit out of bounds, or a cursor nobody gave out.
RefuseArguments(why) ==
  /\ call' = None
  /\ Refuse(why) /\ UNCHANGED catalog

\* Somebody saves, breaks or deletes a skill file between two calls.
AddSkill(s) ==
  /\ s \notin catalog /\ catalog' = catalog \cup {s}
  /\ added' = TRUE
  /\ UNCHANGED <<walkVars, answer, call, removed>>

RemoveSkill(s) ==
  /\ s \in catalog /\ catalog' = catalog \ {s}
  /\ removed' = TRUE
  /\ UNCHANGED <<walkVars, answer, call, added>>

CatalogNext ==
  \/ \E a \in Args, limit \in Limit : FirstPage(a, limit) \/ UseCursor(a, limit)
  \/ \E why \in {"query", "limit", "invalid"} : RefuseArguments(why)
  \/ \E s \in Skill : AddSkill(s) \/ RemoveSkill(s)

CatalogSpec == CatalogInit /\ [][CatalogNext]_catalogVars

-----------------------------------------------------------------------------
(* Properties.                                                             *)

\* The values every variable keeps; an offset is never past the known skills.
CatalogTypeOK ==
  /\ catalog \subseteq Skill /\ delivered \subseteq Skill /\ given \in Nat
  /\ found \subseteq Skill /\ args \in Args \cup {None}
  /\ cursor # None =>
       /\ cursor.offset \in 1..Cardinality(Skill)
       /\ cursor.filters \in Args /\ args # None
  /\ answer \in {"none", "page", "query", "limit", "invalid", "mismatch", "outside"}
  /\ added \in BOOLEAN /\ removed \in BOOLEAN

Walked == args # None /\ cursor = None

\* A walk over files nobody touches gives the whole result, whatever the limits.
WalkIsComplete == Walked /\ ~added /\ ~removed => delivered = found

\* Files that come during a walk may repeat a skill, but never hide one.
AdditionsHideNothing == Walked /\ ~removed => found \subseteq delivered

\* Files that go during a walk may hide a skill, but never repeat one.
RemovalsRepeatNothing == ~added => given = Cardinality(delivered)

\* A cursor is honoured for the arguments it was given out for; it is out of
\* bounds only if a file went.
CursorIsHonoured ==
  answer \in {"invalid", "mismatch", "outside"} /\ call # None /\ call.args = args
    => answer = "outside" /\ removed

\* A cursor never yields a page of other results than its own.
CursorIsBound ==
  answer = "page" /\ call.cursor # None => FiltersOf(call.args) = call.cursor.filters
=============================================================================
