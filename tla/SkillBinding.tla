------------------------------ MODULE SkillBinding ------------------------------
(***************************************************************************)
(* Running a skill by name: civil3d_skills get tells whether a skill can   *)
(* be run with values for its parameters, and a code tool binds the values *)
(* into the template, by cutting the initialisers out of its text and      *)
(* putting literals in their place.                                        *)
(*                                                                         *)
(* Text is a sequence of tokens, each a tuple that begins with its kind.   *)
(* A line is [type, name, init]: a declaration at the start of a line, or  *)
(* "code".  A value is a tuple that begins with its JSON type: a number is  *)
(* "number" if it is whole, "fraction" or "infinite" else; an array keeps  *)
(* its rows, an object its fields.  A whole number keeps its number; texts *)
(* and fractions have one that tells them apart.                           *)
(***************************************************************************)
EXTENDS Integers, Sequences, FiniteSets, SequencesExt, Option

CONSTANTS
  Skills,    \* skill files: [lines, parameters], lines None without a template
  Values,    \* values a client gives
  IntMax,    \* the largest 32-bit integer
  SafeMax    \* Number.MAX_SAFE_INTEGER

ScalarKinds == {"string", "int", "long", "double", "bool"}

\* A scalar value or literal; what is nested deeper than a row is never looked into.
JsonTypes == {"string", "number", "fraction", "infinite", "bool", "null", "array", "object"}
Scalar == (ScalarKinds \cup JsonTypes) \X Int

\* What an initialiser may hold: literals, an array with its elements, other code.
Element == [kind : STRING, name : STRING]
InitToken == (ScalarKinds \X Int) \cup ({"new"} \X Seq(Element)) \cup {<<"code">>}
LiteralToken == InitToken \cup ({"row"} \X Seq(Scalar))
TemplateLine == [type : ScalarKinds \cup {"var", "code"}, name : STRING, init : Seq(InitToken)]

\* A row of an array, or another value that is none.
IsRow(value) ==
  CASE value[1] = "array" -> value[2] \in Seq(Scalar)
    [] value[1] = "object" -> \A name \in DOMAIN value[2] : value[2][name] \in Scalar
    [] OTHER -> value \in Scalar

ASSUME BindingAssumption ==
  /\ IntMax \in Nat /\ SafeMax \in Nat /\ IntMax < SafeMax
  /\ \A s \in Skills :
       /\ s.lines # None => /\ s.lines \in Seq(TemplateLine)
                            /\ \A i \in DOMAIN s.lines : s.lines[i].type # "code" => s.lines[i].init # <<>>
       /\ s.parameters \in Seq([name : STRING, required : BOOLEAN])
  /\ \A value \in Values :
       IF value[1] = "array"
       THEN /\ Len(value[2]) \in Nat /\ DOMAIN value[2] = 1..Len(value[2])
            /\ \A i \in DOMAIN value[2] : IsRow(value[2][i])
       ELSE IsRow(value)
  /\ None \notin ScalarKinds \cup {"tuple-array"} \cup Scalar \cup Seq(Scalar) \cup LiteralToken \cup Seq(LiteralToken)

VARIABLES
  skill,     \* the file now
  told,      \* the run_by_name a client read, None before
  edited,    \* history: whether the file changed since then
  values,    \* the values of the last run
  outcome,   \* "none", "bound" or why it was refused
  code       \* the text it sends

bindingVars == <<skill, told, edited, values, outcome, code>>

Names(s) == {s.parameters[i].name : i \in DOMAIN s.parameters}

\* The values a client may give: to parameters of this skill or of others.
Given == UNION {[D -> Values] : D \in SUBSET UNION {Names(s) : s \in Skills}}

BindingInit ==
  /\ skill \in Skills /\ told = None /\ edited = FALSE
  /\ values = <<>> /\ outcome = "none" /\ code = <<>>

LineText(line) ==
  IF line.type = "code" THEN << <<"code">> >>
  ELSE << <<line.type>>, <<"name", line.name>> >> \o line.init \o << <<";">> >>

Text(lines) == FlattenSeq([i \in DOMAIN lines |-> LineText(lines[i])])

\* inferScalarKind: the kind of an initialiser that is one literal.
InferScalarKind(init) ==
  IF Len(init) = 1 /\ init[1][1] \in {"string", "int", "double", "bool"} THEN init[1][1] ELSE None

\* An empty array of tuples, with the kind and name of each element.
IsTupleArray(init) ==
  /\ Len(init) = 1 /\ init[1][1] = "new"
  /\ Len(init[1][2]) >= 2
  /\ \A i \in DOMAIN init[1][2] : init[1][2][i].kind \in ScalarKinds

\* The kind of values a declaration takes, None when it is not bindable.
BindableKind(line) ==
  LET literal == InferScalarKind(line.init)
  IN IF line.type # "var"
     THEN IF literal = line.type \/ (literal = "int" /\ line.type \in {"long", "double"})
          THEN line.type ELSE None
     ELSE IF IsTupleArray(line.init) THEN "tuple-array" ELSE literal

\* findDeclaration: None unless the name is declared once, and bindable.
FindDeclaration(lines, name) ==
  LET matches == {i \in DOMAIN lines : lines[i].type # "code" /\ lines[i].name = name}
  IN IF Cardinality(matches) # 1 THEN None
     ELSE LET i == CHOOSE j \in matches : TRUE
              start == Len(Text(SubSeq(lines, 1, i - 1))) + 2
          IN IF BindableKind(lines[i]) = None THEN None
             ELSE [kind |-> BindableKind(lines[i]), init |-> lines[i].init,
                   start |-> start, end |-> start + Len(lines[i].init)]

\* isRunnableByName.
IsRunnable(s) ==
  /\ s.lines # None
  /\ \A name \in Names(s) : FindDeclaration(s.lines, name) # None

\* Faulty variant of ScalarLiteral: a number is written as it is.
ScalarLiteralBare(kind, value) ==
  CASE kind = "string" /\ value[1] = "string" -> value
    [] kind = "bool" /\ value[1] = "bool" -> value
    [] kind \in {"int", "long", "double"} /\ value[1] = "number" -> <<"int", value[2]>>
    [] kind = "double" /\ value[1] = "fraction" -> <<"double", value[2]>>
    [] OTHER -> None

\* scalarLiteral: None when the value does not fit the kind.
ScalarLiteral(kind, value) ==
  CASE kind = "string" /\ value[1] = "string" -> value
    [] kind = "bool" /\ value[1] = "bool" -> value
    [] kind = "int" /\ value[1] = "number" /\ value[2] \in (-IntMax - 1)..IntMax -> <<"int", value[2]>>
    [] kind = "long" /\ value[1] = "number" /\ value[2] \in (-SafeMax)..SafeMax -> <<"long", value[2]>>
    [] kind = "double" /\ value[1] \in {"number", "fraction"} -> <<"double", value[2]>>
    [] OTHER -> None

\* The fields of a row in the order of the elements, None unless it has exactly those.
Fields(elements, row) ==
  CASE row[1] = "array" /\ Len(row[2]) = Len(elements) -> row[2]
    [] /\ row[1] = "object" /\ Cardinality(DOMAIN row[2]) = Len(elements)
       /\ \A i \in DOMAIN elements : elements[i].name \in DOMAIN row[2] ->
         [i \in DOMAIN elements |-> row[2][elements[i].name]]
    [] OTHER -> None

RowLiteral(elements, row) ==
  LET fields == Fields(elements, row)
      literals == [i \in DOMAIN elements |-> ScalarLiteral(elements[i].kind, fields[i])]
  IN IF fields = None \/ \E i \in DOMAIN elements : literals[i] = None THEN None
     ELSE <<"row", literals>>

\* toLiteral: the tokens of a value, None when it is refused.
ToLiteral(declaration, value) ==
  IF declaration.kind # "tuple-array"
  THEN LET literal == ScalarLiteral(declaration.kind, value)
       IN IF literal = None THEN None ELSE <<literal>>
  ELSE IF value[1] # "array" THEN None
       ELSE LET rows == [i \in DOMAIN value[2] |-> RowLiteral(declaration.init[1][2], value[2][i])]
            IN IF \E i \in DOMAIN rows : rows[i] = None THEN None
               ELSE declaration.init \o rows

Splice(text, r) == SubSeq(text, 1, r.start) \o r.literal \o SubSeq(text, r.end + 1, Len(text))

\* The replacements, each at the place of its parameter in the list.
Replacements(s, given) ==
  [p \in {i \in DOMAIN s.parameters : s.parameters[i].name \in DOMAIN given} |->
     LET name == s.parameters[p].name
         declaration == FindDeclaration(s.lines, name)
     IN [start |-> declaration.start, end |-> declaration.end,
         literal |-> ToLiteral(declaration, given[name])]]

\* A replacement comes before those to its left and, the sort being stable,
\* before those of later parameters that start where it starts.
Precedes(r, i, j) == r[i].start > r[j].start \/ (r[i].start = r[j].start /\ i <= j)
Turn(r, i) == Cardinality({j \in DOMAIN r : Precedes(r, j, i)})

\* Faulty variant of InOrder: replaced from the left, which moves the text to the right.
InOrderFromLeft(r) ==
  [k \in 1..Cardinality(DOMAIN r) |->
     r[CHOOSE i \in DOMAIN r : Turn(r, i) = Cardinality(DOMAIN r) + 1 - k]]

\* From the right, so that a replacement leaves the offsets before it alone.
InOrder(r) == [k \in 1..Cardinality(DOMAIN r) |-> r[CHOOSE i \in DOMAIN r : Turn(r, i) = k]]

\* Faulty variant of WhyUnbound: only the parameters given need a declaration.
WhyUnboundLate(s, given) ==
  IF s.lines = None THEN "no template"
  ELSE IF ~(DOMAIN given \subseteq Names(s)) THEN "unknown parameter"
  ELSE IF \E name \in DOMAIN given : FindDeclaration(s.lines, name) = None THEN "not bindable"
  ELSE IF \E i \in DOMAIN s.parameters :
            s.parameters[i].required /\ s.parameters[i].name \notin DOMAIN given THEN "missing"
  ELSE IF \E i \in DOMAIN Replacements(s, given) : Replacements(s, given)[i].literal = None THEN "does not fit"
  ELSE "none"

\* The error bindSkillCode throws, "none" when it binds.
WhyUnbound(s, given) ==
  IF s.lines = None THEN "no template"
  ELSE IF ~(DOMAIN given \subseteq Names(s)) THEN "unknown parameter"
  ELSE IF ~IsRunnable(s) THEN "not bindable"
  ELSE IF \E i \in DOMAIN s.parameters :
            s.parameters[i].required /\ s.parameters[i].name \notin DOMAIN given THEN "missing"
  ELSE IF \E i \in DOMAIN Replacements(s, given) : Replacements(s, given)[i].literal = None THEN "does not fit"
  ELSE "none"

Bound(s, given) ==
  LET r == InOrder(Replacements(s, given))
      bound[k \in 0..Len(r)] == IF k = 0 THEN Text(s.lines) ELSE Splice(bound[k - 1], r[k])
  IN bound[Len(r)]

\* civil3d_skills get.
Get ==
  /\ told' = IsRunnable(skill) /\ edited' = FALSE
  /\ UNCHANGED <<skill, values, outcome, code>>

\* Somebody saves the skill file.
EditSkill ==
  /\ \E s \in Skills : skill' = s
  /\ edited' = TRUE
  /\ UNCHANGED <<told, values, outcome, code>>

\* civil3d_query or civil3d_execute with the skill and values: bindSkillCode.
Bind(given) ==
  /\ outcome = "none"
  /\ values' = given
  /\ LET why == WhyUnbound(skill, given)
     IN IF why = "none" THEN outcome' = "bound" /\ code' = Bound(skill, given)
        ELSE outcome' = why /\ code' = <<>>
  /\ UNCHANGED <<skill, told, edited>>

\* The model follows one run.
BindingNext == \/ outcome = "none" /\ (Get \/ EditSkill)
               \/ \E given \in Given : Bind(given)

BindingSpec == BindingInit /\ [][BindingNext]_bindingVars

-----------------------------------------------------------------------------
(* Properties.                                                             *)

\* The line a value goes to.
IsFor(line, name) == line.type # "code" /\ line.name = name

\* Only initialisers are replaced: the text is that of the template with each
\* declaration's initialiser exchanged on its own line, whatever the lengths
\* and the order of lines and parameters.
OnlyInitialisersChange ==
  outcome = "bound" =>
    code = Text([i \in DOMAIN skill.lines |->
                   IF \E name \in DOMAIN values : IsFor(skill.lines[i], name)
                   THEN [skill.lines[i] EXCEPT
                           !.init = ToLiteral(FindDeclaration(skill.lines, skill.lines[i].name),
                                              values[skill.lines[i].name])]
                   ELSE skill.lines[i]])

\* The type C# gives a token: an integer literal too large for int is a long.
CSharpType(token) ==
  IF token[1] = "int" /\ token[2] \notin (-IntMax - 1)..IntMax THEN "long" ELSE token[1]

\* Where a template declares a variable, and its type there.
Declares(text, name) == {i \in 2..Len(text) : text[i] = <<"name", name>> /\ text[i - 1][1] \in ScalarKinds \cup {"var"}}
VariableType(text, i) == IF text[i - 1][1] = "var" THEN CSharpType(text[i + 1]) ELSE text[i - 1][1]
Assignable(text, i) ==
  LET type == CSharpType(text[i + 1])
  IN \/ text[i - 1][1] \in {"var", type}
     \/ type = "int" /\ text[i - 1][1] \in {"long", "double"}
     \/ type = "long" /\ text[i - 1][1] = "double"

\* A bound variable keeps its C# type, so that the code that was reviewed
\* compiles to the same thing, and its literal holds the value given.
TypesAreKept ==
  outcome = "bound" =>
    \A name \in DOMAIN values, i \in 2..Len(code) :
      i \in Declares(code, name) =>
        /\ \E j \in Declares(Text(skill.lines), name) :
             VariableType(code, i) = VariableType(Text(skill.lines), j)
        /\ Assignable(code, i)
        /\ code[i + 1][1] # "new" => code[i + 1][2] = values[name][2]

\* Values C# can hold in a variable of that kind, told apart from the code.
Fits(kind, value) ==
  CASE kind = "string" -> value[1] = "string"
    [] kind = "bool" -> value[1] = "bool"
    [] kind = "double" -> value[1] \in {"number", "fraction"}
    [] OTHER -> /\ value[1] = "number"
                /\ value[2] <= (IF kind = "int" THEN IntMax ELSE SafeMax)
                /\ value[2] >= -(IF kind = "int" THEN IntMax + 1 ELSE SafeMax)

FitsLine(line, value) ==
  IF line.init[1][1] # "new"
  THEN Fits(IF line.type = "var" THEN line.init[1][1] ELSE line.type, value)
  ELSE /\ value[1] = "array"
       /\ \A r \in DOMAIN value[2] :
            LET row == value[2][r]
                elements == line.init[1][2]
            IN \/ /\ row[1] = "array" /\ Len(row[2]) = Len(elements)
                  /\ \A e \in DOMAIN elements : Fits(elements[e].kind, row[2][e])
               \/ /\ row[1] = "object" /\ Cardinality(DOMAIN row[2]) = Len(elements)
                  /\ \A e \in DOMAIN elements :
                       elements[e].name \in DOMAIN row[2] /\ Fits(elements[e].kind, row[2][elements[e].name])

\* What get tells is what a run does: a skill that can be run by name takes
\* exactly the values that fit its variables, and another one is refused.  A
\* file that was edited since, or that nobody asked about, is judged by what it
\* is at the run, and its values by its own declarations.
RunByNameIsTrue ==
  outcome # "none" =>
    (outcome = "bound") =
      (/\ IF told = None \/ edited THEN IsRunnable(skill) ELSE told
       /\ DOMAIN values \subseteq Names(skill)
       /\ \A i \in DOMAIN skill.parameters :
            skill.parameters[i].required => skill.parameters[i].name \in DOMAIN values
       /\ \A i \in DOMAIN skill.lines, name \in DOMAIN values :
            IsFor(skill.lines[i], name) => FitsLine(skill.lines[i], values[name]))
=============================================================================
