---------------------------- MODULE MCServerTools ----------------------------
(***************************************************************************)
(* The tools of the MCP server, which share no state: pages of the skill   *)
(* catalogue, the binding of a skill and the code tools.  A behaviour is   *)
(* one of one of them.                                                     *)
(***************************************************************************)
EXTENDS SkillCatalog, SkillBinding, CodeTools, TLC

CONSTANTS surfaces, points, wide, none, long, c1, c2, volumes

-----------------------------------------------------------------------------
(* The catalogue: four skills, some of them of one category, and queries.  *)

CatalogSkills == 1..4
Categories == {surfaces}
CategoriesOf == [s \in CatalogSkills |-> IF s = 3 THEN points ELSE surfaces]
WordsOfSkill == [s \in CatalogSkills |-> IF s = 2 THEN {"road"} ELSE {"road", "surface"}]
Tokens == (wide :> {"road"}) @@ (none :> {}) @@ (long :> {"road", "surface"})
Lengths == (wide :> 120) @@ (none :> 116) @@ (long :> 260)

-----------------------------------------------------------------------------
(* Skill files of every form of declaration, and values of every type.     *)

Parameter(name, required) == [name |-> name, required |-> required]
Line(type, name, init) == [type |-> type, name |-> name, init |-> init]
Other == Line("code", "", <<>>)
Elements == <<[kind |-> "double", name |-> "x"], [kind |-> "int", name |-> "n"]>>
Array == << <<"new", Elements>> >>
Zero == << <<"int", 0>> >>
Half == << <<"double", 20>> >>
Word == << <<"string", 20>> >>
Flag == << <<"bool", 20>> >>
Two == << <<"int", 0>>, <<"code">> >>
SkillFile(lines, parameters) == [lines |-> lines, parameters |-> parameters]
AB == <<Parameter("a", TRUE), Parameter("b", FALSE)>>
BA == <<Parameter("b", FALSE), Parameter("a", FALSE)>>

SkillFiles == {
  SkillFile(<<Line("var", "a", Array), Line("var", "b", Zero), Other>>, AB),
  SkillFile(<<Line("var", "b", Array), Other, Line("double", "a", Zero)>>, AB),
  SkillFile(<<Line("long", "a", Zero), Line("var", "b", Half)>>, BA),
  SkillFile(<<Line("var", "a", Word), Line("bool", "b", Flag)>>, BA),
  SkillFile(<<Line("string", "a", Word), Line("int", "b", Zero), Line("var", "c", Zero)>>, AB),
  SkillFile(<<Line("int", "a", Zero), Line("double", "b", Two)>>, AB),
  SkillFile(<<Line("var", "a", Zero), Line("int", "a", Zero)>>, <<Parameter("a", FALSE)>>),
  SkillFile(<<Line("int", "a", Half), Other>>, <<Parameter("a", FALSE)>>),
  SkillFile(<<Other>>, <<Parameter("a", FALSE)>>),
  SkillFile(<<Other>>, <<>>),
  SkillFile(None, AB) }

\* A skill file that lists a parameter twice.
FilesWithDuplicate == {
  SkillFile(<<Line("var", "a", Array), Other>>, <<Parameter("a", FALSE), Parameter("a", FALSE)>>),
  SkillFile(<<Line("var", "a", Array), Line("var", "b", Zero), Other>>, AB) }

\* A skill file with a whole number that is too large for an int.
FilesWithLongDefault == {
  SkillFile(<<Line("var", "a", Array), Line("var", "b", << <<"int", 3>> >>), Other>>, AB) }

Numbers == {<<"number", n>> : n \in {-6, -5, -4, -3, 0, 2, 3, 5, 6}}
Good == <<"object", [x |-> <<"fraction", 10>>, n |-> <<"number", 2>>]>>
Positional == <<"array", << <<"number", 6>>, <<"number", -3>> >> >>
Swapped == <<"array", << <<"number", 2>>, <<"fraction", 10>> >> >>
Extra == <<"object", [x |-> <<"number", 0>>, n |-> <<"number", 0>>, m |-> <<"number", 0>>]>>
JsonValues == Numbers \cup {
  <<"fraction", 10>>, <<"infinite", 11>>, <<"string", 12>>, <<"bool", 1>>, <<"null", 0>>,
  <<"array", <<>> >>, <<"array", <<Good>> >>, <<"array", <<Positional, Good>> >>,
  <<"array", <<Swapped>> >>, <<"array", <<Extra>> >>, <<"array", << <<"number", 0>> >> >>, Good }
FewValues == {<<"array", <<Good>> >>, <<"number", 0>>}

-----------------------------------------------------------------------------
(* Calls of every kind over one skill file.                                *)

\* One of every kind the handlers tell apart.
CallKinds == {
  [tool |-> "query", code |-> TRUE, skill |-> None, params |-> "none", meta |-> "good"],
  [tool |-> "execute", code |-> TRUE, skill |-> None, params |-> "none", meta |-> "good"],
  [tool |-> "execute", code |-> TRUE, skill |-> None, params |-> "none", meta |-> "bad"],
  [tool |-> "execute", code |-> TRUE, skill |-> None, params |-> "fit", meta |-> "good"],
  [tool |-> "query", code |-> FALSE, skill |-> None, params |-> "none", meta |-> "good"],
  [tool |-> "query", code |-> FALSE, skill |-> volumes, params |-> "fit", meta |-> "good"],
  [tool |-> "query", code |-> TRUE, skill |-> volumes, params |-> "none", meta |-> "good"],
  [tool |-> "execute", code |-> FALSE, skill |-> volumes, params |-> "fit", meta |-> "good"],
  [tool |-> "execute", code |-> FALSE, skill |-> volumes, params |-> "unfit", meta |-> "good"],
  [tool |-> "lookup", code |-> TRUE, skill |-> None, params |-> "none", meta |-> "good"],
  [tool |-> "lookup", code |-> FALSE, skill |-> None, params |-> "none", meta |-> "bad"] }

SelectFailures == {"CONNECTION_FAILED"}
AnswerErrors == {"DRAWING_MISMATCH", "TIMEOUT", "malformed"}

AlikeCalls == Permutations(Call)

-----------------------------------------------------------------------------
VARIABLE part

serverVars == <<part, catalogVars, bindingVars, toolVars>>

SomeFile == CHOOSE s \in Skills : TRUE

\* What is chosen at the start is only told apart in its own part.
ServerInit ==
  /\ part \in {"catalogue", "binding", "tools"}
  /\ CatalogInit /\ BindingInit /\ ToolsInit
  /\ part # "catalogue" => catalog = {}
  /\ part # "binding" => skill = SomeFile
  /\ part # "tools" => setting = "odd" /\ library = [s \in SkillName |-> None]

ServerNext ==
  /\ UNCHANGED part
  /\ \/ part = "catalogue" /\ CatalogNext /\ UNCHANGED <<bindingVars, toolVars>>
     \/ part = "binding" /\ BindingNext /\ UNCHANGED <<catalogVars, toolVars>>
     \/ part = "tools" /\ ToolsNext /\ UNCHANGED <<catalogVars, bindingVars>>

ServerSpec == ServerInit /\ [][ServerNext]_serverVars
=============================================================================
