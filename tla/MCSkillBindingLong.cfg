SPECIFICATION ServerSpec
CONSTANTS
  None = None
  surfaces = surfaces
  points = points
  wide = wide
  none = none
  long = long
  c1 = c1
  c2 = c2
  volumes = volumes
  Skill <- CatalogSkills
  Category <- Categories
  Query = {wide}
  CategoryOf <- CategoriesOf
  WordsOf <- WordsOfSkill
  TokensOf <- Tokens
  CursorLength <- Lengths
  MaxCursorLength = 256
  Limit = {1, 2}
  Skills <- FilesWithLongDefault
  Values <- FewValues
  IntMax = 2
  SafeMax = 5
  Inputs <- CallKinds
  Call = {c1, c2}
  SkillName = {volumes}
  SelectCodes <- SelectFailures
  AnswerCodes <- AnswerErrors
  LevelSetting = {"warn", "odd"}
INVARIANT TypesAreKept
CHECK_DEADLOCK FALSE
