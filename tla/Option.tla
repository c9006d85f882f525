-------------------------------- MODULE Option --------------------------------
(* The value of a field that has none: null in the C#, undefined or an       *)
(* absent key in the TypeScript.                                             *)
CONSTANT None
=============================================================================
