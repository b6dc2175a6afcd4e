------------------------------ MODULE DefTable ------------------------------
(***************************************************************************)
(* Which def a name stands for: packageLibs and readSubPackage             *)
(* (project.go), registerDef, registerImport, parseLibrary and resolveSig  *)
(* (parser.go), cycleResolver (project.go).                                *)
(*                                                                         *)
(* Names are the ones a caller writes, qualified by their package; a body  *)
(* is one `def` in one file.                                               *)
(***************************************************************************)
EXTENDS Naturals

CONSTANTS
  DefNames,
  Bodies,
  Std,       \* [DefNames -> Bodies or Undefined]: the standard library
  Packages,  \* sets of [name, body, override]: what defs/ may hold
  Undefined  \* no value

ASSUME StdAssumption ==
  /\ Undefined \notin Bodies
  /\ Std \in [DefNames -> Bodies \cup {Undefined}]

VARIABLES
  libs,  \* the defs of the project's packages not registered yet
  user   \* userDefs

defVars == <<libs, user>>

DefInit ==
  /\ libs \in Packages
  /\ user = [n \in DefNames |-> Undefined]

(* The lookup of the parser, of the load-time checks and of the agent: a   *)
(* def of the project or of an import, then the standard library.          *)
Resolve(n) == IF user[n] # Undefined THEN user[n] ELSE Std[n]

(* No name twice; `override` where the standard library has the name, and  *)
(* nowhere else.                                                           *)
Registrable(decl) ==
  /\ user[decl.name] = Undefined
  /\ decl.override <=> Std[decl.name] # Undefined

(* An imported def is registered under its alias, and overrides nothing.   *)
Importable(decl) == user[decl.name] = Undefined /\ Std[decl.name] = Undefined

Registered(decls) ==
  [n \in DefNames |->
     IF \E e \in decls : e.name = n THEN (CHOOSE e \in decls : e.name = n).body
     ELSE user[n]]

(* The files come in the order of a Go map.                                *)
RegisterLib ==
  \E decl \in libs :
    /\ Registrable(decl)
    /\ libs' = libs \ {decl}
    /\ user' = Registered({decl})

(* Two files that cannot both be registered: one of them is met second.    *)
LibsClash == \E decl \in libs : ~Registrable(decl)
=============================================================================
