----------------------------- MODULE Validator -----------------------------
(***************************************************************************)
(* The check of a model's output against a JSON Schema                     *)
(* (internal/schema/validator.go), beside what JSON Schema says of the     *)
(* keywords it knows: type, required and properties.                       *)
(*                                                                         *)
(* A JSON value is its kind and, for an object, its fields; numbers are    *)
(* whole or not.  A schema is a map whose "type" is one name ("typed"), a  *)
(* list of names ("listed") or absent ("untyped"), with the required names *)
(* and the properties, or it is no map but "true" or "false".  Outputs[n]  *)
(* and Schemas[n] are those that are nested at most n deep.                *)
(***************************************************************************)
EXTENDS Integers, FiniteSetsExt

CONSTANTS Outputs, NotJson, Schemas, NoSchema,
          Depth      \* how deep what the program meets is nested

Properties(s) == {s.properties[k] : k \in DOMAIN s.properties}

Forms == {"typed", "listed", "untyped", "true", "false"}
Kinds == {"object", "array", "string", "integer", "fraction", "boolean", "null"}
Types == {"object", "array", "string", "integer", "number", "boolean", "null"}

ASSUME NestingAssumption ==
  /\ Depth \in Nat
  /\ \A n \in 0 .. Depth :
       /\ \A value \in Outputs[n] : \A k \in DOMAIN value.fields :
            n > 0 /\ value.fields[k] \in Outputs[n - 1]
       /\ \A s \in Schemas[n] : Properties(s) # {} => n > 0 /\ Properties(s) \subseteq Schemas[n - 1]

ASSUME SchemaAssumption ==
  \A n \in 0 .. Depth :
    /\ \A value \in Outputs[n] : value.kind \in Kinds
    /\ \A s \in Schemas[n] :
         /\ s.form \in Forms /\ s.types \subseteq Types
         /\ s.form = "typed" => \E t \in Types : s.types = {t}
         /\ s.form \in {"true", "false"} => s.required = {} /\ Properties(s) = {}

VARIABLES output, schema, verdict   \* "none", "valid", "invalid"

vavars == <<output, schema, verdict>>

\* The kinds of values that the code takes for a type it is given by name.  A
\* decoded number is a float64, whatever its type is called; "null" it does not know.
Taken(type) ==
  CASE type \in {"number", "integer"} -> {"integer", "fraction"}
    [] type = "null"                  -> Kinds
    [] OTHER                          -> {type}

\* A type that is a list, as one that is absent, is an empty name: nothing is checked.
KindFits(kind, s) == s.form = "typed" => \E t \in s.types : kind \in Taken(t)

AsksForObject(s) == s.form = "typed" /\ s.types = {"object"}

\* Mutant: every property is taken for a required one.
MissingProperties(value, s) == (s.required \cup DOMAIN s.properties) \ DOMAIN value.fields

Missing(value, s) == s.required \ DOMAIN value.fields

\* The fields that have a schema of their own, each with it.
Below(value, s) ==
  {<<value.fields[k], s.properties[k]>> : k \in DOMAIN s.properties \cap DOMAIN value.fields}

\* validateObject, n levels deep: the values and schemas for which it finds no error.
\* A schema that is no map is not looked at, at the top or below.
Accepted[n \in 0 .. Depth] ==
  { p \in Outputs[n] \X Schemas[n] :
      LET value == p[1]  s == p[2]
      IN  /\ KindFits(value.kind, s)
          /\ AsksForObject(s) =>
               Missing(value, s) = {} /\ \A q \in Below(value, s) : q \in Accepted[n - 1] }

VaInit ==
  /\ output \in Outputs[Depth] \cup {NotJson} /\ schema \in Schemas[Depth] \cup {NoSchema}
  /\ verdict = "none"

Validate ==
  /\ verdict = "none"
  /\ verdict' = IF schema = NoSchema \/ (output # NotJson /\ <<output, schema>> \in Accepted[Depth])
                THEN "valid" ELSE "invalid"
  /\ UNCHANGED <<output, schema>>

VaSpec == VaInit /\ [][Validate]_vavars

-----------------------------------------------------------------------------
\* What JSON Schema says.  A value is of a type, or of one of a list; required and
\* properties speak of objects, under any type; nothing conforms to "false".
Meant(type) == IF type = "number" THEN {"integer", "fraction"} ELSE {type}

Conforming[n \in 0 .. Depth] ==
  { p \in Outputs[n] \X Schemas[n] :
      LET value == p[1]  s == p[2]
      IN  /\ s.form # "false"
          /\ s.form \in {"typed", "listed"} => \E t \in s.types : value.kind \in Meant(t)
          /\ value.kind = "object" =>
               /\ s.required \subseteq DOMAIN value.fields
               /\ \A q \in Below(value, s) : q \in Conforming[n - 1] }

\* Schemas that say all they say with one name for a type, that of an object wherever
\* they speak of fields, and neither "integer" nor "null".
Explicit[n \in 0 .. Depth] ==
  { s \in Schemas[n] :
      /\ s.form \notin {"listed", "false"}
      /\ s.form = "typed" => s.types \cap {"integer", "null"} = {}
      /\ AsksForObject(s) \/ (s.required = {} /\ Properties(s) = {})
      /\ \A t \in Properties(s) : t \in Explicit[n - 1] }

(***************************************************************************)
(* An output is never rejected that the schema allows, whatever the schema *)
(* and however deep; and one the schema forbids is rejected if the schema  *)
(* is explicit.  Any other is not checked as it says: the code accepts     *)
(* everything for "null", for a list of types and for "false".             *)
(***************************************************************************)
RejectsRightly ==
  LET conforms ==
        schema = NoSchema \/ (output # NotJson /\ <<output, schema>> \in Conforming[Depth])
  IN  /\ verdict = "invalid" => ~conforms
      /\ verdict = "valid" /\ (schema # NoSchema => schema \in Explicit[Depth]) => conforms
=============================================================================
