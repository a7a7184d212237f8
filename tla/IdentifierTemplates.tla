------------------------ MODULE IdentifierTemplates ------------------------
(***************************************************************************)
(* The template language of pg_treekey: what a parsed template may be,     *)
(* what rendering one yields, and how a taken identifier is made unique.   *)
(* A text is a sequence of symbols; a column that is NULL has the value    *)
(* Null.  Case folding and the ligature tables of slugify are left out.    *)
(***************************************************************************)
LOCAL INSTANCE Naturals
LOCAL INSTANCE Sequences
LOCAL INSTANCE SequencesExt
LOCAL INSTANCE FiniteSets
LOCAL INSTANCE TLC

CONSTANT Null   \* the value of a column that is NULL

Literal(text) == [kind |-> "literal", text |-> text]

Modifier(by, width) == [by |-> by, width |-> width]

Expr(alias, column, modifier, optional) ==
  [kind |-> "expr", key |-> <<alias, column>>, modifier |-> modifier,
   optional |-> optional]

(* What parse_template returns: literals are the maximal runs of text      *)
(* between expressions, so none is empty and no two are adjacent.          *)
WellFormed(tokens) ==
  \A i \in DOMAIN tokens : tokens[i].kind = "literal" =>
    /\ tokens[i].text # <<>>
    /\ i + 1 \in DOMAIN tokens => tokens[i + 1].kind = "expr"

(* Words are kept, any run of other symbols between two words becomes one  *)
(* separator, and none is left at either end.                              *)
Slugify(text) ==
  LET words == {i \in DOMAIN text : text[i] # " "}
      Starts(i) == i - 1 \notin words /\ \E j \in words : j < i
  IN FlattenSeq([i \in DOMAIN text |->
       IF i \notin words THEN <<>>
       ELSE IF Starts(i) THEN <<"-", text[i]>> ELSE <<text[i]>>])

(* A modifier applied while a template is rendered.  No scope is known     *)
(* there, so strip fails and the value is left out.                        *)
ApplyModifier(value, modifier) ==
  CASE modifier.by = "slugify" -> Slugify(value)
    [] modifier.by = "raw" -> value
    [] modifier.by = "strip" -> <<>>
    [] modifier.by = "padded" ->
         [i \in 1..(modifier.width - Len(value)) |-> "0"] \o value

Skipped(tokens, values, i) ==
  /\ tokens[i].kind = "expr" /\ tokens[i].optional
  /\ tokens[i].key \in DOMAIN values /\ values[tokens[i].key] = Null

(* A skipped first token takes the literal after it along, any other the   *)
(* literal before it.                                                      *)
Elided(tokens, values, i) ==
  \/ i = 2 /\ Skipped(tokens, values, 1)
  \/ i + 1 \in DOMAIN tokens /\ Skipped(tokens, values, i + 1)

Rendered(tokens, values, i) ==
  LET t == tokens[i]
  IN IF t.kind = "literal"
     THEN IF Elided(tokens, values, i) THEN <<>> ELSE t.text
     ELSE IF t.key \notin DOMAIN values \/ values[t.key] = Null THEN <<>>
          ELSE ApplyModifier(values[t.key], t.modifier)

RenderTemplate(tokens, values) ==
  FlattenSeq([i \in DOMAIN tokens |-> Rendered(tokens, values, i)])

(* The base itself, or the base with the smallest free number from 2 on.   *)
IdentifierNext(base, taken) ==
  LET Numbered(n) == base \o <<"#", ToString(n)>>
  IN IF base \notin taken THEN base
     ELSE Numbered(CHOOSE n \in 2..(Cardinality(taken) + 2) :
            /\ Numbered(n) \notin taken
            /\ \A k \in 2..(n - 1) : Numbered(k) \in taken)
=============================================================================
