-------------------------- MODULE GvqlExpressions --------------------------
(***************************************************************************)
(* Value expressions, and WHERE clauses with the way the parser reads      *)
(* them.                                                                   *)
(***************************************************************************)
EXTENDS GvqlValues

(* Expressions: <<"literal", v>>, <<"path", alias, path>>, <<"call", fn, e>>, <<"coalesce", es>>,
   <<"+", e, f>>, <<"case", where, e, f>>.  A where is <<"none">>, <<"predicate", [left, op, right]>>,
   <<"not", w>>, <<"AND", w, x>> or <<"OR", w, x>>. *)
RECURSIVE Evaluate(_, _, _), Satisfies(_, _, _)

Evaluate(g, binding, e) ==
    CASE e[1] = "literal" -> e[2]
      [] e[1] = "path" -> ReadPath(g, binding, e[2], e[3])
      [] e[1] = "call" -> ScalarFunction(e[2], Evaluate(g, binding, e[3]))
      [] e[1] = "coalesce" ->
           LET present == SelectSeq([i \in DOMAIN e[2] |-> Evaluate(g, binding, e[2][i])],
                                    LAMBDA v : ~IsMissing(v))
           IN  IF present = <<>> THEN Undefined ELSE Head(present)
      [] e[1] = "+" ->
           LET l == Evaluate(g, binding, e[2])
               r == Evaluate(g, binding, e[3])
           IN  IF l[1] = "num" /\ r[1] = "num" THEN Num(l[2] + r[2]) ELSE Error
      [] e[1] = "case" -> Evaluate(g, binding, IF Satisfies(g, binding, e[2]) THEN e[3] ELSE e[4])

Satisfies(g, binding, where) ==
    CASE where[1] = "none" -> TRUE
      [] where[1] = "predicate" ->
           Holds(where[2].op, Evaluate(g, binding, where[2].left), Evaluate(g, binding, where[2].right))
      [] where[1] = "not" -> ~Satisfies(g, binding, where[2])
      [] where[1] = "AND" -> Satisfies(g, binding, where[2]) /\ Satisfies(g, binding, where[3])
      [] where[1] = "OR" -> Satisfies(g, binding, where[2]) \/ Satisfies(g, binding, where[3])

RECURSIVE ContainsPath(_)
ContainsPath(e) ==
    CASE e[1] = "literal" -> FALSE
      [] e[1] = "call" -> ContainsPath(e[3])
      [] e[1] = "coalesce" -> \E i \in DOMAIN e[2] : ContainsPath(e[2][i])
      [] e[1] = "+" -> ContainsPath(e[2]) \/ ContainsPath(e[3])
      [] OTHER -> TRUE

----------------------------------------------------------------------------
(* The parser reads a clause, here a sequence of the tokens "(", ")", "AND", "OR", "NOT" and
   predicates, from the outside in: without the parentheses that enclose all of it, at its LAST
   top-level OR, else at its last top-level AND, else after a leading NOT. *)

Word(token) == token[1]
Depth(tokens, i) == Cardinality({j \in 1..i : Word(tokens[j]) = "("})
                      - Cardinality({j \in 1..i : Word(tokens[j]) = ")"})
TopLevel(tokens, operator) == {i \in DOMAIN tokens : Word(tokens[i]) = operator /\ Depth(tokens, i) = 0}
OuterParenthesesEnclose(tokens) ==
    Word(tokens[1]) = "(" /\ \A i \in 1..(Len(tokens) - 1) : Depth(tokens, i) > 0

RECURSIVE ParseBooleanExpression(_)
ParseBooleanExpression(tokens) ==
    LET split(operator) ==
            LET at == Max(TopLevel(tokens, operator))
            IN  <<operator, ParseBooleanExpression(SubSeq(tokens, 1, at - 1)),
                            ParseBooleanExpression(SubSeq(tokens, at + 1, Len(tokens)))>>
    IN  CASE OuterParenthesesEnclose(tokens) -> ParseBooleanExpression(SubSeq(tokens, 2, Len(tokens) - 1))
          [] ~OuterParenthesesEnclose(tokens) /\ TopLevel(tokens, "OR") # {} -> split("OR")
          [] ~OuterParenthesesEnclose(tokens) /\ TopLevel(tokens, "OR") = {} /\ TopLevel(tokens, "AND") # {} ->
               split("AND")
          [] Word(tokens[1]) = "NOT" -> <<"not", ParseBooleanExpression(Tail(tokens))>>
          [] OTHER -> tokens[1]
=============================================================================
