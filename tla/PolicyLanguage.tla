--------------------------- MODULE PolicyLanguage ---------------------------
(***************************************************************************)
(* The attribute policies of Ref[10] (internal/schemes/ref10/committee.go):*)
(* the recursive descent of policyParser, against the grammar it is meant  *)
(* to implement.  A policy is a sequence of tokens; an attribute, written  *)
(* as a symbol or as key=value, is what it is worth for one identity, so   *)
(* True or False, and every other token is Unknown.                        *)
(***************************************************************************)
EXTENDS Naturals, Sequences

CONSTANTS
    Seeds,          \* Policies to begin with
    MaxTokens,      \* The most that is put behind one
    True, False, Unknown, Open, Close, And, Or

VARIABLES policy, appended

vars == <<policy, appended>>

Tokens == {True, False, Unknown, Open, Close, And, Or}

\* What the theorems assume of the constants: tokens that the parser or the
\* grammar treats differently differ, and policies are begun with tokens.
TokensDiffer == Open \notin {True, False} /\ Close \notin {And, Or} /\ And # Or

Tokenized == Seeds \subseteq Seq(Tokens) /\ MaxTokens \in Nat /\ TokensDiffer

-----------------------------------------------------------------------------
(* The parser: what it returns, and where it stands then. *)

Error == [ok |-> FALSE, value |-> FALSE, pos |-> 0]
Parsed(value, pos) == [ok |-> TRUE, value |-> value, pos |-> pos]

\* peek
Peeks(toks, pos, token) == pos <= Len(toks) /\ toks[pos] = token

\* What parseOr and parseAnd look for between their operands, and what they
\* call for one.
Operator(rule) == IF rule = "or" THEN Or ELSE And

\* Faulty variant of Operand: parseOr does not descend to parseAnd.
OperandFlat(rule) == "term"

Operand(rule) == IF rule = "or" THEN "and" ELSE "term"

Joined(rule, a, b) == IF rule = "or" THEN a \/ b ELSE a /\ b

\* parseTerm
ParseTerm(parse, toks, pos) ==
    IF pos > Len(toks) THEN Error
    ELSE IF toks[pos] = Open
         THEN LET inner == parse[<<"or", pos + 1>>]
              IN  IF inner.ok /\ Peeks(toks, inner.pos, Close)
                  THEN Parsed(inner.value, inner.pos + 1) ELSE Error
    ELSE IF toks[pos] \in {True, False} THEN Parsed(toks[pos] = True, pos + 1)
    ELSE Error

\* parseOr and parseAnd: operands as long as their operator follows.
ParseChain(parse, rule, toks, pos) ==
    LET first == parse[<<Operand(rule), pos>>]
    IN  IF ~first.ok \/ ~Peeks(toks, first.pos, Operator(rule)) THEN first
        ELSE LET rest == parse[<<rule, first.pos + 1>>]
             IN  IF rest.ok THEN Parsed(Joined(rule, first.value, rest.value), rest.pos) ELSE Error

\* evalPolicy: the whole of the tokens, of which there are some.
EvalPolicy(toks) ==
    LET parse[k \in {"or", "and", "term"} \X (1 .. Len(toks) + 2)] ==
            IF k[1] = "term" THEN ParseTerm(parse, toks, k[2])
            ELSE ParseChain(parse, k[1], toks, k[2])
        whole == parse[<<"or", 1>>]
    IN  IF toks # <<>> /\ whole.ok /\ whole.pos = Len(toks) + 1 THEN whole ELSE Error

-----------------------------------------------------------------------------
(* The grammar: the values a span of tokens may stand for. *)

Meanings(toks) ==
    LET means[k \in {"or", "and", "term"} \X (0 .. Len(toks)) \X (0 .. Len(toks) + 1)] ==
            LET i == k[2]  j == k[3]
                joins(rule, operator, operand) ==
                    means[<<operand, i, j>>]
                      \cup {Joined(rule, v[1], v[2]) : v \in
                            UNION {means[<<rule, i, m - 1>>] \X means[<<operand, m + 1, j>>] :
                                    m \in {n \in i + 1 .. j - 1 : toks[n] = operator}}}
            IN  IF i = 0 \/ i > j \/ j > Len(toks) THEN {}
                ELSE IF k[1] = "or" THEN joins("or", Or, "and")
                ELSE IF k[1] = "and" THEN joins("and", And, "term")
                ELSE IF i = j THEN {toks[i] = True : b \in {t \in {toks[i]} : t \in {True, False}}}
                ELSE IF toks[i] = Open /\ toks[j] = Close THEN means[<<"or", i + 1, j - 1>>]
                ELSE {}
    IN  IF toks = <<>> THEN {} ELSE means[<<"or", 1, Len(toks)>>]

-----------------------------------------------------------------------------

Init == policy \in Seeds /\ appended = 0

\* Every policy is one token longer than another.
Extend(token) ==
    /\ appended < MaxTokens
    /\ policy' = Append(policy, token)
    /\ appended' = appended + 1

Next == \E token \in Tokens : Extend(token)

Spec == Init /\ [][Next]_vars

TypeOK == policy \in Seq(Tokens) /\ appended \in 0 .. MaxTokens

\* The parser gives every policy the one value its grammar gives it, with AND
\* over OR, and an error to what the grammar does not derive: a policy never
\* degrades to true or false (committee.go, evalPolicy).
ParsesAsGrammar ==
    LET result == EvalPolicy(policy)
    IN  Meanings(policy) = IF result.ok THEN {result.value} ELSE {}
=============================================================================
