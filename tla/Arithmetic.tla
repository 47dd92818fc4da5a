----------------------------- MODULE Arithmetic -----------------------------
(***************************************************************************)
(* $((...)): an expression is cut into tokens, put into reverse Polish     *)
(* notation with a stack of operators, and evaluated with a stack of       *)
(* numbers (src/src/arithmetic.rs).  Integers are WIDTH bits wide and wrap *)
(* around, as in the release build.                                        *)
(***************************************************************************)
EXTENDS Characters

CONSTANT WIDTH              \* 64 in the program

ASSUME WidthAssumption == WIDTH \in Nat \ {0}

Panic == [ok |-> FALSE, value |-> <<"panic">>]

MAX == 2^(WIDTH - 1) - 1
MIN == -(2^(WIDTH - 1))
Wrap(n) == ((n - MIN) % 2^WIDTH) + MIN

-----------------------------------------------------------------------------
(* Tokens *)

TwoCharacters ==
    {<<"<", "<">>, <<"<", "=">>, <<">", ">">>, <<">", "=">>, <<"=", "=">>, <<"!", "=">>,
     <<"&", "&">>, <<"|", "|">>}
OneCharacter == {"+", "-", "*", "/", "%", "<", ">", "!", "&", "|", "^", "~"}

\* The characters that continue the number or the name that starts a text.
Run(s) ==
    LET first == s[1]
        stops == {i \in 2..Len(s) : ~(IF IsDigit(first) THEN IsDigit(s[i]) ELSE IsAlphanumeric(s[i]))}
    IN SubSeq(s, 1, First(stops, s) - 1)

\* The token at the start of a text, with as many of its characters.
TokenAt(s) ==
    CASE s[1] \in Blanks -> [n |-> 1, token |-> <<>>]
      [] s[1] \in {"(", ")"} -> [n |-> 1, token |-> <<s[1]>>]
      [] Len(s) > 1 /\ SubSeq(s, 1, 2) \in TwoCharacters -> [n |-> 2, token |-> <<"Operator", s[1] \o s[2]>>]
      [] s[1] \in OneCharacter /\ ~(Len(s) > 1 /\ SubSeq(s, 1, 2) \in TwoCharacters) ->
            IF s[1] \in {"+", "-"} /\ Len(s) > 1 /\ s[2] = s[1] THEN [n |-> 1, token |-> <<"Error">>]
            ELSE [n |-> 1, token |-> <<"Operator", s[1]>>]
      [] IsDigit(s[1]) -> [n |-> Len(Run(s)),
                           token |-> IF NumberOf(Run(s)) > MAX THEN <<"Error">> ELSE <<"Number", NumberOf(Run(s))>>]
      [] IsAlphanumeric(s[1]) /\ ~IsDigit(s[1]) -> [n |-> Len(Run(s)), token |-> <<"Variable", Run(s)>>]
      [] OTHER -> [n |-> 1, token |-> <<"Error">>]

tokenize_expression(expr) ==
    LET t[i \in 1..(Len(expr) + 1)] ==
          IF i > Len(expr) THEN <<>>
          ELSE LET at == TokenAt(Drop(expr, i - 1))
               IN (IF at.token = <<>> THEN <<>> ELSE <<at.token>>) \o t[i + at.n]
        tokens == t[1]
    IN IF \E k \in DOMAIN tokens : tokens[k] = <<"Error">> THEN Err ELSE Some(tokens)

-----------------------------------------------------------------------------
(* Reverse Polish notation *)

precedence(op) ==
    CASE op \in {"!", "~"} -> 100
      [] op \in {"*", "/", "%"} -> 90
      [] op \in {"+", "-"} -> 80
      [] op \in {"<<", ">>"} -> 70
      [] op \in {"<", "<=", ">", ">="} -> 60
      [] op \in {"==", "!="} -> 50
      [] op = "&" -> 40
      [] op = "^" -> 30
      [] op = "|" -> 20
      [] op = "&&" -> 10
      [] op = "||" -> 5
is_unary(op) == op \in {"!", "~"}

\* The operators above the last one that stays are moved to the output.
PopTo(state, k) ==
    [state EXCEPT !.output = @ \o Reverse(Drop(state.operators, k)), !.operators = SubSeq(@, 1, k)]

\* An operator is taken for a unary one only where the output is empty or
\* ends with an operator.
Prefix(state, op) ==
    is_unary(op) /\ (state.output = <<>> \/ Last(state.output)[1] = "Operator")

\* Slip: an operator of the same precedence is taken first, unary ones too.
OutlastsEqual(top, op, prefix) == top = <<"(">> \/ precedence(top[2]) <= precedence(op)
Outlasts(top, op, prefix) ==
    \/ top = <<"(">>
    \/ prefix /\ (precedence(top[2]) < precedence(op) \/ is_unary(top[2]))
    \/ ~prefix /\ precedence(top[2]) < precedence(op)
    \/ ~prefix /\ precedence(top[2]) = precedence(op) /\ is_unary(op)

PushOperator(state, op) ==
    LET k == SelectLastInSeq(state.operators, LAMBDA top : Outlasts(top, op, Prefix(state, op)))
    IN [PopTo(state, k) EXCEPT !.operators = Append(@, <<"Operator", op>>)]

CloseParen(state) ==
    LET k == SelectLastInSeq(state.operators, LAMBDA top : top = <<"(">>)
    IN IF k = 0 THEN [state EXCEPT !.ok = FALSE]
       ELSE [PopTo(state, k) EXCEPT !.operators = Front(@)]

Shunt(state, token) ==
    CASE ~state.ok -> state
      [] state.ok /\ token[1] \in {"Number", "Variable"} -> [state EXCEPT !.output = Append(@, token)]
      [] state.ok /\ token[1] = "Operator" -> PushOperator(state, token[2])
      [] state.ok /\ token[1] = "(" -> [state EXCEPT !.operators = Append(@, token)]
      [] state.ok /\ token[1] = ")" -> CloseParen(state)

parse_to_rpn(tokens) ==
    LET state == FoldLeft(Shunt, [output |-> <<>>, operators |-> <<>>, ok |-> TRUE], tokens)
    IN IF ~state.ok \/ Contains(state.operators, <<"(">>) THEN Err
       ELSE Some(PopTo(state, 0).output)

-----------------------------------------------------------------------------
(* Evaluation *)

Truth(b) == IF b THEN 1 ELSE 0
Magnitude(n) == IF n < 0 THEN -n ELSE n

\* Division truncates toward zero, and the remainder has the sign of the dividend.
Quotient(a, b) ==
    LET q == Magnitude(a) \div Magnitude(b) IN IF (a < 0) = (b < 0) THEN q ELSE -q

Bit(n, k) == (n % 2^WIDTH) \div 2^k % 2
Bitwise_(a, b, Op(_, _)) ==
    Wrap(MapThenSumSet(LAMBDA k : IF Op(Bit(a, k) = 1, Bit(b, k) = 1) THEN 2^k ELSE 0, 0..(WIDTH - 1)))

\* Only the low bits of a shift's distance count.
Shift(n) == n % WIDTH

Binary(op, a, b) ==
    CASE op = "+" -> Wrap(a + b)
      [] op = "-" -> Wrap(a - b)
      [] op = "*" -> Wrap(a * b)
      [] op = "/" -> Quotient(a, b)
      [] op = "%" -> a - b * Quotient(a, b)
      [] op = "<<" -> Wrap(a * 2^Shift(b))
      [] op = ">>" -> a \div 2^Shift(b)
      [] op = "<" -> Truth(a < b)
      [] op = "<=" -> Truth(a <= b)
      [] op = ">" -> Truth(a > b)
      [] op = ">=" -> Truth(a >= b)
      [] op = "==" -> Truth(a = b)
      [] op = "!=" -> Truth(a # b)
      [] op = "&" -> Bitwise_(a, b, LAMBDA p, q : p /\ q)
      [] op = "^" -> Bitwise_(a, b, LAMBDA p, q : p # q)
      [] op = "|" -> Bitwise_(a, b, LAMBDA p, q : p \/ q)
      [] op = "&&" -> Truth(a # 0 /\ b # 0)
      [] op = "||" -> Truth(a # 0 \/ b # 0)

\* ! complements the bits, as ~ does.
Unary(op, a) == -a - 1

NumberIn(vars, name) ==
    IF name \in DOMAIN vars /\ IsNumber(vars[name]) /\ SignedNumberOf(vars[name]) \in MIN..MAX
    THEN SignedNumberOf(vars[name])
    ELSE 0

\* One token: its operands are the last numbers of the stack.
Apply(stack, token, vars) ==
    LET n == Len(stack)
        op == token[2]
    IN CASE token[1] = "Number" -> Some(Append(stack, token[2]))
         [] token[1] = "Variable" -> Some(Append(stack, NumberIn(vars, token[2])))
         [] token[1] = "Operator" /\ is_unary(op) ->
                IF n < 1 THEN Err ELSE Some(Append(Front(stack), Unary(op, stack[n])))
         [] token[1] = "Operator" /\ ~is_unary(op) ->
                IF n < 2 THEN Err
                ELSE IF op \in {"/", "%"} /\ stack[n] = 0 THEN Err
                ELSE IF op \in {"/", "%"} /\ stack[n] = -1 /\ stack[n - 1] = MIN THEN Panic
                ELSE Some(Append(SubSeq(stack, 1, n - 2), Binary(op, stack[n - 1], stack[n])))

OnlyNumber(result) ==
    IF result.ok /\ Len(result.value) = 1 THEN Some(result.value[1]) ELSE IF result.ok THEN Err ELSE result
evaluate_rpn(rpn, vars) ==
    OnlyNumber(FoldLeft(LAMBDA r, token : IF r.ok THEN Apply(r.value, token, vars) ELSE r, Some(<<>>), rpn))

EvaluateParsed(rpn, vars) == IF rpn.ok THEN evaluate_rpn(rpn.value, vars) ELSE Err
EvaluateTokens(tokens, vars) == IF tokens.ok THEN EvaluateParsed(parse_to_rpn(tokens.value), vars) ELSE Err
evaluate_arithmetic_expression(expr, vars) ==
    IF trim(expr) = <<>> THEN Err ELSE EvaluateTokens(tokenize_expression(expr), vars)
=============================================================================
