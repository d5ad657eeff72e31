-------------------------------- MODULE TinyJS --------------------------------
(***************************************************************************)
(* The script interpreter of libraries/TinyJS, which rules are written for. *)
(* It has no syntax tree: it executes while it parses, parses what is not   *)
(* to be executed with execute = false, and reads loops and functions from  *)
(* their text again.                                                       *)
(*                                                                         *)
(* A lexer is the sequence of its tokens <<kind, value>>.  Numbers, names   *)
(* of objects as strings, functions and natives are the values; objects,    *)
(* arrays, doubles and >>> are left out, and the bits of & and |.           *)
(* Numbers stay below 2^31.  An operation takes and returns the state of    *)
(* the interpreter, with its result in link.                               *)
(***************************************************************************)
EXTENDS Integers, SequencesExt

CONSTANTS
  TINYJS_LOOP_MAX_ITERATIONS,   \* 8192
  ObjectValues                  \* what GetObjectIntValue returns, by object

(* Does one thing after another: s is evaluated once.                       *)
After(s, F(_)) == CHOOSE t \in {F(u) : u \in {s}} : TRUE

Undefined == [t |-> "undefined", n |-> 0, params |-> <<>>, body |-> <<>>]
Number(n) == [Undefined EXCEPT !.t = "int", !.n = n]
Text(name) == [Undefined EXCEPT !.t = "str", !.n = name]
Function(params, body) == [Undefined EXCEPT !.t = "function", !.params = params, !.body = body]
Native(name, params) == [Undefined EXCEPT !.t = "native", !.n = name, !.params = params]
Truth(b) == Number(IF b THEN 1 ELSE 0)

(* A link is a variable of a scope, or owned by none and holds its value.   *)
Temporary(value) == [scope |-> 0, name |-> "", value |-> value]
Variable(i, name) == [scope |-> i, name |-> name, value |-> Undefined]
Value(s, link) == IF link.scope = 0 THEN link.value ELSE s.scopes[link.scope][link.name]
getInt(s, link) == IF Value(s, link).t = "int" THEN Value(s, link).n ELSE 0
getBool(s, link) == getInt(s, link) # 0

replaceWith(s, link, value) ==
  IF link.scope = 0 THEN s ELSE [s EXCEPT !.scopes[link.scope][link.name] = value]
addChildNoDup(s, i, name, value) ==
  [s EXCEPT !.scopes[i] = [n \in DOMAIN @ \cup {name} |-> IF n = name THEN value ELSE @[n]]]

findInScopes(s, name) ==
  LET found == {i \in DOMAIN s.scopes : name \in DOMAIN s.scopes[i]} IN
  IF found = {} THEN [Variable(0, name) EXCEPT !.name = name]
  ELSE Variable(CHOOSE i \in found : \A j \in found : j <= i, name)

-------------------------------------------------------------------------------
(* CScriptLex.  A text is a sequence of characters, a word of letters being *)
(* one of them; escapes in strings, floats and hexadecimals are left out.   *)

Digits == <<"0", "1", "2", "3", "4", "5", "6", "7", "8", "9">>
Whitespace == {" ", "\n"}
Operators ==
  (<<"=", "=">> :> "==") @@ (<<"!", "=">> :> "!=") @@ (<<"<", "=">> :> "<=") @@ (<<">", "=">> :> ">=")
    @@ (<<"+", "=">> :> "+=") @@ (<<"-", "=">> :> "-=") @@ (<<"+", "+">> :> "++") @@ (<<"-", "-">> :> "--")
    @@ (<<"&", "&">> :> "&&") @@ (<<"|", "|">> :> "||") @@ (<<"<", "<">> :> "<<") @@ (<<">", ">">> :> ">>")
Single == {"=", "!", "<", ">", "+", "-", "*", "%", "(", ")", "{", "}", ",", ";", "?", ":"}
Keywords == {"if", "else", "while", "for", "function", "return", "var", "true", "false"}

(* What is left when the text has run over these characters, in a row.      *)
BehindComment(text, mark) ==
  LET ends == {i \in 1..(Len(text) + 1 - Len(mark)) : SubSeq(text, i, i + Len(mark) - 1) = mark} IN
  IF ends = {} THEN <<>> ELSE SubSeq(text, Len(mark) + (CHOOSE i \in ends : \A j \in ends : i <= j), Len(text))
NumberLength(text) ==
  LET ends == {i \in 1..Len(text) : text[i] \notin Range(Digits)} IN
  IF ends = {} THEN Len(text) ELSE (CHOOSE i \in ends : \A j \in ends : i <= j) - 1
DecimalValue(digits) ==
  FoldLeft(LAMBDA n, d : 10 * n + (CHOOSE i \in 1..10 : Digits[i] = d) - 1, 0, digits)

RECURSIVE Tokens(_)
Tokens(text) ==
  LET c == Head(text)
      two == SubSeq(text, 1, IF Len(text) > 1 THEN 2 ELSE 1)
      rest(n) == SubSeq(text, n + 1, Len(text))
  IN IF text = <<>> THEN <<>>
     ELSE CASE c \in Whitespace -> Tokens(rest(1))
       [] two = <<"/", "/">> -> Tokens(BehindComment(text, <<"\n">>))
       [] two = <<"/", "*">> -> Tokens(BehindComment(text, <<"*", "/">>))
       [] c \in Range(Digits) ->
            <<<<"INT", DecimalValue(SubSeq(text, 1, NumberLength(text)))>>>> \o Tokens(rest(NumberLength(text)))
       [] c = "\"" -> <<<<"STR", text[2]>>>> \o Tokens(rest(3))
       [] two \in DOMAIN Operators -> <<<<Operators[two], "">>>> \o Tokens(rest(2))
       [] two \notin DOMAIN Operators /\ c \in Single \cup Keywords -> <<<<c, "">>>> \o Tokens(rest(1))
       [] OTHER -> <<<<"ID", c>>>> \o Tokens(rest(1))

tk(s) == IF s.p \in DOMAIN s.tokens THEN s.tokens[s.p][1] ELSE "EOF"
tkStr(s) == s.tokens[s.p][2]

match(s, expected) ==
  [s EXCEPT !.p = IF @ \in DOMAIN s.tokens THEN @ + 1 ELSE @,
            !.errors = IF tk(s) = expected THEN @ ELSE @ + 1]

getSubLex(s, lastPosition) == SubSeq(s.tokens, lastPosition, s.p - 1)

(* Another lexer takes the place of this one, and is left again.            *)
InLex(s, tokens, F(_)) ==
  After(F([s EXCEPT !.tokens = tokens, !.p = 1]), LAMBDA t : [t EXCEPT !.tokens = s.tokens, !.p = s.p])

(* With a variable noexecute, which is false, in the place of execute.      *)
Quiet(s, F(_)) ==
  After(F([s EXCEPT !.execute = FALSE]), LAMBDA t : [t EXCEPT !.execute = s.execute])
DoIf(cond, s, F(_)) == IF cond THEN F(s) ELSE Quiet(s, F)

-------------------------------------------------------------------------------
(* C++ rounds to zero.                                                      *)
Rem(a, b) == IF a >= 0 THEN a % b ELSE 0 - ((0 - a) % b)

mathsOp(a, b, op) ==
  IF a.t = "undefined" /\ b.t = "undefined"
  THEN CASE op = "==" -> Truth(TRUE) [] op = "!=" -> Truth(FALSE) [] OTHER -> Undefined
  ELSE CASE op = "+" -> Number(a.n + b.n) [] op = "-" -> Number(a.n - b.n)
         [] op = "*" -> Number(a.n * b.n) [] op = "%" -> Number(Rem(a.n, b.n))
         [] op = "&" -> Truth(a.n = 1 /\ b.n = 1) [] op = "|" -> Truth(a.n = 1 \/ b.n = 1)
         [] op = "==" -> Truth(a.n = b.n) [] op = "!=" -> Truth(a.n # b.n)
         [] op = "<" -> Truth(a.n < b.n) [] op = ">" -> Truth(a.n > b.n)
         [] op = "<=" -> Truth(a.n <= b.n) [] op = ">=" -> Truth(a.n >= b.n)

(* The two rules that the others come back to.                              *)
RECURSIVE Parse(_, _), Parameters(_), Arguments(_, _, _), Skipped(_), Calls(_), Factors(_, _),
  Terms(_, _), Conditions(_, _), Conjuncts(_, _), Statements(_), SkipBlock(_, _),
  Declarations(_), Loop(_, _, _, _, _, _)
base(s) == Parse("base", s)
statement(s) == Parse("statement", s)

-------------------------------------------------------------------------------
(* Functions *)

EmptyFrame == [n \in {} |-> Undefined]
CommaUnlessEnd(s) == IF tk(s) = ")" THEN s ELSE match(s, ",")

parseFunctionArguments(s) == After(Parameters(match(s, "(")), LAMBDA t : match(t, ")"))
Parameters(s) ==
  IF tk(s) # "ID" THEN s
  ELSE After([match(s, "ID") EXCEPT !.params = Append(@, tkStr(s))],
             LAMBDA t : Parameters(CommaUnlessEnd(t)))

SkipBlock(s, brackets) ==
  IF brackets = 0 \/ tk(s) = "EOF" THEN s
  ELSE SkipBlock([s EXCEPT !.p = @ + 1],
                 CASE tk(s) = "{" -> brackets + 1 [] tk(s) = "}" -> brackets - 1 [] OTHER -> brackets)

Statements(s) ==
  IF tk(s) \in {"}", "EOF"} THEN s ELSE After(statement(s), LAMBDA t : Statements(t))

block(s) ==
  IF s.execute THEN After(Statements(match(s, "{")), LAMBDA t : match(t, "}"))
  ELSE SkipBlock(match(s, "{"), 1)

(* Name and value of the function, from its first bracket on: its text.     *)
parseFunctionDefinition(s0) ==
  After(match(s0, "function"), LAMBDA s :
  After(parseFunctionArguments([IF tk(s) = "ID" THEN match(s, "ID") ELSE s EXCEPT !.params = <<>>]),
        LAMBDA t :
  After(Quiet(t, block), LAMBDA u :
    [u EXCEPT !.link = [Temporary(Function(t.params, getSubLex(u, t.p)))
                        EXCEPT !.name = IF tk(s) = "ID" THEN tkStr(s) ELSE ""]])))

(* As many arguments as the function has parameters, whatever is there.     *)
Arguments(s, params, frame) ==
  IF params = <<>> THEN [match(s, ")") EXCEPT !.scopes = Append(@, frame)]
  ELSE After(base(s), LAMBDA t :
         Arguments(CommaUnlessEnd(t), Tail(params), frame @@ (Head(params) :> Value(t, t.link))))

Callback(s, name, args) ==
  IF name = "GetObjectIntValue"
  THEN [s EXCEPT !.scopes[Len(s.scopes)]["return"] = Number(ObjectValues[args["object"].n])]
  ELSE [s EXCEPT !.out = Append(@, <<name, [a \in DOMAIN args \ {"return"} |-> args[a].n]>>)]

(* The block of a function runs in its own lexer: a return in it has set    *)
(* execute to false.                                                       *)
RunFunctionFault(s, f) ==   \* a return in it ends the script
  IF f.t = "native" THEN Callback(s, f.n, Last(s.scopes)) ELSE InLex(s, f.body, block)

RunFunction(s, f) ==
  IF f.t = "native" THEN Callback(s, f.n, Last(s.scopes))
  ELSE [InLex(s, f.body, block) EXCEPT !.execute = TRUE]

Called(s, f) ==
  After(Arguments([match(s, "(") EXCEPT !.errors = IF f.t \in {"function", "native"} THEN @ ELSE @ + 1],
                  f.params, "return" :> Undefined), LAMBDA t :
  After(RunFunction(t, f), LAMBDA u :
    [u EXCEPT !.scopes = Front(@), !.link = Temporary(Last(u.scopes)["return"])]))

(* Not executed: the arguments are parsed, and a block that follows them.   *)
Skipped(s) == IF tk(s) \in {")", "EOF"} THEN match(s, ")")
              ELSE After(base(s), LAMBDA t : Skipped(CommaUnlessEnd(t)))
functionCall(s) ==
  IF s.execute THEN Called(s, Value(s, s.link))
  ELSE After(Skipped(match(s, "(")), LAMBDA t : IF tk(t) = "{" THEN block(t) ELSE t)

-------------------------------------------------------------------------------
(* Expressions *)

Calls(s) == IF tk(s) = "(" THEN After(functionCall(s), LAMBDA t : Calls(t)) ELSE s

Literal(s, value) == [match(s, tk(s)) EXCEPT !.link = Temporary(value)]

factor(s) ==
  CASE tk(s) = "(" -> After(base(match(s, "(")), LAMBDA t : match(t, ")"))
    [] tk(s) = "true" -> Literal(s, Truth(TRUE))
    [] tk(s) = "false" -> Literal(s, Truth(FALSE))
    [] tk(s) = "INT" -> Literal(s, Number(tkStr(s)))
    [] tk(s) = "STR" -> Literal(s, Text(tkStr(s)))
    [] tk(s) = "ID" ->
         Calls([match(s, "ID") EXCEPT
                  !.link = IF s.execute THEN findInScopes(s, tkStr(s)) ELSE Temporary(Undefined)])
    [] tk(s) = "function" -> parseFunctionDefinition(s)
    [] OTHER -> [match(s, "EOF") EXCEPT !.link = Temporary(Undefined)]

(* The link of a is followed when both operands have been evaluated.        *)
Operate(s, a, op) ==
  IF s.execute THEN [s EXCEPT !.link = Temporary(mathsOp(Value(s, a), Value(s, s.link), op))]
  ELSE [s EXCEPT !.link = a]

unary(s) ==
  IF tk(s) # "!" THEN factor(s)
  ELSE After(factor(match(s, "!")), LAMBDA t :
         Operate([t EXCEPT !.link = Temporary(Number(0))], t.link, "=="))

Factors(s, a) ==
  IF tk(s) \notin {"*", "/", "%"} THEN [s EXCEPT !.link = a]
  ELSE After(unary(match(s, tk(s))), LAMBDA t :
       After(Operate(t, a, tk(s)), LAMBDA u : Factors(u, u.link)))
term(s) == After(unary(s), LAMBDA t : Factors(t, t.link))

Terms(s, a) ==
  CASE tk(s) \in {"+", "-"} ->
         After(term(match(s, tk(s))), LAMBDA t :
         After(Operate(t, a, tk(s)), LAMBDA u : Terms(u, u.link)))
    [] tk(s) \in {"++", "--"} ->
         After(IF s.execute
               THEN replaceWith(s, a, mathsOp(Value(s, a), Number(1), IF tk(s) = "++" THEN "+" ELSE "-"))
               ELSE s,
               LAMBDA t : Terms(match(t, tk(s)), IF s.execute THEN Temporary(Value(s, a)) ELSE a))
    [] OTHER -> [s EXCEPT !.link = a]

expression(s) ==
  IF tk(s) # "-" THEN After(term(s), LAMBDA t : Terms(t, t.link))
  ELSE After(term(match(s, "-")), LAMBDA t :
       After(IF t.execute THEN Operate(t, Temporary(Number(0)), "-")
             ELSE t, LAMBDA u : Terms(u, u.link)))

(* The variable on the left is changed itself, its value comes out.         *)
shift(s0) ==
  After(expression(s0), LAMBDA s :
    IF tk(s) \notin {"<<", ">>"} THEN s
    ELSE After(base(match(s, tk(s))), LAMBDA t :
           IF ~t.execute THEN [t EXCEPT !.link = s.link]
           ELSE LET n == 2 ^ getInt(t, t.link)
                    shifted == Number(IF tk(s) = "<<" THEN getInt(t, s.link) * n
                                      ELSE getInt(t, s.link) \div n)
                IN [replaceWith(t, s.link, shifted) EXCEPT !.link = [s.link EXCEPT !.value = shifted]]))

Conditions(s, a) ==
  IF tk(s) \notin {"==", "!=", "<", ">", "<=", ">="} THEN [s EXCEPT !.link = a]
  ELSE After(shift(match(s, tk(s))), LAMBDA t :
       After(Operate(t, a, tk(s)), LAMBDA u : Conditions(u, u.link)))
condition(s) == After(shift(s), LAMBDA t : Conditions(t, t.link))

(* && and || have the same precedence, and only truth values come out.      *)
Conjuncts(s, a) ==
  IF tk(s) \notin {"&&", "||"} THEN [s EXCEPT !.link = a]
  ELSE LET shortCircuit == getBool(s, a) = (tk(s) = "||") IN
       After(DoIf(~shortCircuit, match(s, tk(s)), condition), LAMBDA t :
         Conjuncts(t, IF s.execute /\ ~shortCircuit
                      THEN Temporary(mathsOp(Truth(getBool(t, a)), Truth(getBool(t, t.link)),
                                             IF tk(s) = "&&" THEN "&" ELSE "|"))
                      ELSE a))
logic(s) == After(condition(s), LAMBDA t : Conjuncts(t, t.link))

ternary(s0) ==
  After(logic(s0), LAMBDA s :
    IF tk(s) # "?" THEN s
    ELSE LET first == getBool(s, s.link) IN
         After(DoIf(s.execute /\ first, match(s, "?"), base), LAMBDA t :
         After(DoIf(s.execute /\ ~first, match(t, ":"), base), LAMBDA u :
           IF first THEN [u EXCEPT !.link = t.link] ELSE u)))

(* A name that is nowhere becomes a variable of the root.                   *)
MadeOwned(s) ==
  IF s.execute /\ s.link.scope = 0 /\ s.link.name # ""
  THEN [addChildNoDup(s, 1, s.link.name, s.link.value) EXCEPT !.link = Variable(1, s.link.name)]
  ELSE s

Assignment(s0) ==
  After(ternary(s0), LAMBDA s :
    IF tk(s) \notin {"=", "+=", "-="} THEN s
    ELSE After(MadeOwned(s), LAMBDA t :
         After(base(match(t, tk(s))), LAMBDA u :
           IF ~s.execute THEN [u EXCEPT !.link = t.link]
           ELSE [replaceWith(u, t.link,
                   CASE tk(s) = "=" -> Value(u, u.link)
                     [] tk(s) = "+=" -> mathsOp(Value(u, t.link), Value(u, u.link), "+")
                     [] OTHER -> mathsOp(Value(u, t.link), Value(u, u.link), "-"))
                 EXCEPT !.link = t.link])))

-------------------------------------------------------------------------------
(* Statements *)

Condition(s) == s.execute /\ getBool(s, s.link)

(* The rounds of a loop after its first one, which the loop is parsed with. *)
(* while has no iter.                                                      *)
Loop(s, loopCond, cond, iter, body, loopCount) ==
  IF ~loopCond \/ loopCount = 0 \/ (iter # <<>> /\ ~s.execute)
  THEN [s EXCEPT !.errors = IF loopCount = 0 THEN @ + 1 ELSE @]      \* LOOP_ERROR
  ELSE After(InLex(s, cond, base), LAMBDA t :
       After(IF Condition(t) THEN InLex(t, body, statement) ELSE t, LAMBDA u :
       After(IF Condition(t) /\ iter # <<>> /\ u.execute THEN InLex(u, iter, base) ELSE u, LAMBDA v :
         Loop(v, Condition(t), cond, iter, body, loopCount - 1))))

While(s0) ==
  After(match(match(s0, "while"), "("), LAMBDA s :
  After(base(s), LAMBDA c :
  After(match(c, ")"), LAMBDA t :
  After(DoIf(Condition(c), t, statement), LAMBDA b :
    Loop(b, Condition(c), getSubLex(c, s.p), <<>>, getSubLex(b, t.p), TINYJS_LOOP_MAX_ITERATIONS)))))

For(s0) ==
  After(statement(match(match(s0, "for"), "(")), LAMBDA s :
  After(base(s), LAMBDA c :
  After(match(c, ";"), LAMBDA t :
  After(Quiet(t, base), LAMBDA i :
  After(match(i, ")"), LAMBDA u :
  After(DoIf(Condition(c), u, statement), LAMBDA b :
  After(IF Condition(c) THEN InLex(b, getSubLex(i, t.p), base) ELSE b, LAMBDA v :
    Loop(v, Condition(c), getSubLex(c, s.p), getSubLex(i, t.p), getSubLex(b, u.p),
         TINYJS_LOOP_MAX_ITERATIONS))))))))

If(s0) ==
  After(base(match(match(s0, "if"), "(")), LAMBDA c :
  After(DoIf(Condition(c), match(c, ")"), statement), LAMBDA t :
    IF tk(t) # "else" THEN t
    ELSE DoIf(c.execute /\ ~Condition(c), match(t, "else"), statement)))

(* The variables of a var are those of the innermost scope.                 *)
Declare(s, value) ==
  IF s.execute THEN addChildNoDup(s, Len(s.scopes), tkStr(s), value) ELSE s
Declarations(s) ==
  IF tk(s) \in {";", "EOF"} THEN match(s, ";")
  ELSE LET last == Len(s.scopes)
           next(t) == Declarations(IF tk(t) = ";" THEN t ELSE match(t, ",")) IN
       After(match(Declare(s, IF tkStr(s) \in DOMAIN s.scopes[last] THEN s.scopes[last][tkStr(s)]
                              ELSE Undefined), "ID"), LAMBDA t :
         IF tk(t) # "=" THEN next(t)
         ELSE After(base(match(t, "=")), LAMBDA u :
                next(IF s.execute THEN replaceWith(u, Variable(last, tkStr(s)), Value(u, u.link)) ELSE u)))

Return(s0) ==
  After(match(s0, "return"), LAMBDA s :
  After(IF tk(s) = ";" THEN [s EXCEPT !.link = Temporary(Undefined)] ELSE base(s), LAMBDA t :
    match(IF ~t.execute THEN t
          ELSE [replaceWith(t, Variable(Len(t.scopes), "return"), Value(t, t.link))
                EXCEPT !.execute = FALSE], ";")))

Statement(s) ==
  CASE tk(s) \in {"ID", "INT", "STR", "-"} -> After(base(s), LAMBDA t : match(t, ";"))
    [] tk(s) = "{" -> block(s)
    [] tk(s) = ";" -> match(s, ";")
    [] tk(s) = "var" -> Declarations(match(s, "var"))
    [] tk(s) = "if" -> If(s)
    [] tk(s) = "while" -> While(s)
    [] tk(s) = "for" -> For(s)
    [] tk(s) = "return" -> Return(s)
    [] tk(s) = "function" ->
         After(parseFunctionDefinition(s), LAMBDA t :
           IF t.execute THEN addChildNoDup(t, Len(t.scopes), t.link.name, t.link.value) ELSE t)
    [] OTHER -> match(s, "EOF")

Parse(rule, s) == IF rule = "base" THEN Assignment(s) ELSE Statement(s)

RECURSIVE UntilEnd(_)
UntilEnd(s) == IF tk(s) = "EOF" THEN s ELSE After(statement(s), LAMBDA t : UntilEnd(t))

(* What a script leaves, with the variables of the root.                    *)
execute(root, text) ==
  UntilEnd([tokens |-> Tokens(text), p |-> 1, execute |-> TRUE, scopes |-> <<root>>,
            link |-> Temporary(Undefined), params |-> <<>>, out |-> <<>>, errors |-> 0])
================================================================================
