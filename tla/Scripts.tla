-------------------------------- MODULE Scripts --------------------------------
(***************************************************************************)
(* What a rule's script does, compared with what it means.  A script is a  *)
(* tree; Source writes it down with the parentheses that TinyJS needs, the *)
(* interpreter runs the text, and Meaning says what JavaScript has the tree *)
(* do.  TinyJS needs more parentheses than JavaScript where it has no, or   *)
(* another, precedence: round a mixture of && and ||, a second comparison,  *)
(* a - that does not come first, x++ that does not, an operand of !, and a   *)
(* shift; a variable that is shifted gets the value, so none is here.       *)
(* Scripts share the variables of one interpreter.                         *)
(***************************************************************************)
EXTENDS TinyJS

CONSTANTS
  MaxScripts   \* bound: scripts that run one after the other

VARIABLES
  root,      \* the variables of the interpreter
  told,      \* what the last script had the natives do
  errors,    \* errors it made
  meant,     \* what it means, from the variables that were there
  scripts

scriptVars == <<root, told, errors, meant, scripts>>

-------------------------------------------------------------------------------
(* Text *)

Sym(k) == <<k, "">>
Level(e) ==
  CASE e[1] \in {"=", "+=", "-=", "?", "<<", ">>"} -> 0
    [] e[1] \in {"&&", "||"} -> 1
    [] e[1] \in {"==", "!=", "<", ">", "<=", ">="} -> 2
    [] e[1] \in {"+", "-", "neg", "++", "--"} -> 3
    [] e[1] \in {"*", "%"} -> 4
    [] e[1] = "!" -> 5
    [] OTHER -> 6

RECURSIVE Source(_), Lines(_), Eval(_, _), Do(_, _), Rounds(_, _, _, _, _)

Operand(e, level) ==
  IF Level(e) >= level THEN Source(e) ELSE <<Sym("(")>> \o Source(e) \o <<Sym(")")>>
Listed(items) == FlattenSeq([i \in DOMAIN items |-> IF i = 1 THEN items[i] ELSE <<Sym(",")>> \o items[i]])
Call(f, args) == <<<<"ID", f>>, Sym("(")>> \o Listed(args) \o <<Sym(")")>>

Source(e) ==
  CASE e[1] = "num" -> <<<<"INT", e[2]>>>>
    [] e[1] = "object" -> <<<<"STR", e[2]>>>>
    [] e[1] = "var" -> <<<<"ID", e[2]>>>>
    [] e[1] \in {"++", "--"} -> <<<<"ID", e[2]>>, Sym(e[1])>>
    [] e[1] \in {"=", "+=", "-="} -> <<<<"ID", e[2]>>, Sym(e[1])>> \o Operand(e[3], 0)
    [] e[1] = "?" -> Operand(e[2], 1) \o <<Sym("?")>> \o Operand(e[3], 0) \o <<Sym(":")>> \o Operand(e[4], 0)
    [] e[1] \in {"&&", "||"} ->
         Operand(e[2], IF e[2][1] = e[1] THEN 1 ELSE 2) \o <<Sym(e[1])>> \o Operand(e[3], 2)
    [] e[1] = "neg" -> <<Sym("-")>> \o Operand(e[2], 5)
    [] e[1] = "!" -> <<Sym("!")>> \o Operand(e[2], 6)
    [] e[1] = "call" -> Call(e[2], [i \in DOMAIN e[3] |-> Source(e[3][i])])
    [] e[1] \in {"<<", ">>"} -> Operand(e[2], 3) \o <<Sym(e[1])>> \o Operand(e[3], 0)
    [] Level(e) = 2 -> Operand(e[2], 3) \o <<Sym(e[1])>> \o Operand(e[3], 3)
    [] OTHER -> Operand(e[2], Level(e)) \o <<Sym(e[1])>> \o Operand(e[3], Level(e) + 1)

Bracketed(e) == <<Sym("(")>> \o Source(e) \o <<Sym(")")>>
Lines(st) ==
  CASE st[1] = "do" -> Source(st[2]) \o <<Sym(";")>>
    [] st[1] = "block" -> <<Sym("{")>> \o FlattenSeq([i \in DOMAIN st[2] |-> Lines(st[2][i])]) \o <<Sym("}")>>
    [] st[1] = "if" -> <<Sym("if")>> \o Bracketed(st[2]) \o Lines(st[3])
    [] st[1] = "ifelse" ->
         <<Sym("if")>> \o Bracketed(st[2]) \o Lines(st[3]) \o <<Sym("else")>> \o Lines(st[4])
    [] st[1] = "while" -> <<Sym("while")>> \o Bracketed(st[2]) \o Lines(st[3])
    [] st[1] = "for" ->
         <<Sym("for"), Sym("(")>> \o Lines(st[2]) \o Source(st[3]) \o <<Sym(";")>> \o Source(st[4])
           \o <<Sym(")")>> \o Lines(st[5])
    [] st[1] = "var" -> <<Sym("var"), <<"ID", st[2]>>, Sym("=")>> \o Source(st[3]) \o <<Sym(";")>>
    [] st[1] = "return" -> <<Sym("return")>> \o Source(st[2]) \o <<Sym(";")>>
    [] st[1] = "function" ->
         <<Sym("function")>> \o Call(st[2], [i \in DOMAIN st[3] |-> <<<<"ID", st[3][i]>>>>]) \o Lines(st[4])

(* Words do not touch; between other tokens may be nothing, or a gap.       *)
Gaps == {<<>>, <<"/", "*", "x", "*", "/">>, <<"\n", "/", "/", "=", "\n">>}
Chars(token) ==
  CASE token[1] = "INT" -> IF token[2] < 10 THEN <<Digits[token[2] + 1]>>
                           ELSE <<Digits[(token[2] \div 10) + 1], Digits[(token[2] % 10) + 1]>>
    [] token[1] = "ID" -> <<token[2]>>
    [] token[1] = "STR" -> <<"\"", token[2], "\"">>
    [] token[1] \in Range(Operators) -> CHOOSE two \in DOMAIN Operators : Operators[two] = token[1]
    [] OTHER -> <<token[1]>>
IsWord(token) == token[1] \in {"INT", "ID"} \cup Keywords
TextOf(tokens, gap) ==
  FlattenSeq([i \in DOMAIN tokens |->
    IF gap = <<>> /\ i > 1 /\ IsWord(tokens[i]) /\ IsWord(tokens[i - 1]) THEN <<" ">> \o Chars(tokens[i])
    ELSE gap \o Chars(tokens[i])])

-------------------------------------------------------------------------------
(* Meaning: globals and locals (none outside functions), what natives are   *)
(* told, the value of the last expression, and two flags: a return is on    *)
(* its way, and a loop has reached the limit of TinyJS.                     *)

Functions ==
  [sum |-> <<"function", "sum", <<"a", "b">>, <<"block", <<<<"return", <<"+", <<"var", "a">>, <<"var", "b">>>>>>>>>>>>,
   fact |-> <<"function", "fact", <<"n">>,
     <<"block", <<<<"if", <<"<=", <<"var", "n">>, <<"num", 1>>>>, <<"return", <<"num", 1>>>>>>,
                  <<"return", <<"*", <<"var", "n">>, <<"call", "fact", <<<<"-", <<"var", "n">>, <<"num", 1>>>>>>>>>>>>>>>>>>,
   search |-> <<"function", "search", <<"a">>,
     <<"block", <<<<"for", <<"var", "i", <<"num", 0>>>>, <<"<", <<"var", "i">>, <<"num", 3>>>>, <<"++", "i">>,
                    <<"block", <<<<"if", <<"==", <<"*", <<"var", "i">>, <<"var", "i">>>>, <<"var", "a">>>>,
                                   <<"return", <<"var", "i">>>>>>>>>>>>,
                  <<"return", <<"num", 9>>>>>>>>>>,
   tell |-> <<"function", "tell", <<"a">>,
     <<"block", <<<<"do", <<"call", "SetObjectValue", <<<<"object", "sensor1">>, <<"var", "a">>>>>>>>,
                  <<"do", <<"=", "x", <<"var", "a">>>>>>,
                  <<"return", <<"num", 1>>>>>>>>>>]

Apply(op, a, b) ==
  LET truth(t) == IF t THEN 1 ELSE 0 IN
  CASE op = "+" -> a + b [] op = "-" -> a - b [] op = "*" -> a * b
    [] op = "%" -> a - b * (IF a >= 0 THEN a \div b ELSE -((-a) \div b))
    [] op = "<<" -> a * 2 ^ b [] op = ">>" -> a \div 2 ^ b
    [] op = "==" -> truth(a = b) [] op = "!=" -> truth(a # b)
    [] op = "<" -> truth(a < b) [] op = ">" -> truth(a > b)
    [] op = "<=" -> truth(a <= b) [] op = ">=" -> truth(a >= b)

Assign(m, x, v) ==
  IF x \in DOMAIN m.locals THEN [m EXCEPT !.locals[x] = v, !.v = v]
  ELSE [m EXCEPT !.globals = (x :> v) @@ @, !.v = v]
ReadVariable(m, x) == IF x \in DOMAIN m.locals THEN m.locals[x] ELSE m.globals[x]

Enter(m, f, args) ==
  IF f = "SetObjectValue"
  THEN [m EXCEPT !.told = Append(@, <<f, [object |-> args[1], value |-> args[2]]>>)]
  ELSE IF f = "GetObjectIntValue" THEN [m EXCEPT !.v = ObjectValues[args[1]]]
  ELSE LET g == Functions[f] IN
       After(Do(g[4], [m EXCEPT !.locals = [p \in {g[3][i] : i \in DOMAIN g[3]} |->
                                             args[CHOOSE i \in DOMAIN g[3] : g[3][i] = p]],
                                !.within = TRUE]),
             LAMBDA n : [n EXCEPT !.locals = m.locals, !.within = m.within, !.returns = FALSE])

Eval(e, m) ==
  CASE e[1] \in {"num", "object"} -> [m EXCEPT !.v = e[2]]
    [] e[1] = "var" -> [m EXCEPT !.v = ReadVariable(m, e[2])]
    [] e[1] = "neg" -> After(Eval(e[2], m), LAMBDA a : [a EXCEPT !.v = -a.v])
    [] e[1] = "!" -> After(Eval(e[2], m), LAMBDA a : [a EXCEPT !.v = Apply("==", a.v, 0)])
    [] e[1] = "&&" -> After(Eval(e[2], m), LAMBDA a : IF a.v = 0 THEN a ELSE Eval(e[3], a))
    [] e[1] = "||" -> After(Eval(e[2], m), LAMBDA a : IF a.v # 0 THEN a ELSE Eval(e[3], a))
    [] e[1] = "?" -> After(Eval(e[2], m), LAMBDA a : Eval(IF a.v # 0 THEN e[3] ELSE e[4], a))
    [] e[1] = "=" -> After(Eval(e[3], m), LAMBDA a : Assign(a, e[2], a.v))
    [] e[1] = "+=" -> After(Eval(e[3], m), LAMBDA a : Assign(a, e[2], ReadVariable(a, e[2]) + a.v))
    [] e[1] = "-=" -> After(Eval(e[3], m), LAMBDA a : Assign(a, e[2], ReadVariable(a, e[2]) - a.v))
    [] e[1] = "++" -> [Assign(m, e[2], ReadVariable(m, e[2]) + 1) EXCEPT !.v = ReadVariable(m, e[2])]
    [] e[1] = "--" -> [Assign(m, e[2], ReadVariable(m, e[2]) - 1) EXCEPT !.v = ReadVariable(m, e[2])]
    [] e[1] = "call" ->
         After(FoldLeft(LAMBDA a, arg : After(Eval(arg, a.m), LAMBDA b : [m |-> b, args |-> Append(a.args, b.v)]),
                        [m |-> m, args |-> <<>>], e[3]),
               LAMBDA a : Enter(a.m, e[2], a.args))
    [] OTHER -> After(Eval(e[2], m), LAMBDA a : After(Eval(e[3], a), LAMBDA b :
                  [b EXCEPT !.v = Apply(e[1], a.v, b.v)]))

Rounds(c, iter, body, n, m) ==
  IF n = TINYJS_LOOP_MAX_ITERATIONS THEN [m EXCEPT !.long = TRUE]
  ELSE After(Eval(c, m), LAMBDA a :
         IF a.v = 0 THEN a
         ELSE After(Do(body, a), LAMBDA b :
                IF b.returns THEN b ELSE Rounds(c, iter, body, n + 1, Eval(iter, b))))

Do(st, m) ==
  IF m.returns THEN m
  ELSE CASE st[1] = "do" -> Eval(st[2], m)
         [] st[1] = "block" -> FoldLeft(LAMBDA a, s : Do(s, a), m, st[2])
         [] st[1] = "if" -> After(Eval(st[2], m), LAMBDA a : IF a.v # 0 THEN Do(st[3], a) ELSE a)
         [] st[1] = "ifelse" -> After(Eval(st[2], m), LAMBDA a : Do(IF a.v # 0 THEN st[3] ELSE st[4], a))
         [] st[1] = "while" -> Rounds(st[2], <<"num", 0>>, st[3], 0, m)
         [] st[1] = "for" -> Rounds(st[3], st[4], st[5], 0, Do(st[2], m))
         [] st[1] = "var" ->
              After(Eval(st[3], m), LAMBDA a :
                IF m.within THEN [a EXCEPT !.locals = (st[2] :> a.v) @@ @] ELSE Assign(a, st[2], a.v))
         [] st[1] = "return" -> [Eval(st[2], m) EXCEPT !.returns = TRUE]

NoLocals == [n \in {} |-> 0]
Meaning(st, globals) ==
  Do(st, [globals |-> globals, locals |-> NoLocals, within |-> FALSE, told |-> <<>>,
          v |-> 0, returns |-> FALSE, long |-> FALSE])

-------------------------------------------------------------------------------
(* Scripts *)

x == <<"var", "x">>
y == <<"var", "y">>
num(n) == <<"num", n>>
set(e) == <<"do", <<"=", "x", e>>>>
tell(e) == <<"call", "tell", <<e>>>>

Sums == {<<op, a, b>> : op \in {"+", "-", "*"}, a \in {x, num(2)}, b \in {y}}
          \cup {<<"%", x, num(2)>>, <<"neg", x>>, <<"call", "sum", <<x, y>>>>}
Nested == {<<op, s, y>> : op \in {"+", "-", "*"}, s \in Sums} \cup {<<"-", y, s>> : s \in Sums}
            \cup {<<"*", num(2), s>> : s \in Sums}
            \cup {<<op, e, <<"?", y, num(1), num(0)>>>> : op \in {"<<", ">>"}, e \in {<<"+", x, num(1)>>, <<"neg", x>>}}
            \cup {<<"+", <<"++", "y">>, x>>, <<"+", x, <<"--", "y">>>>, <<"neg", <<"+", x, y>>>>}
Comparisons == {<<op, x, y>> : op \in {"==", "!=", "<", ">", "<=", ">="}} \cup {<<"<", <<"-", x, y>>, num(1)>>}
Truths ==
  Comparisons
  \cup {<<op, <<"<", x, y>>, tell(num(n))>> : op \in {"&&", "||"}, n \in {0, 2}}
  \cup {<<"||", <<"&&", <<"<", x, y>>, tell(num(0))>>, <<">", y, num(1)>>>>,
        <<"&&", <<"<", x, num(1)>>, <<"||", tell(num(1)), <<"==", y, num(0)>>>>>>,
        <<"!", x>>, <<"!", <<"&&", <<"<", x, y>>, tell(y)>>>>}
Expressions ==
  Sums \cup Nested \cup Truths
  \cup {<<"?", t, tell(num(1)), <<"-", y, x>>>> : t \in Truths}
  \cup {<<"=", "y", <<"+", x, num(1)>>>>, <<"+=", "y", <<"=", "z", x>>>>, <<"call", "fact", <<<<"+", x, num(1)>>>>>>,
        <<"call", "search", <<y>>>>, <<"call", "GetObjectIntValue", <<<<"object", "sensor1">>>>>>}

Simple == {set(e) : e \in Expressions} \cup {<<"do", <<"-=", "x", y>>>>, <<"do", <<"++", "y">>>>, <<"do", tell(x)>>}
Guarded == {<<"if", <<"<", y, num(1)>>, <<"block", <<set(tell(num(2)))>>>>>>}
Few == Guarded \cup {set(<<"?", <<"<", x, y>>, tell(y), num(1)>>), <<"block", <<<<"do", <<"++", "x">>>>, <<"var", "y", x>>>>>>,
                       <<"do", <<"++", "x">>>>}
Conditional ==
  {<<"block", <<<<"ifelse", t, s, r>>, <<"do", <<"+=", "y", num(1)>>>>>>>> :
     t \in Truths, s \in Few \ Guarded, r \in Guarded}
Loops ==
  {<<"while", <<"<", x, num(n)>>, <<"block", <<s, <<"do", <<"++", "x">>>>>>>>>> : n \in {1, 4, 5}, s \in Few}
  \cup {<<"for", <<"do", <<"=", "y", num(0)>>>>, <<"&&", <<"<", y, num(n)>>, <<"!=", x, num(1)>>>>, <<"++", "y">>, s>> :
          n \in {1, 4, 5}, s \in {<<"do", tell(y)>>, <<"do", <<"++", "x">>>>, <<"block", <<>>>>,
             <<"while", <<">", x, num(0)>>, <<"do", <<"--", "x">>>>>>}}
Pool ==
  Simple \cup Conditional \cup Loops
  \cup {<<"if", num(0), s>> : s \in Few \cup Loops \cup {set(t) : t \in Truths}}
  \cup {<<"if", num(0), s>> : s \in {Functions[f] : f \in DOMAIN Functions}}

-------------------------------------------------------------------------------
Natives ==
  [GetObjectIntValue |-> Native("GetObjectIntValue", <<"object">>),
   SetObjectValue |-> Native("SetObjectValue", <<"object", "value">>)]
Library ==
  execute(Natives, TextOf(FlattenSeq([i \in 1..4 |->
    Lines(Functions[<<"sum", "fact", "search", "tell">>[i]])]), <<>>)).scopes[1]

ScriptsInit ==
  /\ \E gx \in {-1, 2}, gy \in {0, 1} :
       /\ meant = [Meaning(<<"block", <<>>>>, [x |-> gx, y |-> gy]) EXCEPT !.v = 0]
       /\ root = Library @@ [x |-> Number(gx), y |-> Number(gy)]
  /\ told = <<>> /\ errors = 0 /\ scripts = 0

RunScript(st, gap) ==
  /\ scripts < MaxScripts /\ scripts' = scripts + 1 /\ ~meant.long
  /\ \E s \in {execute(root, TextOf(Lines(st), gap))} :
       root' = s.scopes[1] /\ told' = s.out /\ errors' = s.errors
  /\ meant' = [Meaning(st, meant.globals) EXCEPT !.v = 0]

ScriptsNext == \E st \in Pool, gap \in Gaps : RunScript(st, gap)

ScriptsSpec == ScriptsInit /\ [][ScriptsNext]_scriptVars

(* A script changes the variables, and has the natives do, what it means,   *)
(* and makes no error: whatever it skips, reads again, calls or returns     *)
(* from, and whatever scripts have run before.  TinyJS reports a loop that  *)
(* reaches its limit of rounds, and gives it up.                            *)
ScriptsMeanWhatTheySay ==
  \/ meant.long /\ errors > 0
  \/ /\ errors = 0 /\ told = meant.told
     /\ meant.globals = [v \in {n \in DOMAIN root : root[n].t = "int"} |-> root[v].n]
================================================================================
