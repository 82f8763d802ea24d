------------------------------ MODULE MCStage0 ------------------------------
(***************************************************************************)
(* The bootstrap compiler on small functions (Stage0) and, for other       *)
(* initial states, its lexer on short sources (Stage0Lexer).  The parser   *)
(* asks for one token after the other and gives none back, so the two      *)
(* meet in the tokens only: a behaviour runs one of them.                  *)
(***************************************************************************)
EXTENDS Stage0

VARIABLES source, cursor, line, column, found, ended   \* of Stage0Lexer

MCFunctions == [c |-> Signature(<<>>, "Boolean"), n |-> Signature(<<"Boolean">>, "Integer")]

C == Call("c", <<>>)
X == Name("x")
Y == Name("y")
One == Literal("Integer", 1)
Largest == Literal("Integer", 2^(WordBits - 1) - 1)
Printed(e) == Evaluate(Call("print", <<e>>))

Xs == <<Parameter("x", "Boolean")>>
Test(returns, body) == Function("f", Xs, returns, body)

(* Logical operations in each other: operands end in blocks other than     *)
(* those they began in.                                                    *)
Nested(E) == E \cup {Unary("!", e) : e \in E}
             \cup {Binary(o, l, r) : o \in {"&&", "||"}, l \in E, r \in E}
Logic == Nested({C, X})
LogicPrograms ==
    {Test("Boolean", <<Return(e)>>) : e \in Nested(Logic)}
    \cup {Test("Nothing", <<While(e, <<Printed(X), Assign("x", C)>>), Printed(X)>>) : e \in Logic}

(* Branches, loops, returns and scopes in each other. *)
Plain == {Let("y", "Unknown", C), Assign("y", X), Assign("x", Y), Return(Y), Printed(X)}
Blocks == {<<>>} \cup {<<s>> : s \in Plain \cup {Return(X)}}
Compound == {If(C, then, else) : then \in Blocks, else \in Blocks} \cup {While(C, b) : b \in Blocks}
FlowPrograms ==
    {Test("Boolean", body \o <<Return(X)>>) :
        body \in {<<s>> : s \in Compound} \cup {<<s, t>> : s \in Plain, t \in Compound}
                 \cup {<<s, t>> : s \in Compound, t \in Plain}}
    \cup {Test("Boolean", <<s>>) : s \in Compound}
    \cup {Test("Boolean", <<If(C, <<s>>, <<t>>)>>) :
             s \in {Return(X), If(C, <<Return(X)>>, <<Return(C)>>)},
             t \in Compound}
    \cup {Test("Nothing", <<While(C, <<s, Printed(X)>>), Return(NoExpression)>>) : s \in Compound}
    \cup {Test("Boolean", <<s, t, Return(X)>>) :
             s \in {While(C, <<s>>) : s \in Compound} \cup {If(C, <<s>>, <<>>) : s \in Compound}
                  \cup {If(X, <<Return(X)>>, <<s>>) : s \in Compound},
             t \in {Let("y", "Unknown", X), Printed(X), Return(X)}}

(* Operations on all types. *)
Leaves == {One, Literal("Text", 0), Literal("Character", 1), X, Name("l"), Name("k"), Name("t")}
AllTypes ==
    <<Parameter("x", "Boolean"), Parameter("l", "List<Boolean>"),
      Parameter("k", "List<Character>"), Parameter("t", "Text")>>
Operations ==
    {Binary(o, l, r) : o \in {"+", "<", "==", "!=", "%"}, l \in Leaves, r \in Leaves}
    \cup {Unary(o, e) : o \in {"!", "-"}, e \in Leaves}
    \cup {Index(l, r) : l \in Leaves, r \in {One, X}}
    \cup {Member(l, p) : l \in Leaves, p \in {"length", "byteLength"}}
    \cup {Method(l, "add", <<e>>) : l \in Leaves, e \in Leaves}
    \cup {Method(Name("t"), "slice", <<One, e>>) : e \in Leaves}
    \cup {Call(f, <<e>>) : f \in {"fail", "joinText", "readTextFile", "argument", "n"}, e \in Leaves}
    \cup {Call("Text", <<e>>) : e \in {One, X, Literal("Character", 1), Name("t")}}
    \cup {Call("writeTextFile", <<Name("t"), e>>) : e \in Leaves}
    \cup {Call("argumentCount", <<>>)}
TypePrograms ==
    {Function("f", AllTypes, "Nothing", <<Printed(e)>>) : e \in Operations}
    \cup {Function("f", AllTypes, "Nothing", <<Evaluate(e)>>) : e \in Operations}
    \cup {Function("f", AllTypes, "Nothing", <<IndexAssign(Index(l, One), e)>>) :
             l \in Leaves, e \in Leaves}
    \cup {Function("f", AllTypes, "Nothing",
                   <<Let("z", d, EmptyList), Printed(Member(Name("z"), "length"))>>) :
             d \in {"Unknown", "Text", "List<Text>"}}

(* Operators of all strengths, in each other; some results overflow. *)
Levels == {"||", "&&", "==", "<", "+", "-", "*", "/"}
Two == Call("n", <<X>>)
OperatorPrograms ==
    {Function("main", <<>>, "Integer", <<Return(e)>>) :
        e \in {Binary(o, Binary(p, One, One), Largest) : o \in Levels, p \in Levels}
              \cup {Binary(o, Largest, Binary(p, One, One)) : o \in Levels, p \in Levels}
              \cup {Unary("-", Binary(p, One, Largest)) : p \in Levels}
              \cup {Binary(p, Unary("-", Largest), Unary("-", One)) : p \in Levels}}
    \cup {Test("Integer", <<Return(Binary(o, Two, Binary(p, Unary("-", Two), Two)))>>) :
             o \in Levels, p \in Levels}

MCPrograms == LogicPrograms \cup FlowPrograms \cup TypePrograms \cup OperatorPrograms

MCCompilations == {Compile(p, layout) : p \in MCPrograms, layout \in Layouts}
-----------------------------------------------------------------------------
(* Sources of all characters, and longer ones of those that together make  *)
(* comments, literals or numbers.                                          *)
Characters ==
    {" ", "\t", "\r", "\n", "a", "n", "0", "1", "9", "\"", "'", "\\", "/", "*", "=",
     "!", "&", "(", "#"}
MCSources ==
    SeqOf(Characters, 3)
    \cup SeqOf({"/", "*", "\t", "\n", "a"}, 5)
    \cup SeqOf({"\"", "'", "\\", "n", "\n"}, 5)
    \cup SeqOf({"0", "1", "9", "a", " "}, 4)

Lexer == INSTANCE Stage0Lexer WITH Sources <- MCSources, Largest <- 190

lexerVars == <<source, cursor, line, column, found, ended>>

NoProgram ==
    /\ program = NoExpression /\ tree = NoExpression /\ parsed = TRUE
    /\ checked = Rejected /\ code = <<>> /\ given = <<>>
    /\ pc = 2 /\ block = Entry /\ came = Entry
    /\ registers = <<>> /\ slots = <<>> /\ trace = <<>> /\ outcome = NotYet

NoSource ==
    source = <<>> /\ cursor = 1 /\ line = 1 /\ column = 1 /\ found = <<>> /\ ended = "none"

Stage0Init == (Init /\ NoSource) \/ (NoProgram /\ Lexer!Init)

CompilerPart == ended = "none" /\ Next /\ UNCHANGED lexerVars
LexerPart == ended # "none" /\ Lexer!Next /\ UNCHANGED vars

Stage0Next == CompilerPart \/ LexerPart

Stage0Spec == Stage0Init /\ [][Stage0Next]_<<vars, lexerVars>>
-----------------------------------------------------------------------------
(* The tokens of a source are the ones its characters spell, where they    *)
(* spell them, and only a source without tokens is refused (next_token).   *)
TokensExact == Lexer!TokensExact
=============================================================================
