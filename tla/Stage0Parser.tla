---------------------------- MODULE Stage0Parser ----------------------------
(***************************************************************************)
(* The parser of the bootstrap compiler (bootstrap/stage0.c): recursive    *)
(* descent over the tokens of one function.  The tokens not yet taken      *)
(* stand for the parser's lexer and its current token; after fail_at there *)
(* are none.                                                               *)
(***************************************************************************)
EXTENDS Integers, Sequences, SequencesExt

Token(kind, word, value) == [kind |-> kind, word |-> word, value |-> value]
Mark(kind) == Token(kind, "", 0)
Word(word) == Token("name", word, 0)

(* Trees.  Literals are numbers whatever their type. *)
Literal(type, value) == [kind |-> "literal", type |-> type, value |-> value]
Name(name) == [kind |-> "name", name |-> name]
Call(function, arguments) ==
    [kind |-> "call", function |-> function, arguments |-> arguments]
Unary(operator, right) == [kind |-> "unary", operator |-> operator, right |-> right]
Binary(operator, left, right) ==
    [kind |-> "binary", operator |-> operator, left |-> left, right |-> right]
Member(left, name) == [kind |-> "member", left |-> left, name |-> name]
Index(left, right) == [kind |-> "index", left |-> left, right |-> right]
EmptyList == [kind |-> "list"]
Method(left, name, arguments) ==
    [kind |-> "method", left |-> left, name |-> name, arguments |-> arguments]

NoExpression == [kind |-> "none"]
Let(name, declared, expression) ==
    [do |-> "let", name |-> name, declared |-> declared, expression |-> expression]
Assign(name, expression) == [do |-> "assign", name |-> name, expression |-> expression]
IndexAssign(target, expression) ==
    [do |-> "indexAssign", target |-> target, expression |-> expression]
Evaluate(expression) == [do |-> "expression", expression |-> expression]
Return(expression) == [do |-> "return", expression |-> expression]
If(expression, then, else) ==
    [do |-> "if", expression |-> expression, then |-> then, else |-> else]
While(expression, body) == [do |-> "while", expression |-> expression, body |-> body]

Parameter(name, type) == [name |-> name, type |-> type]
Function(name, parameters, returns, body) ==
    [name |-> name, parameters |-> parameters, returns |-> returns, body |-> body]

ListOf ==
    [Integer |-> "List<Integer>", Text |-> "List<Text>",
     Character |-> "List<Character>", Boolean |-> "List<Boolean>"]
ElementOf == [t \in Range(ListOf) |-> CHOOSE e \in DOMAIN ListOf : ListOf[e] = t]
-----------------------------------------------------------------------------
Failed == <<>>
Current(at) == IF at = Failed THEN Mark("failed") ELSE Head(at)
Kind(at) == Current(at).kind
WordIs(at, word) == Current(at) = Word(word)
Advance(at) == IF at = Failed THEN Failed ELSE Tail(at)
Expect(at, kind) == IF Kind(at) = kind THEN Advance(at) ELSE Failed
ExpectName(at) == Expect(at, "name")

Read(tree, at) == [tree |-> tree, at |-> at]
NoTree == Read(NoExpression, Failed)

RECURSIVE SkipSeparators(_)
SkipSeparators(at) ==
    IF Kind(at) \in {"newline", ";"} THEN SkipSeparators(Advance(at)) ELSE at

SimpleTypes == {"Integer", "Text", "Character", "Boolean", "Nothing"}

(* A List of Lists is refused; so is a List of Nothing. *)
RECURSIVE ParseType(_)
ParseType(at) ==
    IF Kind(at) # "name" THEN Read("Unknown", Failed)
    ELSE IF Current(at).word \in SimpleTypes THEN Read(Current(at).word, Advance(at))
    ELSE IF WordIs(at, "List")
    THEN LET element == ParseType(Expect(Advance(at), "<"))
         IN  IF element.tree \in DOMAIN ListOf
             THEN Read(ListOf[element.tree], Expect(element.at, ">"))
             ELSE Read("Unknown", Failed)
    ELSE Read("Unknown", Failed)

RECURSIVE ParseExpression(_), ParseUnary(_), ParseBinary(_, _)

(* A comma may follow the last argument. *)
RECURSIVE ParseArguments(_, _)
ParseArguments(at, found) ==
    IF Kind(at) = ")" THEN Read(found, Advance(at))
    ELSE LET e == ParseExpression(at)
             all == Append(found, e.tree)
         IN  IF Kind(e.at) = "," THEN ParseArguments(Advance(e.at), all)
             ELSE Read(all, Expect(e.at, ")"))

ParseAtom(at) ==
    CASE Kind(at) \in {"Integer", "Text", "Character"} ->
           Read(Literal(Kind(at), Current(at).value), Advance(at))
      [] WordIs(at, "true") \/ WordIs(at, "false") ->
           Read(Literal("Boolean", IF WordIs(at, "true") THEN 1 ELSE 0), Advance(at))
      [] Kind(at) = "name" /\ ~WordIs(at, "true") /\ ~WordIs(at, "false") ->
           IF Kind(Advance(at)) = "("
           THEN LET a == ParseArguments(Advance(Advance(at)), <<>>)
                IN  Read(Call(Current(at).word, a.tree), a.at)
           ELSE Read(Name(Current(at).word), Advance(at))
      [] Kind(at) = "(" ->
           LET e == ParseExpression(Advance(at)) IN Read(e.tree, Expect(e.at, ")"))
      [] Kind(at) = "[" -> Read(EmptyList, Expect(Advance(at), "]"))
      [] OTHER -> NoTree

RECURSIVE ParseSuffixes(_)
ParseSuffixes(p) ==
    LET next == Advance(p.at) IN
    CASE Kind(p.at) = "." ->
           LET name == Current(next).word
               after == ExpectName(next)
               a == ParseArguments(Advance(after), <<>>)
           IN  ParseSuffixes(IF Kind(after) = "(" THEN Read(Method(p.tree, name, a.tree), a.at)
                             ELSE Read(Member(p.tree, name), after))
      [] Kind(p.at) = "[" ->
           LET e == ParseExpression(next)
           IN  ParseSuffixes(Read(Index(p.tree, e.tree), Expect(e.at, "]")))
      [] OTHER -> p

ParsePrimary(at) == ParseSuffixes(ParseAtom(at))

ParseUnary(at) ==
    IF Kind(at) \in {"!", "-"}
    THEN LET right == ParseUnary(Advance(at)) IN Read(Unary(Kind(at), right.tree), right.at)
    ELSE ParsePrimary(at)

(* The operators of parse_expression, parse_and, ... parse_product. *)
Operators ==
    <<{"||"}, {"&&"}, {"==", "!="}, {"<", ">", "<=", ">="}, {"+", "-"}, {"*", "/", "%"}>>

(* The loop of parse_binary. *)
RECURSIVE Operands(_, _)
Operands(level, p) ==
    IF Kind(p.at) \in Operators[level]
    THEN LET right == ParseBinary(level + 1, Advance(p.at))
         IN  Operands(level, Read(Binary(Kind(p.at), p.tree, right.tree), right.at))
    ELSE p

ParseBinary(level, at) ==
    IF level > Len(Operators) THEN ParseUnary(at)
    ELSE Operands(level, ParseBinary(level + 1, at))

ParseExpression(at) == ParseBinary(1, at)

(* A semicolon does not let another statement follow on the same line. *)
FinishSimpleStatement(at) ==
    LET end == IF Kind(at) = ";" THEN Advance(at) ELSE at
    IN  IF Kind(end) = "newline" THEN SkipSeparators(end)
        ELSE IF Kind(end) = "}" THEN end ELSE Failed

Simple(statement, at) == Read(statement, FinishSimpleStatement(at))

RECURSIVE ParseBlock(_)

ParseLet(at) ==
    LET name == Current(at).word
        after == ExpectName(at)
        type == IF Kind(after) = ":" THEN ParseType(Advance(after)) ELSE Read("Unknown", after)
        e == ParseExpression(Expect(type.at, "="))
    IN  Simple(Let(name, type.tree, e.tree), e.at)

ParseReturn(at) ==
    LET e == IF Kind(at) \in {"newline", ";", "}"} THEN Read(NoExpression, at)
             ELSE ParseExpression(at)
    IN  Simple(Return(e.tree), e.at)

(* An else may stand on a later line. *)
ParseIf(at) ==
    LET e == ParseExpression(at)
        then == ParseBlock(e.at)
        after == SkipSeparators(then.at)
        else == IF WordIs(after, "else") THEN ParseBlock(Advance(after)) ELSE Read(<<>>, after)
    IN  Read(If(e.tree, then.tree, else.tree), else.at)

ParseWhile(at) ==
    LET e == ParseExpression(at)
        body == ParseBlock(e.at)
    IN  Read(While(e.tree, body.tree), body.at)

ParseSimple(at) ==
    LET e == ParseExpression(at)
        value == ParseExpression(Advance(e.at))
    IN  IF Kind(e.at) = "=" /\ e.tree.kind = "name" THEN Simple(Assign(e.tree.name, value.tree), value.at)
        ELSE IF Kind(e.at) = "=" /\ e.tree.kind = "index"
        THEN Simple(IndexAssign(e.tree, value.tree), value.at)
        ELSE Simple(Evaluate(e.tree), e.at)

ParseStatement(at) ==
    CASE WordIs(at, "let") -> ParseLet(Advance(at))
      [] WordIs(at, "return") -> ParseReturn(Advance(at))
      [] WordIs(at, "if") -> ParseIf(Advance(at))
      [] WordIs(at, "while") -> ParseWhile(Advance(at))
      [] OTHER -> ParseSimple(at)

RECURSIVE ParseStatements(_, _)
ParseStatements(at, found) ==
    IF Kind(at) = "}" THEN Read(found, Advance(at))
    ELSE IF at = Failed \/ Kind(at) = "eof" THEN Read(found, Failed)
    ELSE LET s == ParseStatement(at)
         IN  ParseStatements(SkipSeparators(s.at), Append(found, s.tree))

ParseBlock(at) == ParseStatements(SkipSeparators(Expect(at, "{")), <<>>)

RECURSIVE ParseParameters(_, _)
ParseParameters(at, found) ==
    IF Kind(at) = ")" THEN Read(found, Advance(at))
    ELSE LET type == ParseType(Expect(ExpectName(at), ":"))
             all == Append(found, Parameter(Current(at).word, type.tree))
         IN  IF Kind(type.at) = "," THEN ParseParameters(Advance(type.at), all)
             ELSE Read(all, Expect(type.at, ")"))

(* Without a written type main returns an Integer, others Nothing. *)
ParseFunction(at) ==
    LET name == Current(Advance(at)).word
        header == IF WordIs(at, "function") THEN ExpectName(Advance(at)) ELSE Failed
        parameters == ParseParameters(Expect(header, "("), <<>>)
        returns == IF Kind(parameters.at) = ":" THEN ParseType(Advance(parameters.at))
                   ELSE Read(IF name = "main" THEN "Integer" ELSE "Nothing", parameters.at)
        body == ParseBlock(returns.at)
    IN  Read(Function(name, parameters.tree, returns.tree, body.tree), body.at)

(* The file: here one function; anything behind it must be another. *)
Alone(f) == IF Kind(SkipSeparators(f.at)) = "eof" THEN f ELSE NoTree
ParseProgram(tokens) == Alone(ParseFunction(SkipSeparators(tokens)))
-----------------------------------------------------------------------------
(***************************************************************************)
(* The other direction, as a reader of docs/language.md would write a      *)
(* tree: parentheses only where precedence asks for them.                  *)
(***************************************************************************)
Strength(e) ==
    IF e.kind = "binary" THEN CHOOSE k \in DOMAIN Operators : e.operator \in Operators[k]
    ELSE IF e.kind = "unary" THEN 7 ELSE 8

RECURSIVE WriteExpression(_, _)
WriteList(es) ==
    FlattenSeq([i \in DOMAIN es |->
        (IF i = 1 THEN <<>> ELSE <<Mark(",")>>) \o WriteExpression(es[i], 1)])

WriteBare(e) ==
    CASE e.kind = "literal" ->
           IF e.type = "Boolean" THEN <<Word(IF e.value = 1 THEN "true" ELSE "false")>>
           ELSE <<Token(e.type, "", e.value)>>
      [] e.kind = "name" -> <<Word(e.name)>>
      [] e.kind = "call" -> <<Word(e.function), Mark("(")>> \o WriteList(e.arguments) \o <<Mark(")")>>
      [] e.kind = "unary" -> <<Mark(e.operator)>> \o WriteExpression(e.right, 7)
      [] e.kind = "binary" ->
           WriteExpression(e.left, Strength(e)) \o <<Mark(e.operator)>>
               \o WriteExpression(e.right, Strength(e) + 1)
      [] e.kind = "member" -> WriteExpression(e.left, 8) \o <<Mark("."), Word(e.name)>>
      [] e.kind = "index" ->
           WriteExpression(e.left, 8) \o <<Mark("[")>> \o WriteExpression(e.right, 1) \o <<Mark("]")>>
      [] e.kind = "list" -> <<Mark("["), Mark("]")>>
      [] e.kind = "method" ->
           WriteExpression(e.left, 8) \o <<Mark("."), Word(e.name), Mark("(")>>
               \o WriteList(e.arguments) \o <<Mark(")")>>

WriteExpression(e, strength) ==
    IF Strength(e) < strength THEN <<Mark("(")>> \o WriteBare(e) \o <<Mark(")")>> ELSE WriteBare(e)

WriteType(type) ==
    IF type \in SimpleTypes THEN <<Word(type)>>
    ELSE <<Word("List"), Mark("<"), Word(ElementOf[type]), Mark(">")>>

(* A layout says what ends a statement, what the last one of a block, and  *)
(* what stands before an else.                                             *)
Line == <<Mark("newline")>>
Layouts == {[end |-> Line, last |-> Line, else |-> <<>>],
            [end |-> <<Mark(";")>> \o Line, last |-> <<Mark(";")>>, else |-> Line],
            [end |-> Line \o Line, last |-> <<>>, else |-> Line \o <<Mark(";")>>]}

RECURSIVE WriteBlock(_, _)
WriteStatement(s, layout, end) ==
    CASE s.do = "let" ->
           <<Word("let"), Word(s.name)>>
               \o (IF s.declared = "Unknown" THEN <<>> ELSE <<Mark(":")>> \o WriteType(s.declared))
               \o <<Mark("=")>> \o WriteExpression(s.expression, 1) \o end
      [] s.do = "assign" -> <<Word(s.name), Mark("=")>> \o WriteExpression(s.expression, 1) \o end
      [] s.do = "indexAssign" ->
           WriteExpression(s.target, 1) \o <<Mark("=")>> \o WriteExpression(s.expression, 1) \o end
      [] s.do = "expression" -> WriteExpression(s.expression, 1) \o end
      [] s.do = "return" ->
           <<Word("return")>>
               \o (IF s.expression = NoExpression THEN <<>> ELSE WriteExpression(s.expression, 1)) \o end
      [] s.do = "if" ->
           <<Word("if")>> \o WriteExpression(s.expression, 1) \o WriteBlock(s.then, layout)
               \o (IF s.else = <<>> THEN <<>>
                   ELSE layout.else \o <<Word("else")>> \o WriteBlock(s.else, layout))
      [] s.do = "while" ->
           <<Word("while")>> \o WriteExpression(s.expression, 1) \o WriteBlock(s.body, layout)

WriteBlock(statements, layout) ==
    <<Mark("{")>>
    \o FlattenSeq([i \in DOMAIN statements |->
           WriteStatement(statements[i], layout,
                          IF i = Len(statements) THEN layout.last ELSE layout.end)])
    \o <<Mark("}")>>

WriteParameters(ps) ==
    FlattenSeq([i \in DOMAIN ps |->
        (IF i = 1 THEN <<>> ELSE <<Mark(",")>>)
            \o <<Word(ps[i].name), Mark(":")>> \o WriteType(ps[i].type)])

WriteProgram(f, layout) ==
    <<Word("function"), Word(f.name), Mark("(")>> \o WriteParameters(f.parameters)
    \o <<Mark(")"), Mark(":")>> \o WriteType(f.returns) \o WriteBlock(f.body, layout)
    \o <<Mark("newline"), Mark("eof")>>
=============================================================================
