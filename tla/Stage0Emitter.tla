--------------------------- MODULE Stage0Emitter ----------------------------
(***************************************************************************)
(* The code generator of the bootstrap compiler (bootstrap/stage0.c, lines *)
(* 788-815 and 1218-1733): LLVM instructions for one checked function.     *)
(* An emitter m is the code so far, the counters of temporaries and        *)
(* labels, the name of the current block and the last value.               *)
(***************************************************************************)
EXTENDS Stage0Checker

LlvmType(type) ==
    CASE type = "Integer" -> "i64"
      [] type = "Character" -> "i32"
      [] type = "Boolean" -> "i1"
      [] type = "Nothing" -> "void"
      [] OTHER -> "ptr"

Block(name, number) == [block |-> name, number |-> number]
Entry == Block("entry", 0)

Constant(type, value) == [type |-> type, register |-> -1, constant |-> value]
Register(type, n) == [type |-> type, register |-> n, constant |-> 0]
NoValue == Constant("Nothing", 0)

NewEmitter ==
    [code |-> <<>>, temporary |-> 0, label |-> 0, current |-> Entry, value |-> NoValue]

Put(m, instruction) == [m EXCEPT !.code = Append(@, instruction)]

(* An instruction whose result goes to a new temporary. *)
PutValue(m, type, instruction) ==
    [m EXCEPT !.code = Append(@, instruction @@ [to |-> m.temporary]),
              !.temporary = @ + 1,
              !.value = Register(type, m.temporary)]

PutLabel(m, block) ==
    [m EXCEPT !.code = Append(@, [op |-> "label", name |-> block]), !.current = block]

Branch(block) == [op |-> "branch", target |-> block]
Choose(value, then, else) == [op |-> "choose", value |-> value, then |-> then, else |-> else]
CallTo(function, arguments, returns) ==
    [op |-> "call", function |-> function, arguments |-> arguments, returns |-> returns]

PutCall(m, function, arguments, type) ==
    IF type = "Nothing"
    THEN [Put(m, CallTo(function, arguments, "void")) EXCEPT !.value = NoValue]
    ELSE PutValue(m, type, CallTo(function, arguments, LlvmType(type)))

Convert(value, from, into) == [op |-> "convert", value |-> value, from |-> from, into |-> into]
-----------------------------------------------------------------------------
RECURSIVE EmitExpression(_, _)

(* Operands are emitted from left to right. *)
EmitAll(m, es) ==
    FoldLeft(LAMBDA all, e : LET next == EmitExpression(all.m, e)
                             IN  [m |-> next, values |-> Append(all.values, next.value)],
             [m |-> m, values |-> <<>>], es)

(* The runtime's function for a call of the language's, by the type of its *)
(* argument.                                                               *)
ByType(type) ==
    CASE type = "Integer" -> 1 [] type = "Character" -> 2 [] type = "Boolean" -> 3 [] OTHER -> 4
Printer(type) ==
    <<"minyar_print_integer", "minyar_print_character", "minyar_print_boolean",
      "minyar_print_text">>[ByType(type)]
Describer(type) ==
    <<"minyar_integer_text", "minyar_character_text", "minyar_boolean_text",
      "minyar_boolean_text">>[ByType(type)]
Runtime ==
    [fail |-> "minyar_fail", joinText |-> "minyar_join_texts",
     readTextFile |-> "minyar_read_text_file", writeTextFile |-> "minyar_write_text_file",
     argumentCount |-> "minyar_argument_count", argument |-> "minyar_argument"]

(* A call whose arguments a are emitted. *)
EmitCall(a, e) ==
    LET type == a.values[1].type
    IN  CASE e.function = "print" -> PutCall(a.m, Printer(type), a.values, "Nothing")
          [] e.function = "Text" ->
               IF type = "Text" THEN [a.m EXCEPT !.value = a.values[1]]
               ELSE PutCall(a.m, Describer(type), a.values, "Text")
          [] e.function \in DOMAIN Builtin ->
               PutCall(a.m, Runtime[e.function], a.values, e.type)
          [] OTHER -> PutCall(a.m, e.function, a.values, e.type)

EmitUnary(r, e) ==
    IF e.operator = "!" THEN PutValue(r, "Boolean", [op |-> "not", value |-> r.value])
    ELSE PutValue(r, "Integer", [op |-> "checked", operator |-> "-",
                                 left |-> Constant("Integer", 0), right |-> r.value])

EmitMember(l, e) ==
    LET function == IF e.left.type # "Text" THEN "minyar_list_length"
                    ELSE IF e.name = "byteLength" THEN "minyar_text_byte_length"
                    ELSE "minyar_text_length"
    IN  PutCall(l, function, <<l.value>>, "Integer")

(* Lists hold 64-bit words. *)
EmitIndex(a, e) ==
    LET raw == PutCall(a.m, "minyar_list_get", a.values, "Integer")
    IN  IF e.left.type = "Text" THEN PutCall(a.m, "minyar_text_character_at", a.values, "Character")
        ELSE IF e.type = "Integer" THEN raw
        ELSE PutValue(raw, e.type, Convert(raw.value, "i64", LlvmType(e.type)))

Widened(m) ==
    IF m.value.type = "Integer" THEN m
    ELSE PutValue(m, "Integer", Convert(m.value, LlvmType(m.value.type), "i64"))

EmitAdd(list, element) ==
    PutCall(element, "minyar_list_add", <<list, element.value>>, "Nothing")

EmitMethod(l, e) ==
    LET slice == EmitAll(l, e.arguments)
    IN  IF e.left.type = "Text"
        THEN PutCall(slice.m, "minyar_text_slice", <<l.value>> \o slice.values, "Text")
        ELSE EmitAdd(l.value, Widened(EmitExpression(l, e.arguments[1])))

(* Mutant: the phi names the block in which the right operand began. *)
BlocksAtStart(left, begun, right) == <<left.current, begun.current>>

(* The blocks from which the end of a logical operation is reached: where  *)
(* the evaluation of its operands ended.                                   *)
PhiBlocks(left, begun, right) == <<left.current, right.current>>

(* Mutant: the right operand of || is evaluated when the left is true. *)
RightWhenTrue(operator, value, right, end) == Choose(value, right, end)

LogicalBranch(operator, value, right, end) ==
    IF operator = "&&" THEN Choose(value, right, end) ELSE Choose(value, end, right)

(* The right operand and the end of a logical operation. *)
EmitLogical(left, e) ==
    LET rightBlock == Block("logical.right", left.label)
        endBlock == Block("logical.end", left.label + 1)
        begun == PutLabel(Put([left EXCEPT !.label = @ + 2],
                              LogicalBranch(e.operator, left.value, rightBlock, endBlock)),
                          rightBlock)
        right == EmitExpression(begun, e.right)
        from == PhiBlocks(left, begun, right)
        short == Constant("Boolean", IF e.operator = "&&" THEN 0 ELSE 1)
    IN  PutValue(PutLabel(Put(right, Branch(endBlock)), endBlock), "Boolean",
                 [op |-> "phi", choices |-> <<[value |-> short, from |-> from[1]],
                                              [value |-> right.value, from |-> from[2]]>>])

EmitBinary(a, e) ==
    LET left == a.values[1]
        right == a.values[2]
        both == [left |-> left, right |-> right, operator |-> e.operator]
        equal == PutCall(a.m, "minyar_texts_are_equal", a.values, "Boolean")
    IN  CASE e.operator = "+" /\ left.type = "Text" ->
               PutCall(a.m, "minyar_join_text", a.values, "Text")
          [] e.operator = "==" /\ left.type = "Text" -> equal
          [] e.operator = "!=" /\ left.type = "Text" ->
               PutValue(equal, "Boolean", [op |-> "not", value |-> equal.value])
          [] e.operator \in {"+", "-", "*"} /\ left.type # "Text" ->
               PutValue(a.m, "Integer", [op |-> "checked"] @@ both)
          [] e.operator \in {"/", "%"} -> PutValue(a.m, "Integer", [op |-> "divide"] @@ both)
          [] e.operator \in {"<", ">", "<=", ">=", "==", "!="} /\ left.type # "Text" ->
               PutValue(a.m, "Boolean", [op |-> "compare"] @@ both)

EmitExpression(m, e) ==
    CASE e.kind = "literal" -> [m EXCEPT !.value = Constant(e.type, e.value)]
      [] e.kind = "name" -> PutValue(m, e.type, [op |-> "load", local |-> e.local])
      [] e.kind = "call" -> EmitCall(EmitAll(m, e.arguments), e)
      [] e.kind = "unary" -> EmitUnary(EmitExpression(m, e.right), e)
      [] e.kind = "member" -> EmitMember(EmitExpression(m, e.left), e)
      [] e.kind = "index" -> EmitIndex(EmitAll(m, <<e.left, e.right>>), e)
      [] e.kind = "list" -> PutCall(m, "minyar_list_new", <<>>, e.type)
      [] e.kind = "method" -> EmitMethod(EmitExpression(m, e.left), e)
      [] e.kind = "binary" ->
           IF e.operator \in {"&&", "||"} THEN EmitLogical(EmitExpression(m, e.left), e)
           ELSE EmitBinary(EmitAll(m, <<e.left, e.right>>), e)
-----------------------------------------------------------------------------
RECURSIVE EmitStatements(_, _, _)

Emitted(m, returns) == [m |-> m, returns |-> returns]

EmitStore(v, s) == Put(v, [op |-> "store", value |-> v.value, local |-> s.local])

EmitSet(target, v) == PutCall(v, "minyar_list_set", Append(target.values, v.value), "Nothing")
EmitIndexAssign(target, s) == EmitSet(target, Widened(EmitExpression(target.m, s.expression)))

Ret(value, type) == [op |-> "ret", value |-> value, type |-> type]

EmitReturn(f, v) ==
    LET status == PutValue(v, "Integer", Convert(v.value, "i64", "i32"))
    IN  IF f.name = "main" THEN Put(status, Ret(status.value, "i32"))
        ELSE Put(v, Ret(v.value, LlvmType(v.value.type)))

(* A branch that has not returned goes on to the block behind it. *)
Joined(branch, end) ==
    [branch EXCEPT !.m = IF branch.returns THEN @ ELSE Put(@, Branch(end))]

EmitBranch(f, m, block, body, end) == Joined(EmitStatements(f, PutLabel(m, block), body), end)

(* The branches of an if, its condition evaluated. *)
EmitIf(f, c, s) ==
    LET thenBlock == Block("if.then", c.label)
        elseBlock == Block("if.else", c.label + 1)
        endBlock == Block("if.end", c.label + 2)
        branch == Choose(c.value, thenBlock, IF s.else = <<>> THEN endBlock ELSE elseBlock)
        then == EmitBranch(f, Put([c EXCEPT !.label = @ + 3], branch), thenBlock, s.then, endBlock)
        else == IF s.else = <<>> THEN Emitted(then.m, FALSE)
                ELSE EmitBranch(f, then.m, elseBlock, s.else, endBlock)
    IN  IF then.returns /\ else.returns THEN else
        ELSE Emitted(PutLabel(else.m, endBlock), FALSE)

EmitWhile(f, m, s) ==
    LET condition == Block("while.condition", m.label)
        bodyBlock == Block("while.body", m.label + 1)
        endBlock == Block("while.end", m.label + 2)
        start == PutLabel(Put([m EXCEPT !.label = @ + 3], Branch(condition)), condition)
        choose(c) == Put(c, Choose(c.value, bodyBlock, endBlock))
        body == EmitBranch(f, choose(EmitExpression(start, s.expression)), bodyBlock, s.body, condition)
    IN  Emitted(PutLabel(body.m, endBlock), FALSE)

EmitStatement(f, m, s) ==
    LET value == EmitExpression(m, s.expression)
    IN  CASE s.do \in {"let", "assign"} -> Emitted(EmitStore(value, s), FALSE)
          [] s.do = "indexAssign" -> Emitted(EmitIndexAssign(EmitAll(m, <<s.target.left, s.target.right>>), s), FALSE)
          [] s.do = "expression" -> Emitted(value, FALSE)
          [] s.do = "return" ->
               Emitted(IF s.expression = NoExpression THEN Put(m, Ret(NoValue, "void"))
                       ELSE EmitReturn(f, value), TRUE)
          [] s.do = "if" -> EmitIf(f, value, s)
          [] s.do = "while" -> EmitWhile(f, m, s)

(* What stands behind a statement that returns is not emitted. *)
EmitRest(f, first, rest) == IF first.returns THEN first ELSE EmitStatements(f, first.m, rest)

EmitStatements(f, m, statements) ==
    IF statements = <<>> THEN Emitted(m, FALSE)
    ELSE EmitRest(f, EmitStatement(f, m, Head(statements)), Tail(statements))

(* The part of emit_program for one function; its locals have their slots  *)
(* when it starts, and its parameters are stored in the first of them.     *)
EmitFunction(f) ==
    LET start == FoldLeft(LAMBDA m, i : Put(m, [op |-> "argument", local |-> i]),
                          PutLabel(NewEmitter, Entry),
                          [i \in DOMAIN f.parameters |-> i])
        end == IF f.name = "main" THEN Ret(Constant("Character", 0), "i32")
               ELSE IF f.returns = "Nothing" THEN Ret(NoValue, "void")
               ELSE [op |-> "unreachable"]
        closed(body) == IF body.returns THEN body.m ELSE Put(body.m, end)
    IN  closed(EmitStatements(f, start, f.body)).code
=============================================================================
