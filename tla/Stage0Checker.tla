--------------------------- MODULE Stage0Checker ----------------------------
(***************************************************************************)
(* The checker of the bootstrap compiler (bootstrap/stage0.c, lines        *)
(* 817-1203).  It gives every expression its type and every name its       *)
(* local.  A tree of type "Wrong" stands for fail_at.                      *)
(***************************************************************************)
EXTENDS Stage0Parser, FiniteSets, TLC

CONSTANT Functions   \* signatures of the other functions of the program

Signature(parameters, returns) == [parameters |-> parameters, returns |-> returns]

(* The functions of the language, apart from print and Text. *)
Builtin ==
    [fail |-> Signature(<<"Text">>, "Nothing"),
     joinText |-> Signature(<<"List<Text>">>, "Text"),
     readTextFile |-> Signature(<<"Text">>, "Text"),
     writeTextFile |-> Signature(<<"Text", "Text">>, "Nothing"),
     argumentCount |-> Signature(<<>>, "Integer"),
     argument |-> Signature(<<"Integer">>, "Text")]

IsList(type) == type \in DOMAIN ElementOf

FindLocal(locals, name) ==
    LET hits == {i \in DOMAIN locals : locals[i].active /\ locals[i].name = name}
    IN  IF hits = {} THEN 0 ELSE CHOOSE i \in hits : \A j \in hits : j <= i

Local(name, type) == [name |-> name, type |-> type, active |-> TRUE]
-----------------------------------------------------------------------------
(* The type of a call.  The language's functions hide the program's.       *)
CallType(function, types) ==
    LET fits(s) == IF types = s.parameters THEN s.returns ELSE "Wrong"
    IN  CASE function \in {"print", "Text"} ->
               IF Len(types) = 1 /\ types[1] \notin {"Nothing", "Wrong"}
               THEN IF function = "print" THEN "Nothing" ELSE "Text"
               ELSE "Wrong"
          [] function \in DOMAIN Builtin -> fits(Builtin[function])
          [] function \in DOMAIN Functions \ DOMAIN Builtin -> fits(Functions[function])
          [] OTHER -> "Wrong"

BinaryType(operator, left, right) ==
    IF left # right THEN "Wrong"
    ELSE CASE operator \in {"==", "!="} -> IF left \in {"Nothing", "Wrong"} THEN "Wrong" ELSE "Boolean"
           [] operator \in {"&&", "||"} -> IF left = "Boolean" THEN "Boolean" ELSE "Wrong"
           [] operator \in {"<", ">", "<=", ">="} ->
                IF left \in {"Integer", "Character"} THEN "Boolean" ELSE "Wrong"
           [] OTHER -> IF operator = "+" /\ left = "Text" THEN "Text"
                       ELSE IF left = "Integer" THEN "Integer" ELSE "Wrong"

UnaryType(operator, right) ==
    LET operand == IF operator = "!" THEN "Boolean" ELSE "Integer"
    IN  IF right = operand THEN operand ELSE "Wrong"

MemberType(left, name) ==
    IF (left = "Text" /\ name \in {"byteLength", "length"}) \/ (IsList(left) /\ name = "length")
    THEN "Integer" ELSE "Wrong"

IndexType(left, right) ==
    IF right # "Integer" THEN "Wrong"
    ELSE IF left = "Text" THEN "Character"
    ELSE IF IsList(left) THEN ElementOf[left] ELSE "Wrong"

MethodType(left, name, types) ==
    IF left = "Text" /\ name = "slice" /\ types = <<"Integer", "Integer">> THEN "Text"
    ELSE IF IsList(left) /\ name = "add" /\ types = <<ElementOf[left]>> THEN "Nothing"
    ELSE "Wrong"

Types(es) == [i \in DOMAIN es |-> es[i].type]
Typed(type, e) == [type |-> type] @@ e

RECURSIVE CheckExpression(_, _)
CheckExpression(locals, e) ==
    LET check(part) == CheckExpression(locals, part)
        checkAll(es) == [i \in DOMAIN es |-> check(es[i])]
    IN  CASE e.kind = "literal" -> e
          [] e.kind = "list" -> Typed("Wrong", e)
          [] e.kind = "name" ->
               LET i == FindLocal(locals, e.name)
               IN  Typed(IF i = 0 THEN "Wrong" ELSE locals[i].type, e) @@ [local |-> i]
          [] e.kind = "call" ->
               LET a == checkAll(e.arguments)
               IN  Typed(CallType(e.function, Types(a)), [e EXCEPT !.arguments = a])
          [] e.kind = "unary" ->
               LET r == check(e.right)
               IN  Typed(UnaryType(e.operator, r.type), [e EXCEPT !.right = r])
          [] e.kind = "binary" ->
               LET l == check(e.left)
                   r == check(e.right)
               IN  Typed(BinaryType(e.operator, l.type, r.type), [e EXCEPT !.left = l, !.right = r])
          [] e.kind = "member" ->
               LET l == check(e.left) IN Typed(MemberType(l.type, e.name), [e EXCEPT !.left = l])
          [] e.kind = "index" ->
               LET l == check(e.left)
                   r == check(e.right)
               IN  Typed(IndexType(l.type, r.type), [e EXCEPT !.left = l, !.right = r])
          [] e.kind = "method" ->
               LET l == check(e.left)
                   a == checkAll(e.arguments)
               IN  Typed(MethodType(l.type, e.name, Types(a)),
                         [e EXCEPT !.left = l, !.arguments = a])
-----------------------------------------------------------------------------
(* statement_guarantees_return; a loop never does. *)
RECURSIVE GuaranteesReturn(_)
GuaranteesReturn(s) ==
    \/ s.do = "return"
    \/ /\ s.do = "if" /\ s.then # <<>> /\ s.else # <<>>
       /\ GuaranteesReturn(Last(s.then)) /\ GuaranteesReturn(Last(s.else))

(* Only a let gives an empty list its type. *)
CheckValue(locals, declared, e) ==
    IF e.kind = "list" THEN Typed(IF IsList(declared) THEN declared ELSE "Wrong", e)
    ELSE CheckExpression(locals, e)

(* The checker between two statements: the locals so far, the checked      *)
(* statements of this block, and whether anything failed.                  *)
Checking(locals) == [locals |-> locals, done |-> <<>>, ok |-> TRUE]
Checked(c, statement, ok) ==
    [c EXCEPT !.done = Append(@, statement), !.ok = @ /\ ok]

CheckLet(c, s) ==
    LET e == CheckValue(c.locals, s.declared, s.expression)
        ok == /\ e.type \notin {"Nothing", "Wrong"}
              /\ s.declared \in {"Unknown", e.type}
              /\ FindLocal(c.locals, s.name) = 0
    IN  [Checked(c, [s EXCEPT !.expression = e] @@ [local |-> Len(c.locals) + 1], ok)
            EXCEPT !.locals = Append(@, Local(s.name, e.type))]

CheckAssign(c, s) ==
    LET i == FindLocal(c.locals, s.name)
        e == CheckExpression(c.locals, s.expression)
    IN  Checked(c, [s EXCEPT !.expression = e] @@ [local |-> i],
                i # 0 /\ e.type # "Wrong" /\ (i # 0 => e.type = c.locals[i].type))

CheckIndexAssign(c, s) ==
    LET target == CheckExpression(c.locals, s.target)
        e == CheckExpression(c.locals, s.expression)
    IN  Checked(c, [s EXCEPT !.target = target, !.expression = e],
                target.type # "Wrong" /\ IsList(target.left.type) /\ e.type = target.type)

CheckReturn(returns, c, s) ==
    LET e == CheckExpression(c.locals, s.expression)
    IN  IF s.expression = NoExpression THEN Checked(c, s, returns = "Nothing")
        ELSE Checked(c, [s EXCEPT !.expression = e], e.type = returns)

(* At the end of a block its locals lose their names, not their slots. *)
LeaveScope(c, first) ==
    [i \in DOMAIN c.locals |-> [c.locals[i] EXCEPT !.active = @ /\ i <= first]]

RECURSIVE CheckStatements(_, _, _)
CheckBlock(returns, locals, block) ==
    LET c == CheckStatements(returns, Checking(locals), block)
    IN  [c EXCEPT !.locals = LeaveScope(c, Len(locals))]

CheckStatement(returns, c, s) ==
    LET e == CheckExpression(c.locals, s.expression)
        condition == e.type = "Boolean"
    IN  CASE s.do = "let" -> CheckLet(c, s)
          [] s.do = "assign" -> CheckAssign(c, s)
          [] s.do = "indexAssign" -> CheckIndexAssign(c, s)
          [] s.do = "expression" -> Checked(c, [s EXCEPT !.expression = e], e.type # "Wrong")
          [] s.do = "return" -> CheckReturn(returns, c, s)
          [] s.do = "if" ->
               LET then == CheckBlock(returns, c.locals, s.then)
                   else == CheckBlock(returns, then.locals, s.else)
               IN  [Checked(c, [s EXCEPT !.expression = e, !.then = then.done, !.else = else.done],
                            condition /\ then.ok /\ else.ok) EXCEPT !.locals = else.locals]
          [] s.do = "while" ->
               LET body == CheckBlock(returns, c.locals, s.body)
               IN  [Checked(c, [s EXCEPT !.expression = e, !.body = body.done], condition /\ body.ok)
                       EXCEPT !.locals = body.locals]

(* A statement behind one that returns is refused. *)
CheckStatements(returns, c, statements) ==
    IF statements = <<>> THEN c
    ELSE LET next == CheckStatement(returns, c, Head(statements))
             dead == c.done # <<>> /\ GuaranteesReturn(Last(c.done))
         IN  CheckStatements(returns, [next EXCEPT !.ok = @ /\ ~dead], Tail(statements))

Distinct(parameters) ==
    \A i, j \in DOMAIN parameters : i # j => parameters[i].name # parameters[j].name

(* check_program, for one function. *)
CheckFunction(f) ==
    LET parameters == [i \in DOMAIN f.parameters |->
                          Local(f.parameters[i].name, f.parameters[i].type)]
        c == CheckStatements(f.returns, Checking(parameters), f.body)
        returns == f.body # <<>> /\ GuaranteesReturn(Last(f.body))
    IN  [ok |-> /\ c.ok /\ Distinct(f.parameters)
                /\ f.name = "main" => f.parameters = <<>>
                /\ f.returns # "Nothing" /\ f.name # "main" => returns,
         locals |-> c.locals,
         tree |-> [f EXCEPT !.body = c.done]]
=============================================================================
