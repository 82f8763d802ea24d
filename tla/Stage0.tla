------------------------------- MODULE Stage0 -------------------------------
(***************************************************************************)
(* The bootstrap compiler (bootstrap/stage0.c) from the tokens of a        *)
(* function to the run of its code: parse, check, emit, and then one       *)
(* LLVM instruction after the other.  What the function calls answers as   *)
(* it likes; what it was asked, and what it answered, is the trace.        *)
(***************************************************************************)
EXTENDS Stage0Emitter

CONSTANTS Compilations,   \* what the compiler makes of some functions: values of Compile
          WordBits, CharacterBits,   \* widths of i64 and i32
          Answers,    \* what a call may return
          MaxCalls    \* bound: calls made by one run

VARIABLES program,    \* what the programmer meant
          parsed, tree, checked, code,   \* what each pass made of it
          given,             \* the arguments of the run
          pc, block, came,   \* next instruction, its block and the one before
          registers, slots, trace, outcome

compiled == <<program, parsed, tree, checked, code, given>>
vars == <<compiled, pc, block, came, registers, slots, trace, outcome>>

Words == (-(2^(WordBits - 1)))..(2^(WordBits - 1) - 1)
Bits == [i64 |-> WordBits, i32 |-> CharacterBits, i1 |-> 1]

(* trunc, and i32 and i64 read as signed numbers. *)
Truncated(value, type) ==
    LET low == value % 2^Bits[type]
    IN  IF type # "i1" /\ low >= 2^(Bits[type] - 1) THEN low - 2^Bits[type] ELSE low

(* zext *)
Extended(value, type) == value % 2^Bits[type]

Quotient(a, b) ==
    LET positive(x) == IF x < 0 THEN -x ELSE x
        q == positive(a) \div positive(b)
    IN  IF (a < 0) = (b < 0) THEN q ELSE -q

Arithmetic(operator, a, b) ==
    CASE operator = "+" -> a + b
      [] operator = "-" -> a - b
      [] operator = "*" -> a * b
      [] operator = "/" -> Quotient(a, b)
      [] operator = "%" -> a - b * Quotient(a, b)

(* minyar_check_integer_division *)
Divisible(a, b) == b # 0 /\ Quotient(a, b) \in Words

Compare(operator, a, b) ==
    LET holds == CASE operator = "<" -> a < b
                   [] operator = ">" -> a > b
                   [] operator = "<=" -> a <= b
                   [] operator = ">=" -> a >= b
                   [] operator = "==" -> a = b
                   [] operator = "!=" -> a # b
    IN  IF holds THEN 1 ELSE 0
-----------------------------------------------------------------------------
(* The declarations at the head of the code, and the program's functions.  *)
Declarations ==
    LET d(parameters, returns) == [parameters |-> parameters, returns |-> returns]
    IN  [minyar_print_integer |-> d(<<"i64">>, "void"),
         minyar_print_text |-> d(<<"ptr">>, "void"),
         minyar_print_character |-> d(<<"i32">>, "void"),
         minyar_print_boolean |-> d(<<"i1">>, "void"),
         minyar_fail |-> d(<<"ptr">>, "void"),
         minyar_texts_are_equal |-> d(<<"ptr", "ptr">>, "i1"),
         minyar_join_text |-> d(<<"ptr", "ptr">>, "ptr"),
         minyar_join_texts |-> d(<<"ptr">>, "ptr"),
         minyar_text_length |-> d(<<"ptr">>, "i64"),
         minyar_text_byte_length |-> d(<<"ptr">>, "i64"),
         minyar_text_character_at |-> d(<<"ptr", "i64">>, "i32"),
         minyar_text_slice |-> d(<<"ptr", "i64", "i64">>, "ptr"),
         minyar_integer_text |-> d(<<"i64">>, "ptr"),
         minyar_character_text |-> d(<<"i32">>, "ptr"),
         minyar_boolean_text |-> d(<<"i1">>, "ptr"),
         minyar_argument_count |-> d(<<>>, "i64"),
         minyar_argument |-> d(<<"i64">>, "ptr"),
         minyar_read_text_file |-> d(<<"ptr">>, "ptr"),
         minyar_write_text_file |-> d(<<"ptr", "ptr">>, "void"),
         minyar_list_new |-> d(<<>>, "ptr"),
         minyar_list_add |-> d(<<"ptr", "i64">>, "void"),
         minyar_list_length |-> d(<<"ptr">>, "i64"),
         minyar_list_get |-> d(<<"ptr", "i64">>, "i64"),
         minyar_list_set |-> d(<<"ptr", "i64", "i64">>, "void")]

Declared(function) ==
    IF function \in DOMAIN Declarations THEN Declarations[function]
    ELSE LET s == Functions[function]
         IN  [parameters |-> [k \in DOMAIN s.parameters |-> LlvmType(s.parameters[k])],
              returns |-> LlvmType(s.returns)]

NotYet == [how |-> "running", value |-> 0]
Outcome(how, value) == [how |-> how, value |-> value]
Rejected == [ok |-> FALSE]

(* main: the file is parsed, checked and emitted; a pass that fails ends   *)
(* the compiler.                                                           *)
Parse(function, file) ==
    [program |-> function, parsed |-> file.at # Failed, tree |-> file.tree]
Check(c) == [checked |-> IF c.parsed THEN CheckFunction(c.tree) ELSE Rejected] @@ c
Emit(c) == [code |-> IF c.checked.ok THEN EmitFunction(c.checked.tree) ELSE <<>>] @@ c

Compile(function, layout) ==
    Emit(Check(Parse(function, ParseProgram(WriteProgram(function, layout)))))

(* A run begins behind the label of the entry. *)
Init ==
    /\ \E c \in Compilations :
          /\ program = c.program /\ parsed = c.parsed /\ tree = c.tree
          /\ checked = c.checked /\ code = c.code
    /\ given \in [DOMAIN program.parameters -> Answers]
    /\ pc = 2 /\ block = Entry /\ came = Entry
    /\ registers = <<>> /\ slots = <<>> /\ trace = <<>> /\ outcome = NotYet
-----------------------------------------------------------------------------
(***************************************************************************)
(* Execution.  A register or slot holds a number and its LLVM type.        *)
(***************************************************************************)
Instruction == code[pc]
Executing(ops) == checked.ok /\ outcome = NotYet /\ Instruction.op \in ops

Cell(type, value) == [type |-> type, value |-> value]
Operand(v) ==
    IF v.register = -1 THEN Cell(LlvmType(v.type), v.constant) ELSE registers[v.register]
Number(v) == Operand(v).value

End(how, value) ==
    /\ outcome' = Outcome(how, value)
    /\ UNCHANGED <<compiled, pc, block, came, registers, slots, trace>>

SetRegister(type, value) ==
    /\ registers' = (Instruction.to :> Cell(type, value)) @@ registers
    /\ pc' = pc + 1

Argument ==
    /\ Executing({"argument"})
    /\ LET i == Instruction.local
       IN  slots' = (i :> Cell(LlvmType(program.parameters[i].type), given[i])) @@ slots
    /\ pc' = pc + 1
    /\ UNCHANGED <<compiled, block, came, registers, trace, outcome>>

Store ==
    /\ Executing({"store"})
    /\ slots' = (Instruction.local :> Operand(Instruction.value)) @@ slots
    /\ pc' = pc + 1
    /\ UNCHANGED <<compiled, block, came, registers, trace, outcome>>

Compute ==
    LET i == Instruction
        set(type, value) == /\ SetRegister(type, value)
                            /\ UNCHANGED <<compiled, block, came, slots, trace, outcome>>
        a == Number(i.left)
        b == Number(i.right)
    IN  \/ /\ Executing({"load"})
           /\ set(slots[i.local].type, slots[i.local].value)
        \/ /\ Executing({"not"})
           /\ set("i1", 1 - Number(i.value))
        \/ /\ Executing({"compare"})
           /\ set("i1", Compare(i.operator, a, b))
        \/ /\ Executing({"convert"})
           /\ set(i.into, IF "ptr" \in {i.from, i.into} THEN Number(i.value)
                          ELSE IF i.into = "i64" THEN Extended(Number(i.value), i.from)
                          ELSE Truncated(Number(i.value), i.into))
        \/ /\ Executing({"checked"})
           /\ IF Arithmetic(i.operator, a, b) \in Words
              THEN set("i64", Arithmetic(i.operator, a, b)) ELSE End("stopped", 0)
        \/ /\ Executing({"divide"})
           /\ IF Divisible(a, b)
              THEN set("i64", Arithmetic(i.operator, a, b)) ELSE End("stopped", 0)
        \/ /\ Executing({"phi"})
           /\ LET choice == SelectSeq(i.choices, LAMBDA c : c.from = came)
              IN  set(Operand(choice[1].value).type, Number(choice[1].value))

Event(function, arguments, answer) ==
    [function |-> function, arguments |-> arguments, answer |-> answer]

CallOut ==
    /\ Executing({"call"})
    /\ LET i == Instruction
           arguments == [k \in DOMAIN i.arguments |-> Number(i.arguments[k])]
       IN  \/ /\ Len(trace) = MaxCalls /\ End("waiting", 0)
           \/ /\ Len(trace) < MaxCalls
              /\ \E answer \in IF i.returns = "void" THEN {0} ELSE Answers :
                    /\ trace' = Append(trace, Event(i.function, arguments, answer))
                    /\ IF i.returns = "void" THEN registers' = registers /\ pc' = pc + 1
                       ELSE SetRegister(i.returns, answer)
              /\ outcome' = IF i.function = "minyar_fail" THEN Outcome("stopped", 0) ELSE outcome
              /\ UNCHANGED <<compiled, block, came, slots>>

LabelOf(target) == CHOOSE k \in DOMAIN code : code[k] = [op |-> "label", name |-> target]

Jump ==
    /\ Executing({"branch", "choose"})
    /\ LET target == IF Instruction.op = "branch" THEN Instruction.target
                     ELSE IF Number(Instruction.value) = 1 THEN Instruction.then
                     ELSE Instruction.else
       IN  block' = target /\ pc' = LabelOf(target) + 1
    /\ came' = block
    /\ UNCHANGED <<compiled, registers, slots, trace, outcome>>

Leave ==
    /\ Executing({"ret"})
    /\ End("returned", Number(Instruction.value))

Next == Argument \/ Store \/ Compute \/ CallOut \/ Jump \/ Leave

Spec == Init /\ [][Next]_vars
-----------------------------------------------------------------------------
(***************************************************************************)
(* What the program means: evaluation of the tree, with names instead of   *)
(* slots and scopes instead of blocks of code.  A state st has the values  *)
(* of the names in scope, the trace so far and the answers to come.        *)
(***************************************************************************)
Stop(st, how, value) == [st EXCEPT !.mode = how, !.value = value]
Ask(st, function, arguments) ==
    LET k == Len(st.trace) + 1
    IN  IF k > Len(st.answers) THEN Stop(st, "waiting", 0)
        ELSE [st EXCEPT !.trace = Append(@, Event(function, arguments, st.answers[k])),
                        !.value = st.answers[k],
                        !.mode = IF function = "minyar_fail" THEN "stopped" ELSE @]
Reckon(st, ok, value) == IF ok THEN [st EXCEPT !.value = value] ELSE Stop(st, "stopped", 0)

(* What a List holds for a value, and back. *)
Element(type, value) == IF type = "Character" THEN Extended(value, "i32") ELSE value
FromElement(type, word) ==
    IF type \in {"Character", "Boolean"} THEN Truncated(word, LlvmType(type)) ELSE word

RECURSIVE Meaning(_, _)
MeaningOf(st, es) ==
    FoldLeft(LAMBDA all, e : LET next == Meaning(all.st, e)
                             IN  [st |-> next, values |-> Append(all.values, next.value)],
             [st |-> st, values |-> <<>>], es)

Parts(e) ==
    CASE e.kind = "call" -> e.arguments
      [] e.kind = "unary" -> <<e.right>>
      [] e.kind = "member" -> <<e.left>>
      [] e.kind \in {"binary", "index"} -> <<e.left, e.right>>
      [] e.kind = "method" -> <<e.left>> \o e.arguments
      [] OTHER -> <<>>

(* The runtime's functions that print a value and make a Text of it, and   *)
(* those behind the other functions of the language (docs/language.md).    *)
PrintOf == [Integer |-> "minyar_print_integer", Character |-> "minyar_print_character",
            Boolean |-> "minyar_print_boolean", Text |-> "minyar_print_text"]
TextOf == [Integer |-> "minyar_integer_text", Character |-> "minyar_character_text",
           Boolean |-> "minyar_boolean_text"]
Library == [fail |-> "minyar_fail", argument |-> "minyar_argument",
            argumentCount |-> "minyar_argument_count", joinText |-> "minyar_join_texts",
            readTextFile |-> "minyar_read_text_file",
            writeTextFile |-> "minyar_write_text_file"]

CallMeaning(st, e, v) ==
    CASE e.function = "print" -> Ask(st, PrintOf[e.arguments[1].type], v)
      [] e.function = "Text" ->
           IF e.arguments[1].type = "Text" THEN [st EXCEPT !.value = v[1]]
           ELSE Ask(st, TextOf[e.arguments[1].type], v)
      [] e.function \in DOMAIN Library -> Ask(st, Library[e.function], v)
      [] OTHER -> Ask(st, e.function, v)

BinaryMeaning(st, e, v) ==
    LET equal == Ask(st, "minyar_texts_are_equal", v)
    IN  IF e.left.type = "Text"
        THEN IF e.operator = "+" THEN Ask(st, "minyar_join_text", v)
             ELSE IF e.operator = "==" \/ equal.mode # "running" THEN equal
             ELSE [equal EXCEPT !.value = 1 - @]
        ELSE CASE e.operator \in {"+", "-", "*"} ->
                    Reckon(st, Arithmetic(e.operator, v[1], v[2]) \in Words,
                           Arithmetic(e.operator, v[1], v[2]))
               [] e.operator \in {"/", "%"} ->
                    Reckon(st, Divisible(v[1], v[2]), Arithmetic(e.operator, v[1], v[2]))
               [] OTHER -> [st EXCEPT !.value = Compare(e.operator, v[1], v[2])]

MemberMeaning(st, e, v) ==
    Ask(st, IF e.left.type # "Text" THEN "minyar_list_length"
            ELSE IF e.name = "length" THEN "minyar_text_length" ELSE "minyar_text_byte_length", v)

IndexMeaning(st, e, v) ==
    LET got == Ask(st, "minyar_list_get", v)
    IN  IF e.left.type = "Text" THEN Ask(st, "minyar_text_character_at", v)
        ELSE IF got.mode # "running" THEN got
        ELSE [got EXCEPT !.value = FromElement(e.type, @)]

MethodMeaning(st, e, v) ==
    IF e.left.type = "Text" THEN Ask(st, "minyar_text_slice", v)
    ELSE Ask(st, "minyar_list_add", <<v[1], Element(e.arguments[1].type, v[2])>>)

(* && and || evaluate their right side only if the left does not decide. *)
Meaning(st, e) ==
    IF st.mode # "running" THEN st
    ELSE IF e.kind = "binary" /\ e.operator \in {"&&", "||"}
    THEN LET l == Meaning(st, e.left)
         IN  IF (l.value = 1) = (e.operator = "||") THEN l ELSE Meaning(l, e.right)
    ELSE LET a == MeaningOf(st, Parts(e))
             s == a.st
             v == a.values
         IN  IF s.mode # "running" THEN s
             ELSE CASE e.kind = "literal" -> [s EXCEPT !.value = e.value]
                    [] e.kind = "name" -> [s EXCEPT !.value = s.names[e.name]]
                    [] e.kind = "list" -> Ask(s, "minyar_list_new", <<>>)
                    [] e.kind = "call" -> CallMeaning(s, e, v)
                    [] e.kind = "unary" ->
                         IF e.operator = "!" THEN [s EXCEPT !.value = 1 - v[1]]
                         ELSE Reckon(s, -v[1] \in Words, -v[1])
                    [] e.kind = "binary" -> BinaryMeaning(s, e, v)
                    [] e.kind = "member" -> MemberMeaning(s, e, v)
                    [] e.kind = "index" -> IndexMeaning(s, e, v)
                    [] e.kind = "method" -> MethodMeaning(s, e, v)

RECURSIVE Effects(_, _)

(* The names of a block mean nothing behind it. *)
Scoped(after, before) == [after EXCEPT !.names = [n \in DOMAIN before.names |-> @[n]]]

(* Of a statement whose expression has been evaluated. *)
Effect(e, s) ==
    IF e.mode # "running" THEN e
    ELSE CASE s.do \in {"let", "assign"} -> [e EXCEPT !.names = (s.name :> e.value) @@ @]
           [] s.do = "expression" -> e
           [] s.do = "return" -> Stop(e, "returned", e.value)
           [] s.do = "if" -> Scoped(Effects(e, IF e.value = 1 THEN s.then ELSE s.else), e)
           [] s.do = "while" ->
                IF e.value = 1 THEN Effects(Scoped(Effects(e, s.body), e), <<s>>) ELSE e

SetElement(set, s) ==
    IF set.st.mode # "running" THEN set.st
    ELSE Ask(set.st, "minyar_list_set", [set.values EXCEPT ![3] = Element(s.expression.type, @)])

Effects(st, statements) ==
    FoldLeft(LAMBDA now, s :
                 IF now.mode # "running" THEN now
                 ELSE IF s.do = "return" /\ s.expression = NoExpression
                 THEN Stop(now, "returned", 0)
                 ELSE IF s.do = "indexAssign"
                 THEN SetElement(MeaningOf(now, <<s.target.left, s.target.right, s.expression>>), s)
                 ELSE Effect(Meaning(now, s.expression), s),
             st, statements)

(* How a run of a function ends: main's value is its exit status. *)
EndOf(st, name) ==
    [trace |-> st.trace,
     outcome |-> CASE st.mode = "running" -> Outcome("returned", 0)
                   [] st.mode = "returned" /\ name = "main" ->
                        Outcome("returned", Truncated(st.value, "i32"))
                   [] OTHER -> Outcome(st.mode, st.value)]

(* The run of the program when it is given these arguments and answers. *)
Meant ==
    LET f == checked.tree
        names == [n \in {p.name : p \in Range(f.parameters)} |->
                     given[CHOOSE i \in DOMAIN f.parameters : f.parameters[i].name = n]]
    IN  EndOf(Effects([names |-> names, trace |-> <<>>, value |-> 0, mode |-> "running",
                       answers |-> [k \in DOMAIN trace |-> trace[k].answer]], f.body), f.name)

(* A program runs as it reads: the same calls with the same arguments in   *)
(* the same order, and the same end, whatever is answered.  That holds     *)
(* through nested short circuits, loops, and locals whose slots outlive    *)
(* their names (parse_expression, find_local, emit_expression).            *)
RunsAsWritten ==
    checked.ok /\ outcome # NotYet => Meant = [trace |-> trace, outcome |-> outcome]
-----------------------------------------------------------------------------
Terminators == {"branch", "choose", "ret", "unreachable"}
Targets(i) ==
    IF i.op = "branch" THEN {i.target} ELSE IF i.op = "choose" THEN {i.then, i.else} ELSE {}
Labels == {k \in DOMAIN code : code[k].op = "label"}
BlockOf(k) == code[CHOOSE l \in Labels : l <= k /\ \A other \in Labels : other <= k => other <= l].name
Predecessors(b) == {BlockOf(k) : k \in {j \in DOMAIN code : b \in Targets(code[j])}}

(* Every block ends with its only terminator, a label stands once, every   *)
(* target has one, a temporary is assigned once, and a phi names exactly   *)
(* the blocks that come before its own.                                    *)
BlocksClosed ==
    /\ \A k \in DOMAIN code :
          /\ code[k].op \in Terminators <=> (k = Len(code) \/ k + 1 \in Labels)
          /\ \A target \in Targets(code[k]) : \E l \in Labels : code[l].name = target
          /\ code[k].op = "phi" =>
                LET from == [c \in DOMAIN code[k].choices |-> code[k].choices[c].from]
                IN  IsInjective(from) /\ Range(from) = Predecessors(BlockOf(k))
    /\ \A k, l \in DOMAIN code :
          k # l => /\ code[k].op = "label" => code[k] # code[l]
                   /\ "to" \in DOMAIN code[k] /\ "to" \in DOMAIN code[l] => code[k].to # code[l].to

Has(v, type) ==
    (v.register = -1 \/ v.register \in DOMAIN registers) /\ Operand(v).type = type

ReturnType == IF program.name = "main" THEN "i32" ELSE LlvmType(program.returns)

(* The instruction to come reads only what was stored or computed before,  *)
(* with the type it was computed with; a call has the declared types;      *)
(* control falls into no label and reaches no "unreachable".               *)
WellDefined ==
    LET i == Instruction IN
    CASE i.op \in {"label", "unreachable"} -> FALSE
      [] i.op \in {"branch", "argument"} -> TRUE
      [] i.op = "load" -> i.local \in DOMAIN slots
      [] i.op = "store" -> Has(i.value, LlvmType(checked.locals[i.local].type))
      [] i.op \in {"choose", "not"} -> Has(i.value, "i1")
      [] i.op = "convert" -> Has(i.value, i.from)
      [] i.op \in {"checked", "divide"} -> Has(i.left, "i64") /\ Has(i.right, "i64")
      [] i.op = "compare" -> Has(i.left, Operand(i.right).type) /\ Has(i.right, Operand(i.left).type)
      [] i.op = "phi" ->
           \E c \in DOMAIN i.choices : i.choices[c].from = came /\ Has(i.choices[c].value, "i1")
      [] i.op = "call" ->
           LET d == Declared(i.function)
           IN  /\ i.returns = d.returns /\ Len(i.arguments) = Len(d.parameters)
               /\ \A k \in DOMAIN d.parameters : Has(i.arguments[k], d.parameters[k])
      [] i.op = "ret" -> i.type = ReturnType /\ Has(i.value, i.type)

(* What parse_program reads back is the tree that was written, in every    *)
(* layout; and a function that check_program accepts gets code with a      *)
(* meaning, on every path that its calls may send it.  That is said of     *)
(* functions that print no List and make no Text of one, have no parameter *)
(* of type Nothing, and return an Integer if they are main: MCStage0 has   *)
(* no others.                                                              *)
CodeSound ==
    /\ parsed /\ tree = program
    /\ checked.ok /\ registers = <<>> /\ came = Entry => BlocksClosed
    /\ checked.ok /\ outcome = NotYet => WellDefined
=============================================================================
