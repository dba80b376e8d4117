------------------------------ MODULE Session ------------------------------
(***************************************************************************)
(* A REPL session (main.cpp): lines are compiled one by one, with what the *)
(* compiler remembers of the globals (parser.cpp), and run by the VM       *)
(* (vm.cpp) if they compile.  What is remembered is changed while a line   *)
(* is compiled, the globals while it runs, and either may fail midway.     *)
(*                                                                         *)
(* Abstracted: a line is a sequence of declarations, assignments and calls *)
(* at the top level; the value of a name is a number or a closure whose    *)
(* body assigns a number to one global; other code changes no global.      *)
(* `bound`, `assigned` and `lost` are auxiliary.                           *)
(***************************************************************************)
EXTENDS Naturals, Sequences

CONSTANTS
  Names,          \* of globals
  Numbers,        \* what a global may hold besides a closure
  Absent,         \* no name, and the "value" of one that is not in globals_
  ItemsMax        \* bound: items of a line

ASSUME SessionAssumption == Absent \notin Names \cup Numbers /\ ItemsMax \in Nat

VARIABLES
  immutable,      \* g_immutableGlobals
  globals,        \* VM::globals_
  code,           \* the chunk of the line
  doing,          \* interpret: "read", "compile" or "run"
  ip,             \* the next instruction
  bound,          \* name -> the value the last declaration that ran promised
                  \* to keep by `let`, or Absent
  assigned,       \* names that some function ever compiled assigns to
  lost            \* name -> "let" or "var", what the last declaration that was
                  \* compiled said if it never ran, or "no"

sessionVars == <<immutable, globals, code, doing, ip, bound, assigned, lost>>

(* A closure assigns `result` to a global when it is called. *)
Plain == [assigns : {Absent}, result : Numbers]
Closures == [assigns : Names, result : Plain]
Values == Plain \cup Closures

(* A global has a value, or it has no entry in globals_. *)
ASSUME ValuesAssumption == Absent \notin Values

Instructions ==
  [op : {"DefineGlobal"}, name : Names, value : Values, mutable : BOOLEAN]
    \cup [op : {"SetGlobal"}, name : Names, value : Plain]
    \cup [op : {"Call"}, name : Names]

SessionTypeOK ==
  /\ immutable \subseteq Names /\ assigned \subseteq Names
  /\ lost \in [Names -> {"no", "let", "var"}]
  /\ globals \in [Names -> Values \cup {Absent}]
  /\ bound \in [Names -> Values \cup {Absent}]
  /\ code \in Seq(Instructions) /\ Len(code) <= ItemsMax
  /\ doing \in {"read", "compile", "run"} /\ ip \in 1 .. Len(code) + 1

SessionInit ==
  /\ immutable = {} /\ assigned = {} /\ lost = [n \in Names |-> "no"]
  /\ globals = [n \in Names |-> Absent] /\ bound = globals
  /\ code = <<>> /\ doing = "read" /\ ip = 1
-----------------------------------------------------------------------------
(* compile *)

Compiling == doing = "compile" /\ Len(code) < ItemsMax

ReadLine ==
  /\ doing = "read"
  /\ doing' = "compile" /\ code' = <<>> /\ ip' = 1
  /\ UNCHANGED <<immutable, globals, bound, assigned, lost>>

(* Mutant: a `var` does not take back what a `let` has said. *)
RememberedForever(name, mutable) ==
  immutable' = IF mutable THEN immutable ELSE immutable \cup {name}

(* declaration, after its initializer *)
Remembered(name, mutable) ==
  immutable' = IF mutable THEN immutable \ {name} ELSE immutable \cup {name}

Declaration(name, value, mutable) ==
  /\ Compiling
  /\ Remembered(name, mutable)
  /\ code' = Append(code, [op |-> "DefineGlobal", name |-> name, value |-> value,
                           mutable |-> mutable])
  /\ UNCHANGED <<globals, doing, ip, bound, assigned, lost>>

(* Mutant: any global may be assigned to. *)
AssignableAlways(name) == name \in Names

(* namedVariable: no local and no upvalue has the name. *)
Assignable(name) == name \notin immutable

Assignment(name, value) ==
  /\ Compiling /\ Assignable(name)
  /\ code' = Append(code, [op |-> "SetGlobal", name |-> name, value |-> value])
  /\ UNCHANGED <<immutable, globals, doing, ip, bound, assigned, lost>>

(* The body of a closure is compiled before the declaration it is for. *)
FunctionDeclaration(name, closure, mutable) ==
  /\ Compiling /\ Assignable(closure.assigns)
  /\ Remembered(name, mutable)
  /\ assigned' = assigned \cup {closure.assigns}
  /\ code' = Append(code, [op |-> "DefineGlobal", name |-> name, value |-> closure,
                           mutable |-> mutable])
  /\ UNCHANGED <<globals, doing, ip, bound, lost>>

Call(name) ==
  /\ Compiling
  /\ code' = Append(code, [op |-> "Call", name |-> name])
  /\ UNCHANGED <<immutable, globals, doing, ip, bound, assigned, lost>>

Defines(i, n) == code[i].op = "DefineGlobal" /\ code[i].name = n

(* Of the instructions from ip to `last`, i is the last that declares n, or*)
(* none does.                                                              *)
Decides(i, n, last) == Defines(i, n) /\ \A j \in i + 1 .. last : ~Defines(j, n)
Undecided(n, last) == \A i \in ip .. last : ~Defines(i, n)

(* The declarations from ip on never run. *)
Lost ==
  [n \in Names |->
     IF Undecided(n, Len(code)) THEN lost[n]
     ELSE IF \E i \in ip .. Len(code) : Decides(i, n, Len(code)) /\ ~code[i].mutable
          THEN "let" ELSE "var"]

(* An error anywhere: the rest of the line is still compiled, with what it *)
(* declares remembered, but compile returns no function.                   *)
CompileError ==
  /\ doing = "compile"
  /\ doing' = "read" /\ code' = <<>>
  /\ lost' = Lost
  /\ UNCHANGED <<immutable, globals, ip, bound, assigned>>

EndCompile ==
  /\ doing = "compile"
  /\ doing' = "run"
  /\ UNCHANGED <<immutable, globals, code, ip, bound, assigned, lost>>
-----------------------------------------------------------------------------
(* run *)

Executes(op) == doing = "run" /\ ip <= Len(code) /\ code[ip].op = op

DefineGlobal ==
  /\ Executes("DefineGlobal")
  /\ LET i == code[ip]
     IN /\ globals' = [globals EXCEPT ![i.name] = i.value]
        /\ bound' = [bound EXCEPT ![i.name] = IF i.mutable THEN Absent ELSE i.value]
        /\ lost' = [lost EXCEPT ![i.name] = "no"]
  /\ ip' = ip + 1
  /\ UNCHANGED <<immutable, code, doing, assigned>>

Assign(name, value) ==
  /\ globals[name] # Absent
  /\ globals' = [globals EXCEPT ![name] = value]
  /\ ip' = ip + 1
  /\ UNCHANGED <<immutable, code, doing, bound, assigned, lost>>

SetGlobal == Executes("SetGlobal") /\ Assign(code[ip].name, code[ip].value)

CallGlobal ==
  /\ Executes("Call")
  /\ globals[code[ip].name] \in Closures
  /\ LET closure == globals[code[ip].name] IN Assign(closure.assigns, closure.result)

(* A name that is not defined is assigned to or called, a value that is no *)
(* closure is called, or a called function fails.                          *)
Fails ==
  \/ Executes("SetGlobal") /\ globals[code[ip].name] = Absent
  \/ /\ Executes("Call")
     /\ globals[code[ip].name] \in Closures =>
          globals[globals[code[ip].name].assigns] = Absent

(* Mutant: the frames are left as they are. *)
RuntimeErrorInPlace ==
  /\ Fails
  /\ doing' = "read" /\ code' = <<>>
  /\ lost' = Lost
  /\ UNCHANGED <<immutable, globals, ip, bound, assigned>>

(* runtimeError: what is left of the line never runs. *)
RuntimeError ==
  /\ Fails
  /\ doing' = "read" /\ code' = <<>> /\ ip' = 1
  /\ lost' = Lost
  /\ UNCHANGED <<immutable, globals, bound, assigned>>

EndLine ==
  /\ doing = "run" /\ ip > Len(code)
  /\ doing' = "read" /\ code' = <<>> /\ ip' = 1
  /\ UNCHANGED <<immutable, globals, bound, assigned, lost>>

SessionNext ==
  \/ ReadLine \/ CompileError \/ EndCompile
  \/ \E name \in Names :
       \/ Call(name)
       \/ \E value \in Plain : Assignment(name, value)
       \/ \E mutable \in BOOLEAN :
            \/ \E value \in Plain : Declaration(name, value, mutable)
            \/ \E closure \in Closures : FunctionDeclaration(name, closure, mutable)
  \/ DefineGlobal \/ SetGlobal \/ CallGlobal \/ RuntimeError \/ EndLine

SessionSpec == SessionInit /\ [][SessionNext]_sessionVars
-----------------------------------------------------------------------------
(* A global that `let` has bound keeps its value until it is declared      *)
(* again, if no function ever compiled assigns to it and its last          *)
(* declaration has run.  Of the others it is false: namedVariable lets a   *)
(* function assign to a name that becomes immutable later, and a line to   *)
(* one that a `var` which never ran has made mutable.                      *)
LetsHold ==
  \A n \in Names \ assigned :
    lost[n] = "no" /\ bound[n] # Absent => globals[n] = bound[n]

(* What the compiler was told last of n: by the declaration that ran last, *)
(* unless a later one was compiled and never ran.                          *)
SaidLet(n) == IF lost[n] = "no" THEN bound[n] # Absent ELSE lost[n] = "let"

(* Between lines the compiler takes for immutable the globals of which it  *)
(* was told so last, whatever failed since, and no others: a declaration   *)
(* counts even if it never ran (declaration), and only a later one undoes  *)
(* it.  So a `let` in a line that fails makes a `var` unassignable.        *)
RemembersTheTruth ==
  doing = "read" => \A n \in Names : (n \in immutable) = SaidLet(n)
-----------------------------------------------------------------------------
(* When the instructions up to `last` will have run, n was declared `let`  *)
(* last, or it was not.                                                    *)
WillBeLet(n, last) ==
  \/ \E i \in ip .. last : Decides(i, n, last) /\ ~code[i].mutable
  \/ Undecided(n, last) /\ SaidLet(n)

WillBeVar(n, last) ==
  \/ \E i \in ip .. last : Decides(i, n, last) /\ code[i].mutable
  \/ Undecided(n, last) /\ ~SaidLet(n)

(* What the compiler remembers is what will be so at the end of the line,  *)
(* what it let through was so at the point of the assignment, and it has   *)
(* seen every body that a closure of this session can have.                *)
SessionInv ==
  /\ SessionTypeOK /\ LetsHold
  /\ doing # "run" => ip = 1
  /\ doing = "read" => code = <<>>
  /\ \A n \in Names : IF n \in immutable THEN WillBeLet(n, Len(code))
                                          ELSE WillBeVar(n, Len(code))
  /\ \A i \in ip .. Len(code) :
       code[i].op = "SetGlobal" => WillBeVar(code[i].name, i - 1)
  /\ \A i \in 1 .. Len(code) :
       code[i].op = "DefineGlobal" /\ code[i].value \in Closures =>
         code[i].value.assigns \in assigned
  /\ \A n \in Names : globals[n] \in Closures => globals[n].assigns \in assigned
=============================================================================
