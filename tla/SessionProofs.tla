--------------------------- MODULE SessionProofs ---------------------------
(***************************************************************************)
(* Proofs about Session, for every set of names and numbers and lines of   *)
(* every length: what the compiler remembers of the globals, and why the   *)
(* assignments it lets through and those of older closures leave the       *)
(* globals alone that `let` has bound.                                     *)
(***************************************************************************)
EXTENDS Session, TLAPS

LEMMA ValueCases ==
  /\ \A v \in Plain : v \in Values /\ v \notin Closures /\ v # Absent
  /\ \A v \in Closures : v \in Values /\ v # Absent /\ v.assigns \in Names
                         /\ v.result \in Plain
  /\ \A v \in Values : v # Absent
  <1>1. \A v \in Plain : v.assigns = Absent
    BY DEF Plain
  <1>2. \A v \in Closures : v.assigns \in Names /\ v.result \in Plain
    BY DEF Closures
  <1>3. Absent \notin Names
    BY SessionAssumption
  <1>4. QED
    BY <1>1, <1>2, <1>3, ValuesAssumption DEF Values

LEMMA InstructionCases ==
  \A i \in Instructions :
    /\ i.name \in Names
    /\ i.op = "DefineGlobal" => i.value \in Values /\ i.mutable \in BOOLEAN
    /\ i.op = "SetGlobal" => i.value \in Plain
  BY DEF Instructions

(* An instruction goes to the end of the line, and the compiler remembers  *)
(* what it declares.                                                       *)
LEMMA Compiled ==
  ASSUME SessionInv, doing = "compile", Len(code) < ItemsMax,
         NEW i \in Instructions, code' = Append(code, i),
         UNCHANGED <<globals, doing, ip, bound, lost>>,
         IF i.op = "DefineGlobal" THEN Remembered(i.name, i.mutable)
                                  ELSE UNCHANGED immutable,
         i.op = "SetGlobal" => Assignable(i.name),
         assigned \subseteq assigned', assigned' \subseteq Names,
         i.op = "DefineGlobal" /\ i.value \in Closures => i.value.assigns \in assigned'
  PROVE  SessionInv'
  <1> PICK n \in Nat : n = Len(code)
    BY DEF SessionInv, SessionTypeOK
  <1>1. /\ code \in Seq(Instructions) /\ n = Len(code) /\ ip = 1 /\ ItemsMax \in Nat
    BY SessionAssumption DEF SessionInv, SessionTypeOK
  <1>2. /\ Len(code') = n + 1 /\ code' \in Seq(Instructions) /\ code'[n + 1] = i
        /\ \A j \in 1 .. n : code'[j] = code[j]
    BY <1>1
  <1>3. \A m \in Names, last \in 0 .. n :
          /\ WillBeLet(m, last) => WillBeLet(m, last)'
          /\ WillBeVar(m, last) => WillBeVar(m, last)'
    BY <1>1, <1>2, SMTT(20) DEF WillBeLet, WillBeVar, Decides, Undecided, Defines, SaidLet
  <1>4. SessionTypeOK'
    BY <1>1, <1>2, InstructionCases DEF SessionInv, SessionTypeOK, Remembered
  <1>5. ASSUME NEW m \in Names
        PROVE  /\ m \in immutable' => WillBeLet(m, Len(code))'
               /\ m \notin immutable' => WillBeVar(m, Len(code))'
    <2>1. CASE i.op = "DefineGlobal" /\ i.name = m
      <3>1. m \in immutable' <=> ~i.mutable
        BY <2>1, InstructionCases DEF Remembered
      <3>2. Decides(n + 1, m, n + 1)' /\ code'[n + 1].mutable = i.mutable
        BY <1>1, <1>2, <2>1 DEF Decides, Defines
      <3>3. QED
        BY <1>1, <1>2, <3>1, <3>2 DEF WillBeLet, WillBeVar
    <2>2. CASE ~(i.op = "DefineGlobal" /\ i.name = m)
      <3>1. m \in immutable' <=> m \in immutable
        BY <2>2 DEF Remembered
      <3>2. ~Defines(n + 1, m)'
        BY <1>2, <2>2 DEF Defines
      <3>3. /\ m \in immutable' => WillBeLet(m, n)'
            /\ m \notin immutable' => WillBeVar(m, n)'
        BY <1>1, <1>3, <3>1 DEF SessionInv
      <3>4. QED
        BY <1>1, <1>2, <3>2, <3>3
        DEF WillBeLet, WillBeVar, Decides, Undecided, Defines, SaidLet
    <2>3. QED
      BY <2>1, <2>2
  <1>6. ASSUME NEW j \in 1 .. n + 1, code'[j].op = "SetGlobal"
        PROVE  WillBeVar(code[j].name, j - 1)'
    <2>1. PICK m \in Names : m = code'[j].name
      BY <1>2, InstructionCases
    <2>2. WillBeVar(m, j - 1)
      <3>1. CASE j \in 1 .. n
        BY <1>1, <1>2, <1>6, <2>1, <3>1 DEF SessionInv
      <3>2. CASE j = n + 1
        BY <1>1, <1>2, <1>6, <2>1, <3>2 DEF SessionInv, Assignable
      <3>3. QED
        BY <3>1, <3>2
    <2>3. WillBeVar(m, j - 1)'
      BY <1>1, <1>3, <2>2
    <2>4. QED
      BY <2>1, <2>3 DEF WillBeVar
  <1>7. LetsHold'
    BY DEF SessionInv, LetsHold
  <1>8. QED
    BY <1>1, <1>2, <1>4, <1>5, <1>6, <1>7 DEF SessionInv

(* What is left of a line is dropped: what it declares is lost, and what   *)
(* would have been when it had run is what the compiler was told last.     *)
LEMMA Dropped ==
  ASSUME SessionInv, code' = <<>>, ip' = 1, doing' \in {"read", "compile"},
         lost' = Lost, UNCHANGED <<immutable, globals, bound, assigned>>
  PROVE  SessionInv'
  <1>1. /\ code \in Seq(Instructions) /\ ip \in Nat \ {0}
        /\ Len(code) \in Nat /\ ItemsMax \in Nat
        /\ lost \in [Names -> {"no", "let", "var"}]
    BY SessionAssumption DEF SessionInv, SessionTypeOK
  <1>2. lost' \in [Names -> {"no", "let", "var"}]
    BY <1>1 DEF Lost
  <1>3. ASSUME NEW n \in Names
        PROVE  /\ WillBeLet(n, Len(code)) => SaidLet(n)'
               /\ WillBeVar(n, Len(code)) => ~SaidLet(n)'
    <2>1. CASE Undecided(n, Len(code))
      <3>1. lost'[n] = lost[n]
        BY <2>1 DEF Lost
      <3>2. \A i \in ip .. Len(code) : ~Decides(i, n, Len(code))
        BY <2>1 DEF Undecided, Decides
      <3>3. QED
        BY <3>1, <3>2 DEF WillBeLet, WillBeVar, SaidLet
    <2>2. CASE ~Undecided(n, Len(code))
      <3>1. ASSUME NEW i \in ip .. Len(code), NEW j \in ip .. Len(code),
                   Decides(i, n, Len(code)), Decides(j, n, Len(code))
            PROVE  i = j
        BY <1>1, <3>1 DEF Decides
      <3>2. WillBeLet(n, Len(code)) => lost'[n] = "let"
        BY <2>2 DEF Lost, WillBeLet
      <3>3. WillBeVar(n, Len(code)) => lost'[n] = "var"
        BY <2>2, <3>1 DEF Lost, WillBeVar
      <3>4. QED
        BY <3>2, <3>3 DEF SaidLet
    <2>3. QED
      BY <2>1, <2>2
  <1>4. \A n \in Names : (n \in immutable) <=> SaidLet(n)'
    BY <1>3 DEF SessionInv
  <1>5. Len(code') = 0 /\ code' \in Seq(Instructions)
    OBVIOUS
  <1>6. SessionTypeOK'
    BY <1>1, <1>2, <1>5 DEF SessionInv, SessionTypeOK
  <1>7. \A n \in Names : IF n \in immutable' THEN WillBeLet(n, Len(code))'
                                           ELSE WillBeVar(n, Len(code))'
    BY <1>4, <1>5 DEF WillBeLet, WillBeVar, Undecided, SaidLet
  <1>8. \A n \in Names : lost'[n] = "no" => lost[n] = "no"
    BY <1>1 DEF Lost
  <1>9. LetsHold'
    BY <1>8 DEF SessionInv, LetsHold
  <1>10. QED
    BY <1>5, <1>6, <1>7, <1>9 DEF SessionInv

(* Where no instruction is left, nothing is lost. *)
LEMMA NothingLost ==
  ASSUME SessionTypeOK, ip .. Len(code) = {}
  PROVE  Lost = lost
  BY DEF Lost, Undecided, SessionTypeOK

LEMMA ReadLineStep == ASSUME SessionInv, ReadLine PROVE SessionInv'
  <1>1. Lost = lost
    BY NothingLost DEF ReadLine, SessionInv
  <1>2. QED
    BY <1>1, Dropped DEF ReadLine

LEMMA EndLineStep == ASSUME SessionInv, EndLine PROVE SessionInv'
  <1>1. Lost = lost
    BY NothingLost DEF EndLine, SessionInv, SessionTypeOK
  <1>2. QED
    BY <1>1, Dropped DEF EndLine

LEMMA EndCompileStep == ASSUME SessionInv, EndCompile PROVE SessionInv'
  <1>1. UNCHANGED <<immutable, globals, code, ip, bound, assigned, lost>> /\ doing' = "run"
    BY DEF EndCompile
  <1>2. \A n \in Names, last \in Nat \cup {0 - 1} :
          /\ WillBeLet(n, last) => WillBeLet(n, last)'
          /\ WillBeVar(n, last) => WillBeVar(n, last)'
    BY <1>1 DEF WillBeLet, WillBeVar, Undecided, Decides, Defines, SaidLet
  <1>3. QED
    BY <1>1
    DEF SessionInv, SessionTypeOK, LetsHold, WillBeLet, WillBeVar, Undecided, Decides,
        Defines, SaidLet

(* A declaration runs: what will be so is decided by it or by later ones.  *)
LEMMA DefineGlobalStep == ASSUME SessionInv, DefineGlobal PROVE SessionInv'
  <1> PICK i \in Instructions : i = code[ip]
    BY DEF SessionInv, SessionTypeOK, DefineGlobal, Executes
  <1>1. /\ code \in Seq(Instructions) /\ ip \in 1 .. Len(code) /\ ip' = ip + 1
        /\ i = code[ip] /\ i.op = "DefineGlobal" /\ i.name \in Names
        /\ i.value \in Values /\ i.mutable \in BOOLEAN /\ i.value # Absent
        /\ doing = "run"
        /\ UNCHANGED <<immutable, code, doing, assigned>>
        /\ lost' = [lost EXCEPT ![i.name] = "no"]
        /\ lost \in [Names -> {"no", "let", "var"}]
        /\ globals \in [Names -> Values \cup {Absent}]
        /\ bound \in [Names -> Values \cup {Absent}]
    BY InstructionCases, ValueCases
    DEF SessionInv, SessionTypeOK, DefineGlobal, Executes
  <1>2. /\ globals' = [globals EXCEPT ![i.name] = i.value]
        /\ bound' = [bound EXCEPT ![i.name] = IF i.mutable THEN Absent ELSE i.value]
    BY <1>1 DEF DefineGlobal
  <1>3. SessionTypeOK'
    BY <1>1, <1>2 DEF SessionInv, SessionTypeOK
  <1>4. LetsHold'
    BY <1>1, <1>2 DEF SessionInv, LetsHold
  <1>5. ASSUME NEW n \in Names, NEW last \in ip .. Len(code)
        PROVE  /\ WillBeLet(n, last) => WillBeLet(n, last)'
               /\ WillBeVar(n, last) => WillBeVar(n, last)'
    <2>1. CASE n = i.name
      <3>1. bound'[n] = (IF i.mutable THEN Absent ELSE i.value) /\ lost'[n] = "no"
        BY <1>1, <1>2, <2>1
      <3>2. \A last2 \in {last} : Defines(ip, n)
        BY <1>1, <2>1 DEF Defines
      <3>3. QED
        BY <1>1, <3>1, <3>2
        DEF WillBeLet, WillBeVar, Undecided, Decides, Defines, SaidLet
    <2>2. CASE n # i.name
      <3>1. bound'[n] = bound[n] /\ lost'[n] = lost[n]
        BY <1>1, <1>2, <2>2
      <3>2. ~Defines(ip, n)
        BY <1>1, <2>2 DEF Defines
      <3>3. QED
        BY <1>1, <3>1, <3>2
        DEF WillBeLet, WillBeVar, Undecided, Decides, Defines, SaidLet
    <2>3. QED
      BY <2>1, <2>2
  <1>6. ASSUME NEW n \in Names
        PROVE  /\ n \in immutable => WillBeLet(n, Len(code))'
               /\ n \notin immutable => WillBeVar(n, Len(code))'
    <2>1. PICK last \in ip .. Len(code) : last = Len(code)
      BY <1>1
    <2>2. /\ n \in immutable => WillBeLet(n, last)
          /\ n \notin immutable => WillBeVar(n, last)
      BY <2>1 DEF SessionInv
    <2>3. QED
      BY <1>1, <1>5, <2>1, <2>2 DEF WillBeLet, WillBeVar, Undecided, Decides, SaidLet
  <1>7. ASSUME NEW j \in ip + 1 .. Len(code), code[j].op = "SetGlobal"
        PROVE  WillBeVar(code[j].name, j - 1)'
    <2>1. PICK n \in Names : n = code[j].name
      BY <1>1, InstructionCases
    <2>2. PICK last \in ip .. Len(code) : last = j - 1
      BY <1>1
    <2>3. WillBeVar(n, last)'
      BY <1>1, <1>5, <1>7, <2>1, <2>2 DEF SessionInv
    <2>4. QED
      BY <1>1, <2>1, <2>2, <2>3 DEF WillBeVar, Undecided, Decides, SaidLet
  <1>8. \A n \in Names : globals'[n] \in Closures => globals'[n].assigns \in assigned
    BY <1>1, <1>2 DEF SessionInv
  <1>9. QED
    BY <1>1, <1>3, <1>4, <1>6, <1>7, <1>8 DEF SessionInv

(* An assignment runs, to a name that is not bound or that a function      *)
(* assigns to.                                                             *)
LEMMA Assigned ==
  ASSUME SessionInv, doing = "run", ip <= Len(code), code[ip].op # "DefineGlobal",
         NEW n \in Names, NEW v \in Plain, Assign(n, v),
         n \in assigned \/ lost[n] # "no" \/ bound[n] = Absent
  PROVE  SessionInv'
  <1>1. /\ code \in Seq(Instructions) /\ ip \in 1 .. Len(code) /\ ip' = ip + 1
        /\ UNCHANGED <<immutable, code, doing, bound, assigned, lost>>
        /\ globals' = [globals EXCEPT ![n] = v] /\ v \in Values /\ v \notin Closures
        /\ globals \in [Names -> Values \cup {Absent}]
    BY ValueCases DEF SessionInv, SessionTypeOK, Assign
  <1>2. SessionTypeOK'
    BY <1>1 DEF SessionInv, SessionTypeOK
  <1>3. LetsHold'
    BY <1>1 DEF SessionInv, LetsHold
  <1>4. ASSUME NEW m \in Names, NEW last \in ip .. Len(code)
        PROVE  /\ WillBeLet(m, last) => WillBeLet(m, last)'
               /\ WillBeVar(m, last) => WillBeVar(m, last)'
    BY <1>1 DEF WillBeLet, WillBeVar, Undecided, Decides, Defines, SaidLet
  <1>5. ASSUME NEW m \in Names
        PROVE  /\ m \in immutable => WillBeLet(m, Len(code))'
               /\ m \notin immutable => WillBeVar(m, Len(code))'
    <2>1. PICK last \in ip .. Len(code) : last = Len(code)
      BY <1>1
    <2>2. /\ m \in immutable => WillBeLet(m, last)
          /\ m \notin immutable => WillBeVar(m, last)
      BY <2>1 DEF SessionInv
    <2>3. QED
      BY <1>1, <1>4, <2>1, <2>2 DEF WillBeLet, WillBeVar, Undecided, Decides, SaidLet
  <1>6. ASSUME NEW j \in ip + 1 .. Len(code), code[j].op = "SetGlobal"
        PROVE  WillBeVar(code[j].name, j - 1)'
    <2>1. PICK m \in Names : m = code[j].name
      BY <1>1, InstructionCases
    <2>2. PICK last \in ip .. Len(code) : last = j - 1
      BY <1>1
    <2>3. WillBeVar(m, last)'
      BY <1>1, <1>4, <1>6, <2>1, <2>2 DEF SessionInv
    <2>4. QED
      BY <1>1, <2>1, <2>2, <2>3 DEF WillBeVar, Undecided, Decides, SaidLet
  <1>7. \A m \in Names : globals'[m] \in Closures => globals'[m].assigns \in assigned
    BY <1>1 DEF SessionInv
  <1>8. QED
    BY <1>1, <1>2, <1>3, <1>5, <1>6, <1>7 DEF SessionInv

LEMMA SetGlobalStep == ASSUME SessionInv, SetGlobal PROVE SessionInv'
  <1>1. /\ doing = "run" /\ ip \in 1 .. Len(code) /\ code[ip].op = "SetGlobal"
        /\ code[ip] \in Instructions /\ Assign(code[ip].name, code[ip].value)
    BY DEF SetGlobal, Executes, SessionInv, SessionTypeOK
  <1>2. code[ip].name \in Names /\ code[ip].value \in Plain
    BY <1>1, InstructionCases
  <1>3. lost[code[ip].name] # "no" \/ bound[code[ip].name] = Absent
    <2>1. WillBeVar(code[ip].name, ip - 1)
      BY <1>1 DEF SessionInv
    <2>2. QED
      BY <1>1, <2>1 DEF WillBeVar, SaidLet
  <1>4. QED
    BY <1>1, <1>2, <1>3, Assigned

LEMMA CallGlobalStep == ASSUME SessionInv, CallGlobal PROVE SessionInv'
  <1> DEFINE closure == globals[code[ip].name]
  <1>1. /\ doing = "run" /\ ip \in 1 .. Len(code) /\ code[ip].op = "Call"
        /\ code[ip] \in Instructions /\ closure \in Closures
        /\ Assign(closure.assigns, closure.result)
    BY DEF CallGlobal, Executes, SessionInv, SessionTypeOK
  <1>2. /\ closure.assigns \in Names /\ closure.result \in Plain
        /\ closure.assigns \in assigned
    BY <1>1, InstructionCases, ValueCases DEF SessionInv
  <1>3. QED
    BY <1>1, <1>2, Assigned

LEMMA SessionStays == ASSUME SessionInv, UNCHANGED sessionVars PROVE SessionInv'
  <1>1. /\ UNCHANGED <<immutable, globals, code, ip, bound, assigned, lost>>
        /\ UNCHANGED doing
    BY DEF sessionVars
  <1>2. \A n \in Names : IF n \in immutable' THEN WillBeLet(n, Len(code))'
                                           ELSE WillBeVar(n, Len(code))'
    BY <1>1 DEF SessionInv, WillBeLet, WillBeVar, Undecided, Decides, Defines, SaidLet
  <1>3. \A i \in ip' .. Len(code') :
          code'[i].op = "SetGlobal" => WillBeVar(code[i].name, i - 1)'
    BY <1>1 DEF SessionInv, WillBeVar, Undecided, Decides, Defines, SaidLet
  <1>4. QED
    BY <1>1, <1>2, <1>3 DEF SessionInv, SessionTypeOK, LetsHold
-----------------------------------------------------------------------------
LEMMA CallStep == ASSUME SessionInv, NEW n \in Names, Call(n) PROVE SessionInv'
  <1> DEFINE i == [op |-> "Call", name |-> n]
  <1>1. i \in Instructions /\ i.op = "Call"
    BY DEF Instructions
  <1>2. assigned \subseteq Names
    BY DEF SessionInv, SessionTypeOK
  <1>3. /\ doing = "compile" /\ Len(code) < ItemsMax /\ code' = Append(code, i)
        /\ UNCHANGED <<immutable, globals, doing, ip, bound, assigned, lost>>
    BY DEF Call, Compiling
  <1> HIDE DEF i
  <1>4. QED
    BY <1>1, <1>2, <1>3, Compiled

LEMMA AssignmentStep ==
  ASSUME SessionInv, NEW n \in Names, NEW v \in Plain, Assignment(n, v)
  PROVE  SessionInv'
  <1> DEFINE i == [op |-> "SetGlobal", name |-> n, value |-> v]
  <1>1. i \in Instructions /\ i.op = "SetGlobal" /\ i.name = n
    BY DEF Instructions
  <1>2. assigned \subseteq Names
    BY DEF SessionInv, SessionTypeOK
  <1>3. /\ doing = "compile" /\ Len(code) < ItemsMax /\ code' = Append(code, i)
        /\ Assignable(n)
        /\ UNCHANGED <<immutable, globals, doing, ip, bound, assigned, lost>>
    BY DEF Assignment, Compiling
  <1> HIDE DEF i
  <1>4. QED
    BY <1>1, <1>2, <1>3, Compiled

LEMMA DeclarationStep ==
  ASSUME SessionInv, NEW n \in Names, NEW v \in Plain, NEW mutable \in BOOLEAN,
         Declaration(n, v, mutable)
  PROVE  SessionInv'
  <1> DEFINE i == [op |-> "DefineGlobal", name |-> n, value |-> v, mutable |-> mutable]
  <1>1. /\ i \in Instructions /\ i.op = "DefineGlobal" /\ i.name = n
        /\ i.mutable = mutable /\ i.value \notin Closures
    BY ValueCases DEF Instructions
  <1>2. assigned \subseteq Names
    BY DEF SessionInv, SessionTypeOK
  <1>3. /\ doing = "compile" /\ Len(code) < ItemsMax /\ code' = Append(code, i)
        /\ Remembered(n, mutable)
        /\ UNCHANGED <<globals, doing, ip, bound, assigned, lost>>
    BY DEF Declaration, Compiling
  <1> HIDE DEF i
  <1>4. QED
    BY <1>1, <1>2, <1>3, Compiled

LEMMA FunctionDeclarationStep ==
  ASSUME SessionInv, NEW n \in Names, NEW closure \in Closures, NEW mutable \in BOOLEAN,
         FunctionDeclaration(n, closure, mutable)
  PROVE  SessionInv'
  <1> DEFINE i == [op |-> "DefineGlobal", name |-> n, value |-> closure,
                   mutable |-> mutable]
  <1>1. /\ i \in Instructions /\ i.op = "DefineGlobal" /\ i.name = n
        /\ i.mutable = mutable /\ i.value = closure
    BY ValueCases DEF Instructions
  <1>2. /\ doing = "compile" /\ Len(code) < ItemsMax /\ code' = Append(code, i)
        /\ Remembered(n, mutable)
        /\ assigned' = assigned \cup {closure.assigns}
        /\ UNCHANGED <<globals, doing, ip, bound, lost>>
    BY DEF FunctionDeclaration, Compiling
  <1>3. assigned' \subseteq Names /\ assigned \subseteq assigned'
    BY <1>2, ValueCases DEF SessionInv, SessionTypeOK
  <1>4. closure.assigns \in assigned'
    BY <1>2
  <1> HIDE DEF i
  <1>5. QED
    BY <1>1, <1>2, <1>3, <1>4, Compiled

LEMMA CompileErrorStep == ASSUME SessionInv, CompileError PROVE SessionInv'
  BY Dropped DEF CompileError, SessionInv

LEMMA RuntimeErrorStep == ASSUME SessionInv, RuntimeError PROVE SessionInv'
  BY Dropped DEF RuntimeError
-----------------------------------------------------------------------------
LEMMA SessionInitInv == SessionInit => SessionInv
  <1> SUFFICES ASSUME SessionInit PROVE SessionInv
    OBVIOUS
  <1>1. /\ code = <<>> /\ code \in Seq(Instructions) /\ Len(code) = 0 /\ ItemsMax \in Nat
        /\ ip = 1 /\ immutable = {} /\ assigned = {} /\ doing = "read"
        /\ lost = [n \in Names |-> "no"]
        /\ globals = [n \in Names |-> Absent] /\ bound = globals
    BY SessionAssumption DEF SessionInit
  <1>2. SessionTypeOK
    BY <1>1 DEF SessionTypeOK
  <1>3. \A n \in Names : WillBeVar(n, Len(code)) /\ globals[n] \notin Closures
    <2>1. ip .. Len(code) = {}
      BY <1>1
    <2>2. \A n \in Names : globals[n] = Absent /\ bound[n] = Absent /\ lost[n] = "no"
      BY <1>1
    <2>3. \A n \in Names : globals[n] \notin Closures
      BY <2>2, ValueCases
    <2>4. QED
      BY <2>1, <2>2, <2>3 DEF WillBeVar, Undecided, SaidLet
  <1>4. QED
    BY <1>1, <1>2, <1>3 DEF SessionInv, LetsHold

LEMMA SessionStep == SessionInv /\ [SessionNext]_sessionVars => SessionInv'
  BY ReadLineStep, EndLineStep, EndCompileStep, DefineGlobalStep, SetGlobalStep,
     CallGlobalStep, CallStep, AssignmentStep, DeclarationStep,
     FunctionDeclarationStep, CompileErrorStep, RuntimeErrorStep, SessionStays
  DEF SessionNext

(* Between what the compiler remembers of a line that it still compiles,   *)
(* what the line has still to do and what the globals are.                 *)
THEOREM SessionInvariant == SessionSpec => []SessionInv
  <1>1. QED
    BY SessionInitInv, SessionStep, PTL DEF SessionSpec

(* The state of a session is always of its type; the instruction pointer   *)
(* is in the line or behind it.                                            *)
THEOREM SessionTyped == SessionSpec => []SessionTypeOK
  <1>1. SessionInv => SessionTypeOK
    BY DEF SessionInv
  <1>2. QED
    BY <1>1, SessionInvariant, PTL

(* What `let` has bound stays, unless a function that was compiled before  *)
(* assigns to it or a later declaration of it never ran.                   *)
THEOREM LetsHoldTheorem == SessionSpec => []LetsHold
  <1>1. SessionInv => LetsHold
    BY DEF SessionInv
  <1>2. QED
    BY <1>1, SessionInvariant, PTL

(* Between lines the compiler takes for immutable exactly the globals of   *)
(* which it was told so last: by the last declaration that ran, or by a    *)
(* later one that was compiled and never ran.                              *)
THEOREM RemembersTheTruthTheorem == SessionSpec => []RemembersTheTruth
  <1>1. SessionInv => RemembersTheTruth
    <2> SUFFICES ASSUME SessionInv, doing = "read", NEW n \in Names
                 PROVE  (n \in immutable) = SaidLet(n)
      BY DEF RemembersTheTruth
    <2>1. ip .. Len(code) = {}
      BY DEF SessionInv
    <2>2. SaidLet(n) \in BOOLEAN /\ ((n \in immutable) <=> SaidLet(n))
      BY <2>1 DEF SessionInv, WillBeLet, WillBeVar, SaidLet
    <2>3. QED
      BY <2>2
  <1>2. QED
    BY <1>1, SessionInvariant, PTL
=============================================================================
