------------------------ MODULE SeccompFilterProofs ------------------------
(***************************************************************************)
(* The filter buildFilter emits implements the policy, for every allow     *)
(* list whose length fits the 8-bit jump distance.                         *)
(*                                                                         *)
(* The argument follows the program counter: past instruction 3 the call   *)
(* is native; at comparison i the number differs from the i numbers before *)
(* it; the instruction after the last comparison is reached only when all  *)
(* of them failed, the last one only from a comparison that held.          *)
(***************************************************************************)
EXTENDS SeccompFilter, TLAPS

ShortList == Size <= 255

\* What the interpreter knows when it is about to execute instruction ip.
Progress ==
  /\ ip = 1 => acc = call.arch
  /\ ip = 2 => call.arch # NativeArch
  /\ ip \in 3..(Size + 5) => call.arch = NativeArch
  /\ ip \in 4..(Size + 3) => acc = call.nr
  /\ ip \in 4..(Size + 4) => \A i \in 1..(ip - 4) : AllowList[i] # call.nr
  /\ ip = Size + 5 => call.nr \in Permitted

IInv == TypeOK /\ (phase = "deciding" => Progress)

\* Facts about the length of the list and its elements.
LEMMA ListFacts ==
  /\ Size \in Nat
  /\ \A i \in 1..Size : AllowList[i] \in Nrs
BY FilterAssumption DEF Size

\* The jump distance of a comparison is not truncated.
LEMMA SkipExact ==
  ASSUME ShortList, NEW i \in 0..(Size - 1)
  PROVE  Skip(i) = Size - i
BY ListFacts DEF ShortList, Skip

\* The program, instruction by instruction.
LEMMA ProgramFacts ==
  ASSUME ShortList, NEW x \in 0..(Size + 5)
  PROVE  /\ x = 0 => Program[x] = Load("arch")
         /\ x = 1 => Program[x] = JumpEq(NativeArch, 1)
         /\ x = 2 => Program[x] = Return("kill")
         /\ x = 3 => Program[x] = Load("nr")
         /\ x \in 4..(Size + 3) =>
              Program[x] = JumpEq(AllowList[x - 3], Size - (x - 4))
         /\ x = Size + 4 => Program[x] = Return("kill")
         /\ x = Size + 5 => Program[x] = Return("allow")
<1> USE ListFacts
<1> DEFINE Instr(y) ==
     CASE y = 0 -> Load("arch")
       [] y = 1 -> JumpEq(NativeArch, 1)
       [] y = 2 -> Return("kill")
       [] y = 3 -> Load("nr")
       [] y \in 4..(Size + 3) -> JumpEq(AllowList[y - 3], Skip(y - 4))
       [] y = Size + 4 -> Return("kill")
       [] y = Size + 5 -> Return("allow")
<1>1. Program[x] = Instr(x)
  BY DEF Program
<1>2. x \in 4..(Size + 3) => Skip(x - 4) = Size - (x - 4)
  <2> SUFFICES ASSUME x \in 4..(Size + 3) PROVE Skip(x - 4) = Size - (x - 4)
    OBVIOUS
  <2>1. x - 4 \in 0..(Size - 1)
    OBVIOUS
  <2> QED
    BY <2>1, SkipExact
<1> HIDE DEF Instr
<1>3. x \in 4..(Size + 3) => Instr(x) = JumpEq(AllowList[x - 3], Skip(x - 4))
  BY DEF Instr
<1>4. /\ x = 0 => Instr(x) = Load("arch")
      /\ x = 1 => Instr(x) = JumpEq(NativeArch, 1)
      /\ x = 2 => Instr(x) = Return("kill")
      /\ x = 3 => Instr(x) = Load("nr")
  BY DEF Instr
<1>5. /\ x = Size + 4 => Instr(x) = Return("kill")
      /\ x = Size + 5 => Instr(x) = Return("allow")
  BY DEF Instr
<1> QED
  BY <1>1, <1>2, <1>3, <1>4, <1>5

\* Which instructions load, jump and return.
LEMMA Opcodes ==
  ASSUME ShortList, NEW x \in 0..(Size + 5)
  PROVE  /\ Program[x].op = "ld" => x \in {0, 3}
         /\ Program[x].op = "jeq" => x = 1 \/ x \in 4..(Size + 3)
         /\ Program[x].op = "ret" => x \in {2, Size + 4, Size + 5}
<1>1. /\ \A f : Load(f).op = "ld"
      /\ \A k, n : JumpEq(k, n).op = "jeq"
      /\ \A v : Return(v).op = "ret"
  BY DEF Load, JumpEq, Return
<1>2. x \in {0, 3} => Program[x].op = "ld"
  BY <1>1, ProgramFacts
<1>3. x = 1 \/ x \in 4..(Size + 3) => Program[x].op = "jeq"
  BY <1>1, ProgramFacts
<1>4. x \in {2, Size + 4, Size + 5} => Program[x].op = "ret"
  BY <1>1, ProgramFacts
<1>5. \/ x \in {0, 3}
      \/ x = 1 \/ x \in 4..(Size + 3)
      \/ x \in {2, Size + 4, Size + 5}
  BY ListFacts
<1> QED
  BY <1>2, <1>3, <1>4, <1>5

\* The child starts outside the interpreter.
LEMMA InitIInv == Init => IInv
<1> SUFFICES ASSUME Init PROVE IInv
  OBVIOUS
<1>1. call \in Calls
  BY FilterAssumption DEF Init, Calls
<1>2. ip \in 0..(Size + 5)
  BY ListFacts DEF Init
<1> QED
  BY <1>1, <1>2 DEF Init, IInv, TypeOK

\* Every step keeps the interpreter's knowledge: a load and a comparison each
\* extend it, the other steps leave it or start afresh.
LEMMA StepIInv ==
  ASSUME ShortList, IInv, [Next]_vars
  PROVE  IInv'
<1> USE FilterAssumption, ListFacts
<1>1. ASSUME SetNoNewPrivs \/ Install \/ ApplyFails
      PROVE  IInv'
  BY <1>1 DEF SetNoNewPrivs, Install, ApplyFails, IInv, TypeOK, Calls
<1>2. ASSUME NEW c \in Calls, Enter(c) PROVE IInv'
  BY <1>2 DEF Enter, IInv, TypeOK, Progress
<1>3. CASE CallExecve
  BY <1>2, <1>3 DEF CallExecve, Calls
<1>4. CASE IssueCall
  BY <1>2, <1>4 DEF IssueCall
<1>5. ASSUME phase = "deciding"
      PROVE  /\ ip \in 0..(Size + 5) /\ Progress
             /\ call.arch \in Archs /\ call.nr \in Nrs
  BY <1>5 DEF IInv, TypeOK, Calls
<1>6. CASE DoLoad
  <2>1. phase = "deciding" /\ ip \in 0..(Size + 5)
    BY <1>5, <1>6 DEF DoLoad
  <2>2. ip \in {0, 3}
    BY <1>6, <2>1, Opcodes DEF DoLoad
  <2>3. CASE ip = 0
    <3>1. Program[ip] = Load("arch")
      BY <2>1, <2>3, ProgramFacts
    <3>2. acc' = call.arch /\ ip' = 1 /\ UNCHANGED <<phase, call, execed>>
      BY <1>6, <2>3, <3>1 DEF DoLoad, Load
    <3> QED
      BY <1>5, <2>1, <3>2 DEF IInv, TypeOK, Progress
  <2>4. CASE ip = 3
    <3>1. Program[ip] = Load("nr")
      BY <2>1, <2>4, ProgramFacts
    <3>2. acc' = call.nr /\ ip' = 4 /\ UNCHANGED <<phase, call, execed>>
      BY <1>6, <2>4, <3>1 DEF DoLoad, Load
    <3>3. call.arch = NativeArch
      BY <1>5, <2>1, <2>4 DEF Progress
    <3> QED
      BY <1>5, <2>1, <3>2, <3>3 DEF IInv, TypeOK, Progress
  <2> QED
    BY <2>2, <2>3, <2>4
<1>7. CASE DoJump
  <2>1. phase = "deciding" /\ ip \in 0..(Size + 5)
    BY <1>5, <1>7 DEF DoJump
  <2>2. ip = 1 \/ ip \in 4..(Size + 3)
    BY <1>7, <2>1, Opcodes DEF DoJump
  <2>3. UNCHANGED <<phase, call, acc, execed>>
    BY <1>7 DEF DoJump
  <2>4. CASE ip = 1
    <3>1. Program[ip] = JumpEq(NativeArch, 1)
      BY <2>1, <2>4, ProgramFacts
    <3>2. ip' = IF acc = NativeArch THEN 3 ELSE 2
      BY <1>7, <2>4, <3>1 DEF DoJump, JumpEq
    <3>3. acc = call.arch
      BY <1>5, <2>1, <2>4 DEF Progress
    <3> QED
      BY <2>1, <2>3, <3>2, <3>3 DEF IInv, TypeOK, Progress
  <2>5. CASE ip \in 4..(Size + 3)
    <3>1. Program[ip] = JumpEq(AllowList[ip - 3], Size - (ip - 4))
      BY <2>1, <2>5, ProgramFacts
    <3>2. ip' = ip + 1 + (IF acc = AllowList[ip - 3] THEN Size - (ip - 4)
                                                     ELSE 0)
      BY <1>7, <3>1 DEF DoJump, JumpEq
    <3>3. call.arch = NativeArch /\ acc = call.nr
          /\ \A i \in 1..(ip - 4) : AllowList[i] # call.nr
      BY <1>5, <2>1, <2>5 DEF Progress
    <3>4. CASE acc = AllowList[ip - 3]
      <4>1. ip' = Size + 5 /\ ip - 3 \in 1..Size
        BY <2>5, <3>2, <3>4
      <4>2. call.nr \in Permitted
        BY <3>3, <3>4, <4>1 DEF Permitted
      <4>3. Permitted' = Permitted
        BY DEF Permitted
      <4> QED
        BY <2>3, <3>3, <4>1, <4>2, <4>3 DEF IInv, TypeOK, Progress
    <3>5. CASE acc # AllowList[ip - 3]
      <4>1. ip' = ip + 1 /\ ip' \in 5..(Size + 4)
        BY <2>5, <3>2, <3>5
      <4>2. \A i \in 1..(ip' - 4) : AllowList[i] # call.nr
        BY <2>5, <3>3, <3>5, <4>1
      <4> QED
        BY <2>3, <3>3, <4>1, <4>2 DEF IInv, TypeOK, Progress
    <3> QED
      BY <3>4, <3>5
  <2> QED
    BY <2>2, <2>4, <2>5
<1>8. CASE DoReturn
  BY <1>8 DEF DoReturn, IInv, TypeOK
<1>9. CASE Ended \/ UNCHANGED vars
  <2>1. UNCHANGED vars
    BY <1>9 DEF Ended
  <2> QED
    BY <2>1 DEF vars, IInv, TypeOK, Progress, Permitted
<1> QED
  BY <1>1, <1>3, <1>4, <1>6, <1>7, <1>8, <1>9 DEF Next, Interpret

\* The invariant holds of every behaviour of the interpreter.
THEOREM Invariance ==
  ASSUME ShortList
  PROVE  Spec => []IInv
<1>1. IInv /\ [Next]_vars => IInv'
  BY StepIInv
<1> QED
  BY <1>1, InitIInv, PTL DEF Spec

\* TypeOK: the interpreter stays inside the program.
THEOREM TypeCorrect ==
  ASSUME ShortList
  PROVE  Spec => []TypeOK
<1>1. IInv => TypeOK
  BY DEF IInv
<1> QED
  BY <1>1, Invariance, PTL

\* The verdict is the policy's: the return instruction reached is the ALLOW
\* exactly for a native call with a number on the list.
LEMMA Verdict ==
  ASSUME ShortList, IInv, DoReturn
  PROVE  (Program[ip].k = "allow") <=> Policy!Allowed(call)
<1> USE ListFacts
<1>1. phase = "deciding" /\ ip \in 0..(Size + 5) /\ Progress
  BY DEF DoReturn, IInv, TypeOK
<1>2. ip \in {2, Size + 4, Size + 5}
  BY <1>1, Opcodes DEF DoReturn
<1>3. CASE ip = 2
  <2>1. Program[ip] = Return("kill")
    BY <1>1, <1>3, ProgramFacts
  <2> QED
    BY <1>1, <1>3, <2>1 DEF Progress, Return, Policy!Allowed
<1>4. CASE ip = Size + 4
  <2>1. Program[ip] = Return("kill")
    BY <1>1, <1>4, ProgramFacts
  <2>2. \A i \in 1..Size : AllowList[i] # call.nr
    BY <1>1, <1>4 DEF Progress
  <2> QED
    BY <2>1, <2>2 DEF Return, Policy!Allowed, Permitted
<1>5. CASE ip = Size + 5
  <2>1. Program[ip] = Return("allow")
    BY <1>1, <1>5, ProgramFacts
  <2>2. call.arch = NativeArch /\ call.nr \in Permitted
    BY <1>1, <1>5 DEF Progress
  <2> QED
    BY <2>1, <2>2 DEF Return, Policy!Allowed
<1> QED
  BY <1>2, <1>3, <1>4, <1>5

\* ImplementsPolicy: Apply, the program of buildFilter and the kernel's
\* interpreter implement the policy.
THEOREM Refinement ==
  ASSUME ShortList
  PROVE  Spec => ImplementsPolicy
<1>1. Init => Policy!Init
  BY FilterAssumption DEF Init, Policy!Init, PolicyPhase, Policy!Calls
<1>2. ASSUME IInv, [Next]_vars
      PROVE  [Policy!Next]_<<PolicyPhase, call>>
  <2> SUFFICES Policy!Next \/ UNCHANGED <<PolicyPhase, call>>
    OBVIOUS
  <2>1. CASE SetNoNewPrivs
    BY <2>1 DEF SetNoNewPrivs, PolicyPhase
  <2>2. CASE Install \/ ApplyFails
    BY <2>2 DEF Install, ApplyFails, PolicyPhase, Policy!Next, Policy!Enforce
  <2>3. ASSUME NEW c \in Calls, Enter(c), phase \in {"filtered", "running"}
        PROVE  Policy!Next
    BY <2>3 DEF Enter, Calls, PolicyPhase, Policy!Next, Policy!Issue,
                Policy!Calls
  <2>4. CASE CallExecve \/ IssueCall
    BY <2>3, <2>4, FilterAssumption DEF CallExecve, IssueCall, Calls
  <2>5. CASE DoLoad \/ DoJump
    BY <2>5 DEF DoLoad, DoJump, PolicyPhase
  <2>6. CASE DoReturn
    <3>1. (Program[ip].k = "allow") <=> Policy!Allowed(call)
      BY <2>6, <1>2, Verdict
    <3> QED
      BY <2>6, <3>1 DEF DoReturn, PolicyPhase, Policy!Next, Policy!Decide
  <2>7. CASE Ended \/ UNCHANGED vars
    BY <2>7 DEF Ended, vars, PolicyPhase
  <2> QED
    BY <1>2, <2>1, <2>2, <2>4, <2>5, <2>6, <2>7 DEF Next, Interpret
<1> QED
  BY <1>1, <1>2, Invariance, PTL DEF Spec, ImplementsPolicy, Policy!Spec

\* Until the execve of Child has been let through it is the call decided.
FirstCall ==
  /\ phase = "running" => execed
  /\ phase = "deciding" /\ ~execed =>
       call = [arch |-> NativeArch, nr |-> ExecveNr]

\* ExecveSurvives: with execve on its list, the filter does not kill the child
\* that has just installed it.
THEOREM ChildSurvives ==
  ASSUME ShortList, ExecveNr \in Permitted
  PROVE  Spec => []ExecveSurvives
<1> DEFINE Inv == FirstCall /\ ExecveSurvives
<1>1. Init => Inv
  BY DEF Init, FirstCall, ExecveSurvives
<1>2. ASSUME IInv, Inv, [Next]_vars
      PROVE  Inv'
  <2>1. ASSUME SetNoNewPrivs \/ Install \/ ApplyFails
        PROVE  Inv'
    BY <1>2, <2>1 DEF SetNoNewPrivs, Install, ApplyFails, FirstCall,
                      ExecveSurvives
  <2>2. CASE CallExecve
    BY <1>2, <2>2 DEF CallExecve, Enter, FirstCall, ExecveSurvives
  <2>3. CASE IssueCall
    BY <1>2, <2>3 DEF IssueCall, Enter, FirstCall, ExecveSurvives
  <2>4. CASE DoLoad \/ DoJump
    BY <1>2, <2>4 DEF DoLoad, DoJump, FirstCall, ExecveSurvives
  <2>5. CASE DoReturn
    <3>1. (Program[ip].k = "allow") <=> Policy!Allowed(call)
      BY <1>2, <2>5, Verdict
    <3>2. ~execed => Program[ip].k = "allow"
      BY <1>2, <2>5, <3>1 DEF DoReturn, FirstCall, Policy!Allowed
    <3> QED
      BY <1>2, <2>5, <3>2 DEF DoReturn, FirstCall, ExecveSurvives
  <2>6. CASE Ended \/ UNCHANGED vars
    BY <1>2, <2>6 DEF Ended, vars, FirstCall, ExecveSurvives
  <2> QED
    BY <1>2, <2>1, <2>2, <2>3, <2>4, <2>5, <2>6 DEF Next, Interpret
<1>3. Inv => ExecveSurvives
  OBVIOUS
<1> QED
  BY <1>1, <1>2, <1>3, Invariance, PTL DEF Spec
=============================================================================
