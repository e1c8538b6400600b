------------------------- MODULE MySQLClientProofs -------------------------
(***************************************************************************)
(* Proofs about the MySQL client and the election by GTID sets, for any    *)
(* number of callers, servers, faults, transactions and answers.           *)
(***************************************************************************)
EXTENDS MySQLClient, FiniteSetTheorems, WellFoundedInduction, TLAPS

Call == [pc: {"idle", "open", "ping", "exec"}, op: Operations, at: 1 .. 3,
         hosts: SUBSET Servers, password: Passwords]

Text == SUBSET (Sources \X (1 .. MaxTx) \X (1 .. MaxTx))

\* The callers that hold a handle.
Holders == {c \in Callers : call[c].pc \in {"ping", "exec"}}

\* The servers behind initializeCluster's host name that have the user.
Known == {s \in Behind : account[s] # "absent"}

TypeInv == TypeOK /\ HandlesClosed

-----------------------------------------------------------------------------
(* What the actions are built from.                                        *)

\* The callers that hold a handle can be counted.
LEMMA HoldersFinite ==
  /\ IsFiniteSet(Holders) /\ Cardinality(Holders) \in Nat
  /\ HandlesClosed <=> handles = Cardinality(Holders)
<1>1. IsFiniteSet(Callers)
  BY ClientAssumption
<1>2. Holders \in SUBSET Callers
  BY DEF Holders
<1>3. IsFiniteSet(Holders)
  BY <1>1, <1>2, FS_Subset
<1> QED BY <1>3, FS_CardinalityType DEF HandlesClosed, Holders

\* The texts of the statements.
LEMMA StatementsFacts ==
  /\ Statements("initializeCluster")
       = <<"CreateUser", "GrantPrivileges", "SetBootstrapMember">>
  /\ Len(Statements("initializeCluster")) = 3
  /\ Statements("initializeCluster")[1] = "CreateUser"
  /\ Statements("initializeCluster")[2] = "GrantPrivileges"
  /\ Statements("initializeCluster")[3] = "SetBootstrapMember"
  /\ \A op \in Operations \ {"initializeCluster"} : Len(Statements(op)) = 1
  BY SMT DEF Statements, Operations

\* A caller at rest holds nothing.
LEMMA IdleFacts ==
  /\ Idle \in Call
  /\ Idle.pc = "idle"
  /\ Idle.op # "initializeCluster"
<1>1. "GetGTID" \in Operations /\ 1 \in 1 .. 3 /\ {} \in SUBSET Servers
        /\ RootPassword \in Passwords
  BY SMT DEF Operations, Passwords
<1> QED BY <1>1 DEF Idle, Call

\* A function with one value replaced.
LEMMA FunctionWrite ==
  ASSUME NEW S, NEW T, NEW f \in [S -> T], NEW x, NEW v, x \in S => v \in T
  PROVE  /\ [f EXCEPT ![x] = v] \in [S -> T]
         /\ \A y \in S : [f EXCEPT ![x] = v][y] = IF y = x THEN v ELSE f[y]
<1>1. \A y \in S : [f EXCEPT ![x] = v][y] = IF y = x THEN v ELSE f[y]
  OBVIOUS
<1>2. [f EXCEPT ![x] = v] = [y \in S |-> IF y = x THEN v ELSE f[y]]
  OBVIOUS
<1>3. [y \in S |-> IF y = x THEN v ELSE f[y]] \in [S -> T]
  OBVIOUS
<1> QED BY <1>1, <1>2, <1>3

\* What a step does to the calls: one caller goes on, the others stand still.
Proceeds(c) ==
  /\ call' \in [Callers -> Call]
  /\ \A o \in Callers : o # c => call'[o] = call[o]

\* A caller's step from one record to the next.
LEMMA CallWrite ==
  ASSUME TypeOK, NEW c \in Callers, NEW v \in Call, call' = [call EXCEPT ![c] = v]
  PROVE  Proceeds(c) /\ call'[c] = v
<1>1. call \in [Callers -> Call]
  BY DEF TypeOK, Call
<1> QED BY <1>1, FunctionWrite DEF Proceeds

\* The next statement of a call.
LEMMA ContinuedFacts ==
  ASSUME TypeOK, NEW c \in Callers
  PROVE  /\ Continued(c) \in Call
         /\ Continued(c).pc \in {"idle", "open"}
         /\ \/ Continued(c) = Idle
            \/ /\ Continued(c).op = call[c].op
               /\ call[c].op = "initializeCluster"
               /\ call[c].at < 3
               /\ Continued(c).at = call[c].at + 1
               /\ Continued(c).hosts = Behind
<1> DEFINE w == call[c]
           v == [w EXCEPT !.pc = "open", !.at = w.at + 1, !.hosts = Behind]
<1>1. w \in Call
  BY DEF TypeOK, Call
<1>2. CASE w.at < Len(Statements(w.op))
  <2>1. w.op = "initializeCluster" /\ w.at < 3
    <3>1. w.op \in Operations /\ w.at \in 1 .. 3
      BY <1>1 DEF Call
    <3> HIDE DEF w
    <3>2. w.op = "initializeCluster"
      <4>1. Len(Statements(w.op)) # 1
        <5> SUFFICES ASSUME Len(Statements(w.op)) = 1 PROVE FALSE
          OBVIOUS
        <5>1. w.at < 1
          BY <1>2
        <5>2. w.at \in Int /\ w.at >= 1
          BY <3>1
        <5> HIDE DEF w
        <5> QED BY <5>1, <5>2, SMT
      <4> QED BY <3>1, <4>1, StatementsFacts
    <3> QED BY <1>2, <3>2, StatementsFacts
  <2>2. w.at + 1 \in 1 .. 3 /\ Behind \in SUBSET Servers /\ "open" \in {"idle", "open", "ping", "exec"}
    BY <1>1, <2>1, ClientAssumption, SMT DEF Call
  <2>3. \A a \in 1 .. 3 : LET u == [w EXCEPT !.pc = "open", !.at = a, !.hosts = Behind] IN
          u \in Call /\ u.pc = "open" /\ u.op = w.op /\ u.at = a /\ u.hosts = Behind
    BY <1>1, <2>2, Zenon DEF Call
  <2>4. v \in Call /\ v.pc = "open" /\ v.op = w.op /\ v.at = w.at + 1 /\ v.hosts = Behind
    BY <2>2, <2>3
  <2>5. Continued(c) = v
    BY <1>2 DEF Continued
  <2> HIDE DEF v
  <2> QED BY <2>1, <2>4, <2>5
<1>3. CASE ~(w.at < Len(Statements(w.op)))
  BY <1>3, IdleFacts DEF Continued
<1> QED BY <1>2, <1>3

\* Carrying out a statement: a user that is there stays, and so do its rights.
LEMMA RunsFacts ==
  ASSUME TypeOK, NEW s \in Servers, NEW st, Runs(s, st)
  PROVE  /\ account' \in [Servers -> Accounts]
         /\ bootstrap' \in [Servers -> BOOLEAN]
         /\ password' \in [Servers -> Passwords]
         /\ \A x \in Servers : /\ account[x] # "absent" => account'[x] # "absent"
                               /\ account[x] = "granted" => account'[x] = "granted"
         /\ st = "CreateUser" => account'[s] # "absent"
         /\ st = "GrantPrivileges" => account'[s] = "granted"
<1> DEFINE a == IF st = "CreateUser" /\ account[s] = "absent" THEN "created"
                ELSE IF st = "GrantPrivileges" THEN "granted" ELSE account[s]
           b == bootstrap[s] \/ st = "SetBootstrapMember"
           p == IF st = "ModifyRootPassword" THEN "changed" ELSE password[s]
<1>1. a \in Accounts /\ b \in BOOLEAN /\ p \in Passwords
  BY DEF TypeOK, Accounts, Passwords
<1>2. /\ account' = [account EXCEPT ![s] = a]
      /\ bootstrap' = [bootstrap EXCEPT ![s] = b]
      /\ password' = [password EXCEPT ![s] = p]
  BY DEF Runs
<1>3. account[s] \in Accounts
  BY DEF TypeOK
<1>4. /\ account[s] # "absent" => a # "absent"
      /\ account[s] = "granted" => a = "granted"
      /\ st = "CreateUser" => a # "absent"
      /\ st = "GrantPrivileges" => a = "granted"
  BY <1>3 DEF Accounts
<1> HIDE DEF a, b, p
<1>5. /\ account' \in [Servers -> Accounts]
      /\ \A x \in Servers : account'[x] = IF x = s THEN a ELSE account[x]
  BY <1>1, <1>2, FunctionWrite DEF TypeOK
<1>6. bootstrap' \in [Servers -> BOOLEAN] /\ password' \in [Servers -> Passwords]
  BY <1>1, <1>2, FunctionWrite DEF TypeOK
<1> QED BY <1>4, <1>5, <1>6

\* The servers keep what they have, whether a statement is carried out or not.
ServersKeep ==
  /\ account' \in [Servers -> Accounts]
  /\ bootstrap' \in [Servers -> BOOLEAN]
  /\ password' \in [Servers -> Passwords]
  /\ \A x \in Servers : /\ account[x] # "absent" => account'[x] # "absent"
                        /\ account[x] = "granted" => account'[x] = "granted"

-----------------------------------------------------------------------------
(* What a call does, with the data left out.                               *)

\* A call begins.
Begins(c) ==
  /\ call[c].pc = "idle" /\ call'[c].pc = "open"
  /\ call'[c].at = 1
  /\ call'[c].op = "initializeCluster" => call'[c].hosts = Behind
  /\ handles' = handles

\* It opens its handle, or finds its server.
Opens(c) ==
  /\ call[c].pc = "open" /\ call'[c].pc = "ping"
  /\ handles' = handles + 1

Connects(c) ==
  /\ call[c].pc = "ping" /\ call'[c].pc = "exec"
  /\ handles' = handles

\* It stays the call it was, of servers it knew before.
Same(c) ==
  /\ call'[c].op = call[c].op
  /\ call'[c].at = call[c].at
  /\ call'[c].hosts \subseteq call[c].hosts

\* It ends without having come to its end.
Breaks(c) ==
  /\ call[c].pc \in {"ping", "exec"}
  /\ call'[c] = Idle
  /\ handles' = handles - 1

\* Its statement is carried out on one of its servers, and the next one follows.
Goes(c) ==
  /\ call[c].pc = "exec"
  /\ call'[c] = Continued(c)
  /\ handles' = handles - 1
  /\ \E s \in call[c].hosts :
       /\ CanRun(s, Statement(c))
       /\ Statement(c) = "CreateUser" => account'[s] # "absent"
       /\ Statement(c) = "GrantPrivileges" => account'[s] = "granted"

Effect(c) ==
  \/ Begins(c)
  \/ (Opens(c) \/ Connects(c)) /\ Same(c)
  \/ Breaks(c)
  \/ Goes(c)

Frame(c) ==
  /\ Proceeds(c)
  /\ ServersKeep
  /\ answers' \in Seq(Text)
  /\ faults' \in Nat

\* Beginning a call changes nothing but the caller,
LEMMA BeginEffect ==
  ASSUME TypeInv, NEW c \in Callers, InitializeCluster(c) \/ Use(c)
  PROVE  Frame(c) /\ Effect(c)
<1>1. PICK v \in Call : /\ call' = [call EXCEPT ![c] = v]
                        /\ v.pc = "open" /\ v.at = 1
                        /\ v.op = "initializeCluster" => v.hosts = Behind
  <2>1. CASE InitializeCluster(c)
    <3> DEFINE v == [pc |-> "open", op |-> "initializeCluster", at |-> 1,
                     hosts |-> Behind, password |-> MySQLRootPassWord]
    <3>1. v \in Call
      BY ClientAssumption, SMT DEF Call, Operations, Passwords
    <3>2. call' = [call EXCEPT ![c] = v]
      BY <2>1 DEF InitializeCluster
    <3> QED BY <3>1, <3>2
  <2>2. CASE Use(c)
    <3>1. PICK op \in Calls \ {"initializeCluster"}, s \in Servers, p \in Passwords :
            call' = [call EXCEPT ![c] = [pc |-> "open", op |-> op, at |-> 1,
                                         hosts |-> {s}, password |-> p]]
      BY <2>2 DEF Use
    <3> DEFINE v == [pc |-> "open", op |-> op, at |-> 1, hosts |-> {s}, password |-> p]
    <3>2. v \in Call
      BY ClientAssumption, SMT DEF Call
    <3> QED BY <3>1, <3>2
  <2> QED BY <2>1, <2>2
<1>2. call[c].pc = "idle" /\ UNCHANGED <<account, bootstrap, password, handles, answers, faults>>
  BY DEF InitializeCluster, Use, servers
<1>3. Proceeds(c) /\ call'[c] = v
  BY <1>1, CallWrite DEF TypeInv
<1>4. Frame(c)
  BY <1>2, <1>3 DEF Frame, ServersKeep, TypeInv, TypeOK, Text
<1> QED BY <1>1, <1>2, <1>3, <1>4 DEF Effect, Begins

\* a call that moves on keeps its fields,
LEMMA CallExcept ==
  ASSUME TypeOK, NEW c \in Callers, NEW p \in {"idle", "open", "ping", "exec"},
         NEW h \in SUBSET call[c].hosts,
         call' = [call EXCEPT ![c] = [call[c] EXCEPT !.pc = p, !.hosts = h]]
  PROVE  Proceeds(c) /\ Same(c) /\ call'[c].pc = p
<1> DEFINE w == call[c]
           v == [w EXCEPT !.pc = p, !.hosts = h]
<1>1. w \in Call
  BY DEF TypeOK, Call
<1>2. h \in SUBSET Servers
  BY <1>1 DEF Call
<1>3. v \in Call /\ v.pc = p /\ v.op = w.op /\ v.at = w.at /\ v.hosts = h
  BY <1>1, <1>2, Zenon DEF Call
<1> HIDE DEF v
<1>4. Proceeds(c) /\ call'[c] = v
  BY <1>3, CallWrite DEF v
<1> QED BY <1>3, <1>4 DEF Same

\* opening a handle goes on with the ping,
LEMMA OpenEffect ==
  ASSUME TypeInv, NEW c \in Callers, Open(c)
  PROVE  Frame(c) /\ Effect(c)
<1>1. /\ call[c].pc = "open" /\ handles' = handles + 1
      /\ UNCHANGED <<account, bootstrap, password, answers, faults>>
  BY DEF Open, servers
<1>2. call' = [call EXCEPT ![c] = [call[c] EXCEPT !.pc = "ping", !.hosts = call[c].hosts]]
  <2>1. call[c] \in Call
    BY DEF TypeInv, TypeOK, Call
  <2>2. [call[c] EXCEPT !.pc = "ping", !.hosts = call[c].hosts] = [call[c] EXCEPT !.pc = "ping"]
    BY <2>1 DEF Call
  <2> QED BY <2>2 DEF Open
<1>3. Proceeds(c) /\ Same(c) /\ call'[c].pc = "ping"
  <2> DEFINE h == call[c].hosts
  <2>1. h \in SUBSET call[c].hosts /\ "ping" \in {"idle", "open", "ping", "exec"}
    OBVIOUS
  <2>2. call' = [call EXCEPT ![c] = [call[c] EXCEPT !.pc = "ping", !.hosts = h]]
    BY <1>2
  <2> HIDE DEF h
  <2> QED BY <2>1, <2>2, CallExcept DEF TypeInv
<1>4. Frame(c)
  BY <1>1, <1>3 DEF Frame, ServersKeep, TypeInv, TypeOK, Text
<1> QED BY <1>1, <1>3, <1>4 DEF Effect, Opens

\* a fault is spent,
LEMMA FailsType == TypeInv /\ Fails => faults' \in Nat
  BY SMT DEF TypeInv, TypeOK, Fails

\* a call that breaks leaves the caller at rest,
LEMMA BreaksEffect ==
  ASSUME TypeInv, NEW c \in Callers, call[c].pc \in {"ping", "exec"},
         call' = [call EXCEPT ![c] = Idle], handles' = handles - 1,
         Fails \/ UNCHANGED faults, UNCHANGED answers, ServersKeep
  PROVE  Frame(c) /\ Effect(c)
<1>1. Proceeds(c) /\ call'[c] = Idle
  BY IdleFacts, CallWrite DEF TypeInv
<1>2. answers' \in Seq(Text)
  BY DEF TypeInv, TypeOK, Text
<1>3. faults' \in Nat
  <2>1. faults \in Nat
    BY DEF TypeInv, TypeOK
  <2> QED BY <2>1, FailsType
<1> QED BY <1>1, <1>2, <1>3 DEF Effect, Breaks, Frame

\* the ping finds a server or breaks the call,
LEMMA PingEffect ==
  ASSUME TypeInv, NEW c \in Callers, Ping(c)
  PROVE  Frame(c) /\ Effect(c)
<1>1. call[c].pc = "ping" /\ UNCHANGED <<account, bootstrap, password, answers>>
  BY DEF Ping, servers
<1>2. ServersKeep
  BY <1>1 DEF ServersKeep, TypeInv, TypeOK
<1>3. CASE handles' = handles - 1 /\ call' = [call EXCEPT ![c] = Idle]
             /\ (Fails \/ UNCHANGED faults)
  BY <1>1, <1>2, <1>3, BreaksEffect
<1>4. CASE \E s \in call[c].hosts :
             /\ call' = [call EXCEPT ![c].pc = "exec", ![c].hosts = {s}]
             /\ UNCHANGED <<handles, faults>>
  <2>1. PICK s \in call[c].hosts :
          /\ call' = [call EXCEPT ![c].pc = "exec", ![c].hosts = {s}]
          /\ UNCHANGED <<handles, faults>>
    BY <1>4
  <2>2. call' = [call EXCEPT ![c] = [call[c] EXCEPT !.pc = "exec", !.hosts = {s}]]
    <3>1. call \in [Callers -> Call]
      BY DEF TypeInv, TypeOK, Call
    <3> QED BY <2>1, <3>1
  <2>3. Proceeds(c) /\ Same(c) /\ call'[c].pc = "exec"
    <3>1. {s} \in SUBSET call[c].hosts /\ "exec" \in {"idle", "open", "ping", "exec"}
      BY <2>1
    <3> QED BY <2>2, <3>1, CallExcept DEF TypeInv
  <2>4. Frame(c)
    BY <1>1, <1>2, <2>1, <2>3 DEF Frame, TypeInv, TypeOK, Text
  <2> QED BY <1>1, <2>1, <2>3, <2>4 DEF Effect, Connects
<1> QED BY <1>3, <1>4 DEF Ping

\* an answer that is kept is a text,
LEMMA AnswersType ==
  ASSUME TypeInv, NEW done,
         answers' = IF Len(answers) < MaxAnswers
                    THEN Append(answers, Printed(done)) ELSE answers
  PROVE  answers' \in Seq(Text)
<1>1. answers \in Seq(Text)
  BY DEF TypeInv, TypeOK, Text
<1>2. Printed(done) \in Text
  BY DEF Printed, Text
<1> QED BY <1>1, <1>2

\* and a statement is carried out, refused, or cut off.
LEMMA ExecEffect ==
  ASSUME TypeInv, NEW c \in Callers, Exec(c)
  PROVE  Frame(c) /\ Effect(c)
<1>1. PICK s \in call[c].hosts :
        /\ call[c].pc = "exec"
        /\ handles' = handles - 1
        /\ \/ /\ CanRun(s, Statement(c))
              /\ Runs(s, Statement(c))
              /\ IF Statement(c) = "GetGTID"
                 THEN \E done \in SUBSET Transactions :
                        answers' = IF Len(answers) < MaxAnswers
                                   THEN Append(answers, Printed(done)) ELSE answers
                 ELSE UNCHANGED answers
              /\ call' = [call EXCEPT ![c] = Continued(c)]
              /\ UNCHANGED faults
           \/ /\ call' = [call EXCEPT ![c] = Idle]
              /\ Fails \/ UNCHANGED faults
              /\ Runs(s, Statement(c)) \/ UNCHANGED servers
              /\ UNCHANGED answers
  BY DEF Exec
<1>2. s \in Servers
  BY DEF TypeInv, TypeOK
<1>3. ServersKeep
  <2>1. CASE Runs(s, Statement(c))
    BY <1>2, <2>1, RunsFacts DEF ServersKeep, TypeInv
  <2>2. CASE UNCHANGED servers
    BY <2>2 DEF ServersKeep, servers, TypeInv, TypeOK
  <2> QED BY <1>1, <2>1, <2>2
<1>4. CASE /\ CanRun(s, Statement(c))
           /\ Runs(s, Statement(c))
           /\ IF Statement(c) = "GetGTID"
              THEN \E done \in SUBSET Transactions :
                     answers' = IF Len(answers) < MaxAnswers
                                THEN Append(answers, Printed(done)) ELSE answers
              ELSE UNCHANGED answers
           /\ call' = [call EXCEPT ![c] = Continued(c)]
           /\ UNCHANGED faults
  <2>1. answers' \in Seq(Text)
    BY <1>4, AnswersType DEF TypeInv, TypeOK, Text
  <2>2. Continued(c) \in Call
    BY ContinuedFacts DEF TypeInv
  <2>3. Proceeds(c) /\ call'[c] = Continued(c)
    BY <1>4, <2>2, CallWrite DEF TypeInv
  <2>4. Frame(c)
    BY <1>3, <1>4, <2>1, <2>3 DEF Frame, TypeInv, TypeOK
  <2>5. /\ Statement(c) = "CreateUser" => account'[s] # "absent"
        /\ Statement(c) = "GrantPrivileges" => account'[s] = "granted"
    BY <1>2, <1>4, RunsFacts DEF TypeInv
  <2>6. Goes(c)
    BY <1>1, <1>4, <2>3, <2>5 DEF Goes
  <2> QED BY <2>4, <2>6 DEF Effect
<1>5. CASE /\ call' = [call EXCEPT ![c] = Idle]
           /\ Fails \/ UNCHANGED faults
           /\ UNCHANGED answers
  BY <1>1, <1>3, <1>5, BreaksEffect
<1> QED BY <1>1, <1>4, <1>5

\* Every step has one of the effects.
LEMMA StepEffect ==
  ASSUME TypeInv, NEW c \in Callers, InitializeCluster(c) \/ Use(c) \/ Step(c)
  PROVE  Frame(c) /\ Effect(c)
  BY BeginEffect, OpenEffect, PingEffect, ExecEffect DEF Step

-----------------------------------------------------------------------------
(* Types and handles.                                                      *)

\* The handles are counted along: one is opened by a caller that had none, and
\* closed by one that has.
LEMMA HandlesCounted ==
  ASSUME TypeInv, NEW c \in Callers, Proceeds(c), Effect(c)
  PROVE  HandlesClosed' /\ handles' \in Nat
<1> DEFINE H == Holders
           H2 == Holders'
<1>1. /\ IsFiniteSet(H) /\ Cardinality(H) \in Nat
      /\ handles = Cardinality(H)
  BY HoldersFinite DEF TypeInv
<1>2. H2 = {x \in Callers : call'[x].pc \in {"ping", "exec"}}
  BY DEF Holders
<1>3. HandlesClosed' <=> handles' = Cardinality(H2)
  BY <1>2 DEF HandlesClosed
<1>4. \A x \in Callers : x # c => (x \in H2 <=> x \in H)
  BY <1>2 DEF Proceeds, Holders
<1>5. H \subseteq Callers /\ H2 \subseteq Callers
  BY <1>2 DEF Holders
<1>6. CASE handles' = handles /\ (c \in H2 <=> c \in H)
  <2>1. H2 = H
    BY <1>4, <1>5, <1>6
  <2> HIDE DEF H, H2
  <2> QED BY <1>1, <1>3, <1>6, <2>1
<1>7. CASE handles' = handles + 1 /\ c \notin H /\ c \in H2
  <2>1. H2 = H \cup {c}
    BY <1>4, <1>5, <1>7
  <2> HIDE DEF H, H2
  <2>2. Cardinality(H2) = Cardinality(H) + 1
    BY <1>1, <1>7, <2>1, FS_AddElement
  <2> QED BY <1>1, <1>3, <1>7, <2>2, SMT
<1>8. CASE handles' = handles - 1 /\ c \in H /\ c \notin H2
  <2>1. H2 = H \ {c}
    BY <1>4, <1>5, <1>8
  <2> HIDE DEF H, H2
  <2>2. /\ IsFiniteSet(H2)
        /\ Cardinality(H2) = Cardinality(H) - 1
    BY <1>1, <1>8, <2>1, FS_RemoveElement
  <2>3. Cardinality(H2) \in Nat
    BY <2>2, FS_CardinalityType
  <2> QED BY <1>1, <1>3, <1>8, <2>2, <2>3
<1>9. c \in H <=> call[c].pc \in {"ping", "exec"}
  BY DEF Holders
<1>10. c \in H2 <=> call'[c].pc \in {"ping", "exec"}
  BY <1>2
<1>11. Continued(c).pc \in {"idle", "open"} /\ Idle.pc = "idle"
  BY ContinuedFacts, IdleFacts DEF TypeInv
<1> HIDE DEF H, H2
<1>12. CASE Begins(c) \/ Connects(c)
  BY <1>6, <1>9, <1>10, <1>12 DEF Begins, Connects
<1>13. CASE Opens(c)
  BY <1>7, <1>9, <1>10, <1>13 DEF Opens
<1>14. CASE Breaks(c) \/ Goes(c)
  BY <1>8, <1>9, <1>10, <1>11, <1>14 DEF Breaks, Goes
<1> QED BY <1>12, <1>13, <1>14 DEF Effect

\* The initial state has the types, and no handle.
LEMMA InitType == Init => TypeInv
<1> SUFFICES ASSUME Init PROVE TypeInv
  OBVIOUS
<1>1. RootPassword \in Passwords /\ "absent" \in Accounts /\ MaxFaults \in Nat
  BY ClientAssumption DEF Passwords, Accounts
<1>2. <<>> \in Seq(Text)
  OBVIOUS
<1>3. TypeOK
  BY <1>1, <1>2, IdleFacts, SMT DEF Init, TypeOK, Call, Text
<1>4. Holders = {}
  BY IdleFacts DEF Init, Holders
<1>5. handles = Cardinality(Holders)
  BY <1>4, FS_EmptySet DEF Init
<1> QED BY <1>3, <1>5, HoldersFinite DEF TypeInv

\* Every step keeps both.
LEMMA NextType == TypeInv /\ [Next]_vars => TypeInv'
<1> SUFFICES ASSUME TypeInv, [Next]_vars PROVE TypeInv'
  OBVIOUS
<1>1. CASE UNCHANGED vars
  BY <1>1 DEF vars, TypeInv, TypeOK, HandlesClosed
<1>2. ASSUME NEW c \in Callers, InitializeCluster(c) \/ Use(c) \/ Step(c)
      PROVE  TypeInv'
  <2>1. Frame(c) /\ Effect(c)
    BY <1>2, StepEffect
  <2>2. HandlesClosed' /\ handles' \in Nat
    BY <2>1, HandlesCounted DEF Frame
  <2> QED BY <2>1, <2>2 DEF Frame, Proceeds, ServersKeep, TypeInv, TypeOK, Call, Text
<1> QED BY <1>1, <1>2 DEF Next

\* The variables have their types in every reachable state; the number of open
\* handles in particular is never negative: no handle is closed twice.
THEOREM TypeCorrect == Spec => []TypeOK
<1>1. TypeInv => TypeOK
  BY DEF TypeInv
<1> QED BY <1>1, InitType, NextType, PTL DEF Spec

\* NewClient closes the handle that does not answer, and the deferred Close the
\* others: as many are open as callers are between the two, whatever fails.
THEOREM NoHandleLeaks == Spec => []HandlesClosed
<1>1. TypeInv => HandlesClosed
  BY DEF TypeInv
<1> QED BY <1>1, InitType, NextType, PTL DEF Spec

-----------------------------------------------------------------------------
(* The start of a replication group.                                       *)

\* initializeCluster keeps to the servers its host name leads to.
HostsOK ==
  \A c \in Callers : call[c].op = "initializeCluster" => call[c].hosts \subseteq Behind

InitializerInv == HostsOK /\ OneInitializer /\ BootstrapPrepared

\* The sets that are counted are finite.
LEMMA CountedFinite ==
  /\ IsFiniteSet(Initializers) /\ Cardinality(Initializers) \in Nat
  /\ IsFiniteSet(Known) /\ Cardinality(Known) \in Nat
  /\ OneInitializer <=> Cardinality(Initializers) <= Cardinality(Known)
<1>1. Initializers \in SUBSET Callers /\ Known \in SUBSET Servers
  BY ClientAssumption DEF Initializers, Known
<1>2. IsFiniteSet(Initializers) /\ IsFiniteSet(Known)
  BY <1>1, ClientAssumption, FS_Subset
<1> QED BY <1>2, FS_CardinalityType DEF OneInitializer, Known

\* The hosts are those of the client, or the one the ping found.
LEMMA HostsKept ==
  ASSUME TypeInv, HostsOK, NEW c \in Callers, Proceeds(c), Effect(c)
  PROVE  HostsOK'
<1> SUFFICES ASSUME NEW o \in Callers, call'[o].op = "initializeCluster"
             PROVE  call'[o].hosts \subseteq Behind
  BY DEF HostsOK
<1>1. CASE o # c
  BY <1>1 DEF Proceeds, HostsOK
<1>2. CASE o = c
  <2>1. Continued(c) = Idle \/ Continued(c).hosts = Behind
    BY ContinuedFacts DEF TypeInv
  <2> QED BY <1>2, <2>1, IdleFacts DEF Effect, Begins, Same, Breaks, Goes, HostsOK
<1> QED BY <1>1, <1>2

\* Where a call of initializeCluster stands after a step: where it stood, or one
\* statement further, which was carried out on one of the servers.
LEMMA InitializerStep ==
  ASSUME TypeInv, HostsOK, NEW c \in Callers, Proceeds(c), Effect(c), c \in Initializers'
  PROVE  \/ /\ c \in Initializers
            /\ Statement(c)' = Statement(c)
         \/ /\ call[c].at \in {1, 2}
            /\ call[c].at = 1 => \E s \in Behind : account[s] = "absent" /\ account'[s] # "absent"
            /\ call[c].at = 2 => c \in Initializers /\ \E s \in Behind : account'[s] = "granted"
            /\ Statement(c)' = "SetBootstrapMember" => call[c].at = 2
<1>1. call'[c].op = "initializeCluster" /\ call'[c].at > 1
  BY DEF Initializers
<1>2. call[c] \in Call
  BY DEF TypeInv, TypeOK, Call
<1>3. ~Begins(c) /\ ~Breaks(c)
  BY <1>1, IdleFacts, SMT DEF Begins, Breaks
<1>4. CASE Same(c)
  BY <1>1, <1>4 DEF Same, Initializers, Statement
<1>5. CASE Goes(c)
  <2>1. /\ call[c].op = "initializeCluster"
        /\ call[c].at < 3
        /\ call'[c].at = call[c].at + 1
    BY <1>1, <1>5, ContinuedFacts, IdleFacts DEF Goes, TypeInv
  <2>2. call[c].at \in {1, 2}
    BY <1>2, <2>1, SMT DEF Call
  <2>3. Statement(c)' = Statements("initializeCluster")[call[c].at + 1]
    BY <1>1, <2>1 DEF Statement
  <2>4. Statement(c) = Statements("initializeCluster")[call[c].at]
    BY <2>1 DEF Statement
  <2>5. PICK s \in call[c].hosts :
          /\ CanRun(s, Statement(c))
          /\ Statement(c) = "CreateUser" => account'[s] # "absent"
          /\ Statement(c) = "GrantPrivileges" => account'[s] = "granted"
    BY <1>5 DEF Goes
  <2>6. s \in Behind
    BY <2>1 DEF HostsOK
  <2>7. CASE call[c].at = 1
    <3>1. Statement(c) = "CreateUser" /\ Statement(c)' = "GrantPrivileges"
      BY <2>3, <2>4, <2>7, StatementsFacts
    <3> QED BY <2>2, <2>5, <2>6, <2>7, <3>1 DEF CanRun
  <2>8. CASE call[c].at = 2
    <3>1. Statement(c) = "GrantPrivileges"
      BY <2>4, <2>8, StatementsFacts
    <3>2. c \in Initializers
      BY <2>1, <2>8 DEF Initializers
    <3> QED BY <2>2, <2>5, <2>6, <2>8, <3>1, <3>2
  <2> QED BY <2>2, <2>7, <2>8
<1> QED BY <1>3, <1>4, <1>5 DEF Effect

\* A caller gets past the first statement only with a server that had no user.
LEMMA OneInitializerKept ==
  ASSUME TypeInv, HostsOK, OneInitializer, NEW c \in Callers,
         Proceeds(c), ServersKeep, Effect(c)
  PROVE  OneInitializer'
<1> DEFINE A == Initializers
           A2 == Initializers'
           K == Known
           K2 == Known'
<1>1. /\ IsFiniteSet(A) /\ Cardinality(A) \in Nat
      /\ IsFiniteSet(K) /\ Cardinality(K) \in Nat
      /\ Cardinality(A) <= Cardinality(K)
  BY CountedFinite
<1>2. A2 = {x \in Callers : call'[x].op = "initializeCluster" /\ call'[x].at > 1}
  BY DEF Initializers
<1>3. K2 = {s \in Behind : account'[s] # "absent"}
  BY DEF Known
<1>4. IsFiniteSet(K2) /\ Cardinality(K2) \in Nat
  <2>1. K2 \in SUBSET Servers
    BY <1>3, ClientAssumption
  <2>2. IsFiniteSet(K2)
    BY <2>1, ClientAssumption, FS_Subset
  <2> QED BY <2>2, FS_CardinalityType
<1>5. OneInitializer' <=> Cardinality(A2) <= Cardinality(K2)
  BY <1>2, <1>3 DEF OneInitializer, Initializers
<1>6. A2 \subseteq A \cup {c}
  BY <1>2 DEF Proceeds, Initializers
<1>7. K \subseteq K2
  BY <1>3, ClientAssumption DEF ServersKeep, Known
<1>8. A2 \subseteq A \/ \E s \in Behind : account[s] = "absent" /\ account'[s] # "absent"
  BY <1>6, InitializerStep
<1>9. A2 \subseteq A \/ \E s : s \in K2 \ K
  BY <1>3, <1>8 DEF Known
<1> HIDE DEF A, A2, K, K2
<1>10. Cardinality(K) <= Cardinality(K2)
  BY <1>4, <1>7, FS_Subset
<1>11. CASE A2 \subseteq A
  <2>1. /\ IsFiniteSet(A2)
        /\ Cardinality(A2) <= Cardinality(A)
    BY <1>1, <1>11, FS_Subset
  <2>2. Cardinality(A2) \in Nat
    BY <2>1, FS_CardinalityType
  <2> QED BY <1>1, <1>4, <1>5, <1>10, <2>1, <2>2, SMT
<1>12. ASSUME NEW s \in K2 \ K PROVE Cardinality(A2) <= Cardinality(K2)
  <2>1. IsFiniteSet(A \cup {c}) /\ Cardinality(A \cup {c}) <= Cardinality(A) + 1
    <3>1. /\ IsFiniteSet(A \cup {c})
          /\ Cardinality(A \cup {c}) \in {Cardinality(A), Cardinality(A) + 1}
      BY <1>1, FS_AddElement
    <3> QED BY <1>1, <3>1
  <2>2. /\ IsFiniteSet(A2)
        /\ Cardinality(A2) <= Cardinality(A \cup {c})
    BY <1>6, <2>1, FS_Subset
  <2>3. IsFiniteSet(K \cup {s}) /\ Cardinality(K \cup {s}) = Cardinality(K) + 1
    BY <1>1, FS_AddElement
  <2>4. K \cup {s} \in SUBSET K2
    BY <1>7
  <2>5. Cardinality(K \cup {s}) <= Cardinality(K2)
    BY <1>4, <2>4, FS_Subset
  <2>6. Cardinality(A2) \in Nat /\ Cardinality(A \cup {c}) \in Nat
    BY <2>1, <2>2, FS_CardinalityType
  <2> QED BY <1>1, <1>4, <2>1, <2>2, <2>3, <2>5, <2>6, SMT
<1> QED BY <1>5, <1>9, <1>11, <1>12

\* A caller comes to the bootstrap only behind the grant.
LEMMA PreparedKept ==
  ASSUME TypeInv, HostsOK, BootstrapPrepared, NEW c \in Callers,
         Proceeds(c), ServersKeep, Effect(c)
  PROVE  BootstrapPrepared'
<1> SUFFICES ASSUME NEW o \in Callers, o \in Initializers',
                    Statement(o)' = "SetBootstrapMember"
             PROVE  \E s \in Behind : account'[s] = "granted"
  BY DEF BootstrapPrepared, Initializers
<1>1. (\E s \in Behind : account[s] = "granted") => \E s \in Behind : account'[s] = "granted"
  BY ClientAssumption DEF ServersKeep
<1>2. CASE o # c
  <2>1. call'[o] = call[o]
    BY <1>2 DEF Proceeds
  <2>2. o \in Initializers /\ Statement(o) = "SetBootstrapMember"
    BY <2>1 DEF Initializers, Statement
  <2> QED BY <1>1, <2>2 DEF BootstrapPrepared
<1>3. CASE o = c
  BY <1>1, <1>3, InitializerStep DEF BootstrapPrepared
<1> QED BY <1>2, <1>3

\* Nobody is in initializeCluster in the initial state.
LEMMA InitInitializer == Init => InitializerInv
<1> SUFFICES ASSUME Init PROVE InitializerInv
  OBVIOUS
<1>1. \A c \in Callers : call[c].op # "initializeCluster"
  BY IdleFacts DEF Init
<1>2. Initializers = {}
  BY <1>1 DEF Initializers
<1>3. Cardinality(Initializers) = 0
  BY <1>2, FS_EmptySet
<1>4. OneInitializer
  BY <1>3, CountedFinite
<1> QED BY <1>1, <1>2, <1>4 DEF InitializerInv, HostsOK, BootstrapPrepared

\* Every step keeps the invariant.
LEMMA NextInitializer == TypeInv /\ InitializerInv /\ [Next]_vars => InitializerInv'
<1> SUFFICES ASSUME TypeInv, InitializerInv, [Next]_vars PROVE InitializerInv'
  OBVIOUS
<1>1. CASE UNCHANGED vars
  BY <1>1 DEF vars, InitializerInv, HostsOK, OneInitializer, BootstrapPrepared,
              Initializers, Statement
<1>2. ASSUME NEW c \in Callers, InitializeCluster(c) \/ Use(c) \/ Step(c)
      PROVE  InitializerInv'
  <2>1. Frame(c) /\ Effect(c)
    BY <1>2, StepEffect
  <2> QED BY <2>1, HostsKept, OneInitializerKept, PreparedKept DEF InitializerInv, Frame
<1> QED BY <1>1, <1>2 DEF Next

\* The invariant holds in every reachable state.
LEMMA InitializerCorrect == Spec => []InitializerInv
  BY InitType, NextType, InitInitializer, NextInitializer, PTL DEF Spec

\* CREATE USER, which a server refuses the second time, keeps two calls of
\* initializeCluster from preparing one server, side by side or one after the
\* other: no more are behind it than servers have the user.
THEOREM CreateUserIsALock == Spec => []OneInitializer
<1>1. InitializerInv => OneInitializer
  BY DEF InitializerInv
<1> QED BY <1>1, InitializerCorrect, PTL

\* A group is bootstrapped only behind the grant, on one of the servers the
\* host name leads to, whichever answers are lost on the way.
THEOREM NoBootstrapBeforeGrant == Spec => []BootstrapPrepared
<1>1. InitializerInv => BootstrapPrepared
  BY DEF InitializerInv
<1> QED BY <1>1, InitializerCorrect, PTL

-----------------------------------------------------------------------------
(* The election.                                                           *)

LessThan == {ss \in Nat \X Nat : ss[1] < ss[2]}

\* A set of natural numbers that is not empty has a least element,
LEMMA LeastNatural ==
  ASSUME NEW T \in SUBSET Nat, T # {}
  PROVE  \E x \in T : \A y \in T : x <= y
<1>1. IsWellFoundedOn(LessThan, Nat)
  <2>1. OpToRel(<, Nat) = LessThan
    BY DEF OpToRel, LessThan
  <2> QED BY <2>1, NatLessThanWellFounded
<1>2. PICK x \in T : \A y \in T : <<y, x>> \notin LessThan
  BY <1>1, WFMin
<1>3. \A y \in T : x <= y
  <2> SUFFICES ASSUME NEW y \in T PROVE x <= y
    OBVIOUS
  <2>1. x \in Nat /\ y \in Nat /\ ~(y < x)
    BY <1>2 DEF LessThan
  <2> QED BY <2>1, SMT
<1> QED BY <1>3

\* and one with a bound a greatest.
LEMMA GreatestNatural ==
  ASSUME NEW T \in SUBSET Nat, T # {}, NEW b \in Nat, \A x \in T : x <= b
  PROVE  \E x \in T : \A y \in T : y <= x
<1> DEFINE D == {d \in Nat : b - d \in T}
<1>1. PICK t \in T : TRUE
  OBVIOUS
<1>2. b - t \in D
  <2>1. t \in Nat /\ t <= b
    OBVIOUS
  <2>2. b - t \in Nat /\ b - (b - t) = t
    BY <2>1, SMT
  <2> QED BY <2>2
<1>3. PICK d \in D : \A e \in D : d <= e
  <2>1. D \in SUBSET Nat /\ D # {}
    BY <1>2
  <2> HIDE DEF D
  <2> QED BY <2>1, LeastNatural
<1>4. b - d \in T
  OBVIOUS
<1>5. \A y \in T : y <= b - d
  <2> SUFFICES ASSUME NEW y \in T PROVE y <= b - d
    OBVIOUS
  <2>1. y \in Nat /\ y <= b /\ d \in Nat
    OBVIOUS
  <2>2. b - y \in Nat /\ b - (b - y) = y
    BY <2>1, SMT
  <2>3. b - y \in D
    BY <2>2
  <2>4. d <= b - y
    BY <1>3, <2>3
  <2> QED BY <2>1, <2>4, SMT
<1> QED BY <1>4, <1>5

\* compareGTIDs returns one of the highest ends, whatever it is asked to compare.
LEMMA CompareFacts ==
  ASSUME NEW gtids, DOMAIN gtids \in SUBSET Nat, DOMAIN gtids # {}, NEW b \in Nat,
         \A i \in DOMAIN gtids : gtids[i].end \in 0 .. b
  PROVE  \E i \in DOMAIN gtids :
           /\ compareGTIDs(gtids) = gtids[i]
           /\ \A j \in DOMAIN gtids : gtids[j].end <= gtids[i].end
<1> DEFINE dom == DOMAIN gtids
           ends == {gtids[i].end : i \in dom}
           highest == {i \in dom : \A j \in dom : gtids[j].end <= gtids[i].end}
<1>1. ends \in SUBSET Nat /\ ends # {} /\ \A e \in ends : e <= b
  OBVIOUS
<1>2. PICK e \in ends : \A f \in ends : f <= e
  <2> HIDE DEF ends
  <2> QED BY <1>1, GreatestNatural
<1>3. highest \in SUBSET Nat /\ highest # {}
  BY <1>2
<1>4. compareGTIDs(gtids) = gtids[CHOOSE i \in highest : \A j \in highest : i <= j]
  BY DEF compareGTIDs
<1>5. highest \subseteq dom /\ \A i \in highest : \A j \in dom : gtids[j].end <= gtids[i].end
  OBVIOUS
<1> HIDE DEF highest
<1>6. \E i \in highest : \A j \in highest : i <= j
  BY <1>3, LeastNatural
<1>7. (CHOOSE i \in highest : \A j \in highest : i <= j) \in highest
  BY <1>6
<1> QED BY <1>4, <1>5, <1>7

\* A text of one interval, of two numbers or more, is parsed as what it says.
LEMMA ParseOne ==
  ASSUME NEW u \in Sources, NEW n \in Nat, n >= 2
  PROVE  parseGTID({<<u, 1, n>>}) = [uuid |-> u, start |-> 1, end |-> n]
<1> DEFINE r == <<u, 1, n>>
           text == {r}
           ranges == {q \in text : q[2] < q[3]}
           first == First(ranges)
<1>1. r[1] = u /\ r[2] = 1 /\ r[3] = n
  OBVIOUS
<1>2. ranges = {r}
  BY <1>1, SMT
<1>3. First({r}) = r
  BY DEF First
<1>4. first = r
  BY <1>2, <1>3
<1>5. \A q \in text : q[1] = first[1] => q[2] >= first[2]
  BY <1>1, <1>4, SMT
<1>6. ranges # {}
  BY <1>2
<1>7. parseGTID(text)
        = IF ranges = {} THEN Invalid
          ELSE [uuid |-> IF \A q \in text : q[1] = first[1] => q[2] >= first[2]
                         THEN first[1] ELSE 0,
                start |-> first[2], end |-> first[3]]
  BY DEF parseGTID
<1> QED BY <1>1, <1>4, <1>5, <1>6, <1>7

\* The transactions of one interval from the first.
LEMMA MeantOne ==
  ASSUME NEW u, NEW n \in Nat, NEW m \in Nat, n <= m
  PROVE  Meant({<<u, 1, n>>}) \subseteq Meant({<<u, 1, m>>})
<1>1. \A k \in Nat : Meant({<<u, 1, k>>}) = {u} \X (1 .. k)
  BY DEF Meant
<1>2. 1 .. n \subseteq 1 .. m
  BY SMT
<1> QED BY <1>1, <1>2

\* What the election returns for a list of texts of one group.
LEMMA Elected ==
  ASSUME NEW texts, DOMAIN texts \in SUBSET Nat, DOMAIN texts # {}, InOrder(texts)
  PROVE  LET g == GetMaxGTIDMember(texts) IN
         /\ g # Invalid
         /\ \A i \in DOMAIN texts : Meant(texts[i]) \subseteq Meant({<<g.uuid, g.start, g.end>>})
<1> DEFINE dom == DOMAIN texts
           parsed == [i \in dom |-> parseGTID(texts[i])]
           kept == {i \in dom : parsed[i].end # 0}
           gtids == [i \in kept |-> parsed[i]]
<1>1. MaxTx \in Nat /\ Sources \subseteq Nat
  BY GtidAssumption
<1>2. PICK u \in Sources : \A i \in dom : \E n \in 2 .. MaxTx : texts[i] = {<<u, 1, n>>}
  BY DEF InOrder
<1>3. \A i \in dom : \E n \in 2 .. MaxTx :
        texts[i] = {<<u, 1, n>>} /\ parsed[i] = [uuid |-> u, start |-> 1, end |-> n]
  <2> SUFFICES ASSUME NEW i \in dom
               PROVE  \E n \in 2 .. MaxTx :
                        /\ texts[i] = {<<u, 1, n>>}
                        /\ parsed[i] = [uuid |-> u, start |-> 1, end |-> n]
    OBVIOUS
  <2>1. PICK n \in 2 .. MaxTx : texts[i] = {<<u, 1, n>>}
    BY <1>2
  <2>2. n \in Nat /\ n >= 2
    BY <1>1, <2>1, SMT
  <2>3. parseGTID(texts[i]) = [uuid |-> u, start |-> 1, end |-> n]
    BY <2>1, <2>2, ParseOne
  <2> QED BY <2>1, <2>3
<1> HIDE DEF parsed
<1>4. \A i \in dom : parsed[i] # Invalid /\ parsed[i].end \in 2 .. MaxTx
  <2> SUFFICES ASSUME NEW i \in dom
               PROVE  parsed[i] # Invalid /\ parsed[i].end \in 2 .. MaxTx
    OBVIOUS
  <2>1. PICK n \in 2 .. MaxTx : parsed[i] = [uuid |-> u, start |-> 1, end |-> n]
    BY <1>3
  <2>2. parsed[i].end = n
    BY <2>1
  <2>3. n # -1
    BY <1>1, SMT
  <2>4. Invalid.end = -1
    BY DEF Invalid
  <2>5. parsed[i] # Invalid
    BY <2>2, <2>3, <2>4
  <2> QED BY <2>2, <2>5
<1>5. kept = dom
  <2>1. 0 \notin 2 .. MaxTx
    BY <1>1, SMT
  <2>2. \A i \in dom : parsed[i].end # 0
    BY <1>4, <2>1
  <2> QED BY <2>2
<1>6. GetMaxGTIDMember(texts) = compareGTIDs(gtids)
  BY <1>4 DEF GetMaxGTIDMember, parsed
<1>7. DOMAIN gtids = dom /\ \A i \in dom : gtids[i] = parsed[i]
  BY <1>5
<1>8. \A i \in dom : gtids[i].end \in 0 .. MaxTx
  BY <1>1, <1>4, <1>7, SMT
<1> HIDE DEF gtids, kept
<1>9. PICK i \in dom : /\ compareGTIDs(gtids) = gtids[i]
                       /\ \A j \in dom : gtids[j].end <= gtids[i].end
  BY <1>1, <1>7, <1>8, CompareFacts
<1>10. PICK m \in 2 .. MaxTx : parsed[i] = [uuid |-> u, start |-> 1, end |-> m]
  BY <1>3
<1> DEFINE g == GetMaxGTIDMember(texts)
<1>11. g = parsed[i] /\ g.uuid = u /\ g.start = 1 /\ g.end = m
  BY <1>6, <1>7, <1>9, <1>10
<1>12. g # Invalid
  BY <1>4, <1>11
<1> HIDE DEF g
<1>13. ASSUME NEW j \in dom PROVE Meant(texts[j]) \subseteq Meant({<<u, 1, m>>})
  <2>1. PICK n \in 2 .. MaxTx :
          texts[j] = {<<u, 1, n>>} /\ parsed[j] = [uuid |-> u, start |-> 1, end |-> n]
    BY <1>3
  <2>2. n <= m
    BY <1>7, <1>9, <1>10, <2>1
  <2>3. n \in Nat /\ m \in Nat
    BY <1>1, SMT
  <2> QED BY <2>1, <2>2, <2>3, MeantOne
<1> QED BY <1>11, <1>12, <1>13 DEF g

\* Whatever answers are collected, in any order and however long ago: among
\* members of one group the election succeeds, and nobody is ahead of what it
\* returns.
THEOREM ElectionFindsTheMostAdvanced == Spec => []MostAdvancedElected
<1>1. TypeInv => MostAdvancedElected
  <2> SUFFICES ASSUME TypeInv, answers # <<>>, InOrder(answers)
               PROVE  LET g == GetMaxGTIDMember(answers) IN
                      /\ g # Invalid
                      /\ \A i \in DOMAIN answers :
                           Meant(answers[i]) \subseteq Meant({<<g.uuid, g.start, g.end>>})
    BY DEF MostAdvancedElected
  <2>1. answers \in Seq(Text)
    BY DEF TypeInv, TypeOK, Text
  <2>2. DOMAIN answers \in SUBSET Nat /\ DOMAIN answers # {}
    <3>1. Len(answers) \in Nat /\ DOMAIN answers = 1 .. Len(answers)
      BY <2>1
    <3>2. Len(answers) # 0
      BY <2>1, SMT
    <3>3. 1 .. Len(answers) \in SUBSET Nat /\ 1 \in 1 .. Len(answers)
      BY <3>1, <3>2, SMT
    <3> QED BY <3>1, <3>3
  <2> QED BY <2>2, Elected
<1> QED BY <1>1, InitType, NextType, PTL DEF Spec
=============================================================================
