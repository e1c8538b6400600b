---------------------------- MODULE MySQLClient -----------------------------
(***************************************************************************)
(* The MySQL client of the operator (internal/pkg/mysql) and the start of  *)
(* a replication group over it (initializeCluster), among the servers they *)
(* talk to.                                                                *)
(*                                                                         *)
(* Every call opens a handle of its own, tries it with a ping, sends one   *)
(* statement and closes it.  The callers are the most general ones: any    *)
(* function of the package, in any order, from several goroutines, with a  *)
(* password that may be out of date.                                       *)
(*                                                                         *)
(* As elsewhere, a "Variant" is the definition that follows it with a bug. *)
(***************************************************************************)
EXTENDS Gtid, FiniteSets

CONSTANTS
  Callers,      \* goroutines that use the package
  Servers,      \* MySQL servers
  Behind,       \* the servers the host name of initializeCluster leads to
  RootPassword, \* the root password the servers are installed with
  Calls,        \* what the callers call
  MaxFaults,    \* bound: calls that fail in the driver or on the network
  MaxAnswers    \* bound: GTID sets collected for one election

Operations == {"initializeCluster", "CreateUser", "GrantPrivileges",
               "SetBootstrapMember", "ModifyRootPassword", "GetGTID"}

ASSUME ClientAssumption ==
  /\ IsFiniteSet(Callers) /\ IsFiniteSet(Servers)
  /\ Behind \subseteq Servers
  /\ Calls \subseteq Operations
  /\ {MaxFaults, MaxAnswers} \subseteq Nat

\* initializeCluster logs in with the name of the environment variable that
\* holds the password; ModifyRootPassword sets another one.
MySQLRootPassWord == "MYSQL_ROOT_PASSWORD"

Passwords == {MySQLRootPassWord, RootPassword, "changed"}

\* The replication user on a server.
Accounts == {"absent", "created", "granted"}

Idle == [pc |-> "idle", op |-> "GetGTID", at |-> 1, hosts |-> {}, password |-> RootPassword]

VARIABLES
  account,    \* the replication user of each server
  bootstrap,  \* group_replication_bootstrap_group of each server
  password,   \* root's password on each server
  handles,    \* handles (sql.DB) that are open
  call,       \* the call each caller is in
  answers,    \* GTID sets collected so far
  faults      \* how many calls may still fail

vars    == <<account, bootstrap, password, handles, call, answers, faults>>
servers == <<account, bootstrap, password>>

TypeOK ==
  /\ account \in [Servers -> Accounts]
  /\ bootstrap \in [Servers -> BOOLEAN]
  /\ password \in [Servers -> Passwords]
  /\ handles \in Nat
  /\ call \in [Callers -> [pc: {"idle", "open", "ping", "exec"}, op: Operations,
                           at: 1 .. 3, hosts: SUBSET Servers, password: Passwords]]
  /\ answers \in Seq(SUBSET (Sources \X (1 .. MaxTx) \X (1 .. MaxTx)))
  /\ faults \in Nat

Init ==
  /\ account = [s \in Servers |-> "absent"]
  /\ bootstrap = [s \in Servers |-> FALSE]
  /\ password = [s \in Servers |-> RootPassword]
  /\ handles = 0
  /\ call = [c \in Callers |-> Idle]
  /\ answers = <<>>
  /\ faults = MaxFaults

-----------------------------------------------------------------------------
(* The statements.                                                         *)

\* Variant: the group is bootstrapped before the user has its rights.
StatementsEager(op) ==
  IF op = "initializeCluster"
  THEN <<"CreateUser", "SetBootstrapMember", "GrantPrivileges">> ELSE <<op>>

\* Variant: the grant is sent once too often.
StatementsRepeated(op) ==
  IF op = "initializeCluster"
  THEN <<"CreateUser", "GrantPrivileges", "GrantPrivileges", "SetBootstrapMember">>
  ELSE <<op>>

\* initializeCluster sends three, each as a call of its own; every other
\* function sends one.
Statements(op) ==
  IF op = "initializeCluster"
  THEN <<"CreateUser", "GrantPrivileges", "SetBootstrapMember">> ELSE <<op>>

Statement(c) == Statements(call[c].op)[call[c].at]

\* Variant: CREATE USER IF NOT EXISTS.
CanRunAnyway(s, statement) == statement = "GrantPrivileges" => account[s] # "absent"

\* Whether a server carries out what the text of a statement asks for.
CanRun(s, statement) ==
  /\ statement = "CreateUser" => account[s] = "absent"
  /\ statement = "GrantPrivileges" => account[s] # "absent"

\* What the statement does on its server.
Runs(s, statement) ==
  /\ account' = [account EXCEPT ![s] =
       IF statement = "CreateUser" /\ @ = "absent" THEN "created"
       ELSE IF statement = "GrantPrivileges" THEN "granted" ELSE @]
  /\ bootstrap' = [bootstrap EXCEPT ![s] = @ \/ statement = "SetBootstrapMember"]
  /\ password' = [password EXCEPT ![s] =
       IF statement = "ModifyRootPassword" THEN "changed" ELSE @]

-----------------------------------------------------------------------------
(* A call.                                                                 *)

\* initializeCluster, with the fields it gives its client.
InitializeCluster(c) ==
  /\ call[c].pc = "idle"
  /\ "initializeCluster" \in Calls
  /\ call' = [call EXCEPT ![c] = [pc |-> "open", op |-> "initializeCluster", at |-> 1,
                                  hosts |-> Behind, password |-> MySQLRootPassWord]]
  /\ UNCHANGED <<servers, handles, answers, faults>>

\* Another caller, with a client for one server.
Use(c) ==
  /\ call[c].pc = "idle"
  /\ \E op \in Calls \ {"initializeCluster"}, s \in Servers, p \in Passwords :
       call' = [call EXCEPT ![c] = [pc |-> "open", op |-> op, at |-> 1,
                                    hosts |-> {s}, password |-> p]]
  /\ UNCHANGED <<servers, handles, answers, faults>>

\* NewClient: sql.Open makes the handle without a connection.
Open(c) ==
  /\ call[c].pc = "open"
  /\ handles' = handles + 1
  /\ call' = [call EXCEPT ![c].pc = "ping"]
  /\ UNCHANGED <<servers, answers, faults>>

Fails == faults > 0 /\ faults' = faults - 1

\* Variant: a handle that does not answer is dropped, not closed.
PingLeaking(c) ==
  /\ call[c].pc = "ping"
  /\ \/ \E s \in call[c].hosts :
          /\ password[s] = call[c].password
          /\ call' = [call EXCEPT ![c].pc = "exec", ![c].hosts = {s}]
          /\ UNCHANGED <<handles, faults>>
     \/ /\ \/ Fails
           \/ /\ call[c].hosts = {} \/ \E s \in call[c].hosts : password[s] # call[c].password
              /\ UNCHANGED faults
        /\ call' = [call EXCEPT ![c] = Idle]
        /\ UNCHANGED handles
  /\ UNCHANGED <<servers, answers>>

\* NewClient: the ping connects, to one of the servers the name leads to.  If
\* it fails the handle is closed and the call ends.
Ping(c) ==
  /\ call[c].pc = "ping"
  /\ \/ \E s \in call[c].hosts :
          /\ password[s] = call[c].password
          /\ call' = [call EXCEPT ![c].pc = "exec", ![c].hosts = {s}]
          /\ UNCHANGED <<handles, faults>>
     \/ /\ \/ Fails
           \/ /\ call[c].hosts = {} \/ \E s \in call[c].hosts : password[s] # call[c].password
              /\ UNCHANGED faults
        /\ handles' = handles - 1
        /\ call' = [call EXCEPT ![c] = Idle]
  /\ UNCHANGED <<servers, answers>>

\* The call has done its statement: initializeCluster goes on with the next.
Continued(c) ==
  IF call[c].at < Len(Statements(call[c].op))
  THEN [call[c] EXCEPT !.pc = "open", !.at = @ + 1, !.hosts = Behind] ELSE Idle

\* executeQuery and GetGTID: the statement, then the deferred Close.  The
\* answer may be lost, with or without the statement having been carried out.
\* What a server has executed when it is asked for its GTID set is its affair;
\* answers beyond MaxAnswers are not kept.
Exec(c) ==
  \E s \in call[c].hosts :
    /\ call[c].pc = "exec"
    /\ handles' = handles - 1
    /\ \/ /\ CanRun(s, Statement(c))
          /\ Runs(s, Statement(c))
          /\ IF Statement(c) = "GetGTID"
             THEN \E done \in SUBSET Transactions :
                    answers' = IF Len(answers) < MaxAnswers
                               THEN Append(answers, Printed(done)) ELSE answers
             ELSE UNCHANGED answers
          /\ call' = [call EXCEPT ![c] = Continued(c)]
          /\ UNCHANGED faults
       \/ /\ ~CanRun(s, Statement(c))
          /\ call' = [call EXCEPT ![c] = Idle]
          /\ UNCHANGED <<servers, answers, faults>>
       \/ /\ Fails
          /\ call' = [call EXCEPT ![c] = Idle]
          /\ \/ CanRun(s, Statement(c)) /\ Runs(s, Statement(c))
             \/ UNCHANGED servers
          /\ UNCHANGED answers

-----------------------------------------------------------------------------
Step(c) == Open(c) \/ Ping(c) \/ Exec(c)

Next == \E c \in Callers : InitializeCluster(c) \/ Use(c) \/ Step(c)

Spec == Init /\ [][Next]_vars

-----------------------------------------------------------------------------
\* No call leaves its handle open, whichever way it ends: refused, cut off,
\* locked out by a password that has changed meanwhile, or done.
HandlesClosed ==
  handles = Cardinality({c \in Callers : call[c].pc \in {"ping", "exec"}})

\* The callers that are in initializeCluster, behind its first statement.
Initializers ==
  {c \in Callers : call[c].op = "initializeCluster" /\ call[c].at > 1}

\* Calls of initializeCluster never prepare one server side by side, nor one
\* after the other: CREATE USER is refused the second time, also when the first
\* call was cut off behind it.  There are no more calls behind that statement
\* than servers that have the user.
OneInitializer ==
  Cardinality(Initializers) <= Cardinality({s \in Behind : account[s] # "absent"})

\* The group is bootstrapped only when a replication user has its rights.  Each
\* statement goes through a connection of its own: that it is the user of the
\* same server is promised only if the host name leads to one.
BootstrapPrepared ==
  \A c \in Initializers :
    Statement(c) = "SetBootstrapMember" => \E s \in Behind : account[s] = "granted"

\* The history of one group, without a gap.
InOrder(texts) ==
  \E u \in Sources : \A i \in DOMAIN texts : \E n \in 2 .. MaxTx : texts[i] = {<<u, 1, n>>}

\* Among members of one group that have executed at least two transactions,
\* in order, the election succeeds, and what it returns no other member is
\* ahead of, however long ago each of them was asked.
MostAdvancedElected ==
  LET g == GetMaxGTIDMember(answers) IN
  answers # <<>> /\ InOrder(answers) =>
    /\ g # Invalid
    /\ \A i \in DOMAIN answers : Meant(answers[i]) \subseteq Meant({<<g.uuid, g.start, g.end>>})
=============================================================================
