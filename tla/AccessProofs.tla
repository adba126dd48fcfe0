----------------------------- MODULE AccessProofs -----------------------------
(***************************************************************************)
(* Proofs about Access, for every set of tokens, requests, rules and       *)
(* packets.  The tokens: no count, in the table or in the memory of a      *)
(* request, exceeds the registrations let through (IInv).  The firewall:   *)
(* chain and rules, as far as the loop has come, have the same first match *)
(* for every packet (ChainInv).                                            *)
(***************************************************************************)
EXTENDS Access, SequenceTheorems, TLAPS

TokenTypes ==
    /\ used \in [Tokens -> Nat \cup {Absent}]
    /\ limit \in [Tokens -> Limits \cup {NoLimit}]
    /\ count \in [Requests -> (Tokens \X Nat) \cup {<<>>}]
    /\ admitted \in [Tokens -> Nat]
    /\ refused \subseteq Tokens

\* Increments may be lost, but none is made up.
CountsAreLow ==
    /\ \A t \in Tokens : used[t] # Absent => used[t] <= admitted[t]
    /\ \A r \in Requests : count[r] # <<>> =>
        used[count[r][1]] # Absent /\ count[r][2] <= admitted[count[r][1]]

\* Only tokens that exist are refused; a token is created once.
RefusedExist == \A t \in refused : used[t] # Absent

IInv == TokenTypes /\ CountsAreLow /\ RefusedExist /\ NotRefusedEarly

LEMMA Initially == Init => IInv
BY AccessAssumption
DEF Init, IInv, TokenTypes, CountsAreLow, RefusedExist, NotRefusedEarly

LEMMA CreateKeeps ==
    ASSUME IInv, NEW t \in Tokens, NEW m \in Limits, CreateToken(t, m)
    PROVE  IInv'
BY AccessAssumption
DEF CreateToken, IInv, TokenTypes, CountsAreLow, RefusedExist, NotRefusedEarly

LEMMA ReadKeeps ==
    ASSUME IInv, NEW r \in Requests, NEW t \in Tokens, ReadToken(r, t)
    PROVE  IInv'
<1>1. CASE Spent(t)
  <2>1. refused' = refused \cup {t} /\ UNCHANGED <<used, limit, count, admitted>>
    BY <1>1 DEF ReadToken
  <2>2. used[t] # Absent /\ limit[t] # NoLimit /\ used[t] >= limit[t]
    BY <1>1 DEF ReadToken, Spent
  <2>3. used[t] \in Nat /\ limit[t] \in Nat /\ admitted[t] \in Nat
    BY <2>2, AccessAssumption DEF IInv, TokenTypes
  <2>4. admitted[t] >= limit[t]
    BY <2>2, <2>3 DEF IInv, CountsAreLow
  <2>. QED
    BY <2>1, <2>2, <2>4
    DEF IInv, TokenTypes, CountsAreLow, RefusedExist, NotRefusedEarly
<1>2. CASE ~Spent(t)
  <2>1. /\ count' = [count EXCEPT ![r] = <<t, used[t]>>]
        /\ UNCHANGED <<used, limit, admitted, refused>> /\ used[t] # Absent
    BY <1>2 DEF ReadToken
  <2>2. used[t] \in Nat
    BY <2>1 DEF IInv, TokenTypes
  <2>3. TokenTypes'
    BY <2>1, <2>2 DEF IInv, TokenTypes
  <2>4. CountsAreLow'
    <3>1. ASSUME NEW q \in Requests, count'[q] # <<>>
          PROVE  used[count'[q][1]] # Absent /\ count'[q][2] <= admitted[count'[q][1]]
      <4>1. CASE q = r
        BY <2>1, <2>2, <4>1 DEF IInv, TokenTypes, CountsAreLow
      <4>2. CASE q # r
        BY <2>1, <3>1, <4>2 DEF IInv, TokenTypes, CountsAreLow
      <4>. QED
        BY <4>1, <4>2
    <3>. QED
      BY <2>1, <3>1 DEF IInv, CountsAreLow
  <2>. QED
    BY <2>1, <2>3, <2>4 DEF IInv, RefusedExist, NotRefusedEarly
<1>. QED
  BY <1>1, <1>2

\* The count written is at most one more than the registrations so far, and this
\* one is one more.
LEMMA CountKeeps ==
    ASSUME IInv, NEW r \in Requests, CountUse(r)
    PROVE  IInv'
<1>1. PICK t, n : t = count[r][1] /\ n = count[r][2]
  OBVIOUS
<1>2. t \in Tokens /\ n \in Nat /\ n <= admitted[t] /\ used[t] # Absent
  BY <1>1 DEF CountUse, IInv, TokenTypes, CountsAreLow
<1>3. /\ used' = [used EXCEPT ![t] = n + 1]
      /\ admitted' = [admitted EXCEPT ![t] = admitted[t] + 1]
      /\ count' = [count EXCEPT ![r] = <<>>]
      /\ UNCHANGED <<limit, refused>>
  BY <1>1 DEF CountUse
<1>4. TokenTypes'
  BY <1>2, <1>3 DEF IInv, TokenTypes
<1>5. /\ \A u \in Tokens : admitted'[u] >= admitted[u]
      /\ \A u \in Tokens : used'[u] = Absent <=> used[u] = Absent
  BY <1>2, <1>3, AccessAssumption DEF IInv, TokenTypes
<1>6. \A u \in Tokens : used'[u] # Absent => used'[u] <= admitted'[u]
  BY <1>2, <1>3 DEF IInv, TokenTypes, CountsAreLow
<1>7. ASSUME NEW q \in Requests, count'[q] # <<>>
      PROVE  used'[count'[q][1]] # Absent /\ count'[q][2] <= admitted'[count'[q][1]]
  <2>1. count'[q] = count[q] /\ count[q] \in Tokens \X Nat
    BY <1>3, <1>7 DEF IInv, TokenTypes
  <2>2. PICK u \in Tokens, k \in Nat : count[q] = <<u, k>>
    BY <2>1
  <2>3. used[u] # Absent /\ k <= admitted[u]
    <3>1. count[q] # <<>> /\ count[q][1] = u /\ count[q][2] = k
      BY <1>7, <2>1, <2>2
    <3>2. used[count[q][1]] # Absent /\ count[q][2] <= admitted[count[q][1]]
      BY <3>1 DEF IInv, CountsAreLow
    <3>. QED
      BY <3>1, <3>2
  <2>4. admitted[u] \in Nat /\ admitted'[u] \in Nat /\ admitted'[u] >= admitted[u]
    BY <1>4, <1>5 DEF IInv, TokenTypes
  <2>. QED
    BY <1>5, <2>1, <2>2, <2>3, <2>4
<1>8. NotRefusedEarly'
  <2>1. ASSUME NEW u \in refused PROVE limit[u] # NoLimit /\ admitted'[u] >= limit[u]
    <3>1. u \in Tokens /\ limit[u] # NoLimit /\ admitted[u] >= limit[u]
      BY DEF IInv, TokenTypes, NotRefusedEarly
    <3>2. limit[u] \in Nat /\ admitted[u] \in Nat /\ admitted'[u] \in Nat
      BY <1>4, <3>1, AccessAssumption DEF IInv, TokenTypes
    <3>. QED
      BY <1>5, <3>1, <3>2
  <2>. QED
    BY <1>3, <2>1 DEF NotRefusedEarly
<1>. QED
  BY <1>3, <1>4, <1>5, <1>6, <1>7, <1>8 DEF IInv, TokenTypes, CountsAreLow, RefusedExist

LEMMA FailKeeps ==
    ASSUME IInv, NEW r \in Requests, CountFails(r)
    PROVE  IInv'
BY DEF CountFails, IInv, TokenTypes, CountsAreLow, RefusedExist, NotRefusedEarly

\* The rules and the firewall do not touch the tokens.
LEMMA OthersKeep == ASSUME IInv, UNCHANGED tokens PROVE IInv'
BY DEF tokens, IInv, TokenTypes, CountsAreLow, RefusedExist, NotRefusedEarly

THEOREM Invariance == Spec => []IInv
<1>1. ASSUME IInv, [Next]_vars PROVE IInv'
  <2>1. ASSUME NEW rule \in RuleSet, CreateRule(rule) PROVE IInv'
    BY <1>1, <2>1, OthersKeep DEF CreateRule
  <2>2. CASE Flush \/ AppendCommand \/ Applied \/ ApplyFails
    BY <1>1, <2>2, OthersKeep DEF Flush, AppendCommand, Applied, ApplyFails
  <2>3. CASE UNCHANGED vars
    BY <1>1, <2>3, OthersKeep DEF vars
  <2>. QED
    BY <1>1, <2>1, <2>2, <2>3, CreateKeeps, ReadKeeps, CountKeeps, FailKeeps DEF Next
<1>. QED
  BY Initially, <1>1, PTL DEF Spec

\* However registrations with a token overlap and fail, it is refused only after
\* it has let through as many as it should.
THEOREM NeverRefusedEarly == Spec => []NotRefusedEarly
BY Invariance, PTL DEF IInv

(***************************************************************************)
(* The firewall.                                                           *)
(***************************************************************************)
Cmds == [port : Nat \cup {AnyPort}, target : {"ACCEPT", "DROP"}]

HostTypes ==
    /\ acl \in Seq(RuleSet) /\ list \in Seq(RuleSet)
    /\ chain \in Seq(Cmds)
    /\ at \in (1 .. Len(list) + 1) \X (Nat \ {0})
    /\ at[1] <= Len(list) => at[2] <= Runs(list[at[1]])
    /\ result \in {"none", "true", "false"}
    /\ result = "true" => at[1] > Len(list)

\* Every rule runs at least one command.
LEMMA RunsType == \A rule \in Rules : Runs(rule) \in Nat \ {0}
<1>. SUFFICES ASSUME NEW rule \in Rules PROVE Runs(rule) \in Nat \ {0}
  OBVIOUS
<1>1. rule.ports \in Seq(Nat)
  BY DEF Rules
<1>. QED
  BY <1>1, EmptySeq DEF Runs

LEMMA CommandType ==
    ASSUME NEW rule \in Rules, NEW j \in 1 .. Runs(rule)
    PROVE  Command(rule, j) \in Cmds
<1>1. rule.ports \in Seq(Nat)
  BY DEF Rules
<1>2. CASE rule.ports = <<>>
  BY <1>2 DEF Command, Cmds
<1>3. CASE rule.ports # <<>>
  <2>1. rule.ports[j] \in Nat
    BY <1>1, <1>3, ElementOfSeq DEF Runs
  <2>. QED
    BY <1>3, <2>1 DEF Command, Cmds
<1>. QED
  BY <1>2, <1>3

\* The tables and the loop keep their shape: the turn that appends a command moves
\* to the next port, or to the first port of the next rule.
LEMMA HostStep ==
    ASSUME HostTypes, [Next]_vars
    PROVE  HostTypes'
<1>1. CASE UNCHANGED <<acl, host>>
  BY <1>1 DEF HostTypes, host
<1>2. ASSUME NEW rule \in RuleSet, CreateRule(rule) PROVE HostTypes'
  <2>1. acl' \in Seq(RuleSet)
    BY <1>2, AppendProperties DEF CreateRule, HostTypes
  <2>. QED
    BY <1>2, <2>1 DEF CreateRule, HostTypes, host
<1>3. CASE Flush
  <2>1. acl \in Seq(RuleSet) /\ Len(acl) \in Nat
    BY LenProperties DEF HostTypes
  <2>2. 1 <= Len(acl) => Runs(acl[1]) \in Nat \ {0}
    BY <2>1, ElementOfSeq, RunsType, AccessAssumption
  <2>. QED
    BY <1>3, <2>1, <2>2 DEF Flush, HostTypes
<1>4. CASE AppendCommand
  <2>. DEFINE i == at[1]
              j == at[2]
  <2>1. i \in 1 .. Len(list) /\ j \in Nat \ {0} /\ Len(list) \in Nat
    BY <1>4, LenProperties DEF AppendCommand, HostTypes
  <2>2. list[i] \in Rules
    BY <2>1, ElementOfSeq, AccessAssumption DEF HostTypes
  <2>3. j \in 1 .. Runs(list[i]) /\ Runs(list[i]) \in Nat
    BY <2>1, <2>2, RunsType DEF HostTypes
  <2>4. chain' \in Seq(Cmds)
    BY <1>4, <2>2, <2>3, CommandType, AppendProperties DEF AppendCommand, Added, HostTypes
  <2>5. CASE j < Runs(list[i])
    BY <1>4, <2>1, <2>3, <2>4, <2>5 DEF AppendCommand, HostTypes
  <2>6. CASE ~(j < Runs(list[i]))
    <3>1. at' = <<i + 1, 1>> /\ UNCHANGED <<acl, list, result>>
      BY <1>4, <2>6 DEF AppendCommand
    <3>2. i + 1 <= Len(list) => Runs(list[i + 1]) \in Nat \ {0}
      BY <2>1, ElementOfSeq, RunsType, AccessAssumption DEF HostTypes
    <3>. QED
      BY <1>4, <2>1, <2>4, <3>1, <3>2 DEF AppendCommand, HostTypes
  <2>. QED
    BY <2>5, <2>6
<1>5. CASE Applied \/ ApplyFails
  BY <1>5 DEF Applied, ApplyFails, HostTypes
<1>6. CASE \/ \E t \in Tokens, m \in Limits : CreateToken(t, m)
           \/ \E r \in Requests, t \in Tokens : ReadToken(r, t)
           \/ \E r \in Requests : CountUse(r) \/ CountFails(r)
  BY <1>1, <1>6 DEF CreateToken, ReadToken, CountUse, CountFails
<1>. QED
  BY <1>1, <1>2, <1>3, <1>4, <1>5, <1>6 DEF Next, vars

LEMMA HostInit == Init => HostTypes
<1>1. <<>> \in Seq(RuleSet) /\ <<>> \in Seq(Cmds) /\ Len(<<>>) = 0
  BY EmptySeq
<1>. QED
  BY <1>1 DEF Init, HostTypes

THEOREM HostShape == Spec => []HostTypes
BY HostInit, HostStep, PTL DEF Spec

\* The counts stay within the bound on admissions.
Bounded ==
    /\ admitted \in [Tokens -> 0 .. MaxAdmissions]
    /\ used \in [Tokens -> 0 .. MaxAdmissions \cup {Absent}]

LEMMA BoundedStep ==
    ASSUME IInv, IInv', Bounded, [Next]_vars
    PROVE  Bounded'
<1>1. admitted' \in [Tokens -> 0 .. MaxAdmissions]
  <2>1. ASSUME NEW r \in Requests, CountUse(r)
        PROVE  admitted' \in [Tokens -> 0 .. MaxAdmissions]
    <3>1. count[r][1] \in Tokens
      BY <2>1 DEF CountUse, IInv, TokenTypes
    <3>. QED
      BY <2>1, <3>1, AccessAssumption DEF CountUse, Bounded
  <2>2. CASE ~\E r \in Requests : CountUse(r)
    <3>1. admitted' = admitted
      BY <2>2 DEF Next, vars, tokens, CreateToken, ReadToken, CountFails,
         CreateRule, Flush, AppendCommand, Applied, ApplyFails
    <3>. QED
      BY <3>1 DEF Bounded
  <2>. QED
    BY <2>1, <2>2
<1>2. ASSUME NEW t \in Tokens PROVE used'[t] \in 0 .. MaxAdmissions \cup {Absent}
  <2>1. admitted'[t] \in 0 .. MaxAdmissions
    BY <1>1
  <2>2. used'[t] \in Nat \cup {Absent} /\ (used'[t] # Absent => used'[t] <= admitted'[t])
    BY DEF IInv, TokenTypes, CountsAreLow
  <2>. QED
    BY <2>1, <2>2, AccessAssumption
<1>3. used' \in [Tokens -> Nat \cup {Absent}]
  BY DEF IInv, TokenTypes
<1>. QED
  BY <1>1, <1>2, <1>3 DEF Bounded

\* The tables, the requests' memory, the chain and the loop keep their shape; no
\* count exceeds the registrations, and only tokens that exist are counted or
\* refused.
THEOREM TypeCorrect == Spec => []TypeOK
<1>1. Init => Bounded
  BY AccessAssumption DEF Init, Bounded
<1>2. IInv /\ HostTypes /\ Bounded => TypeOK
  <2>. SUFFICES ASSUME IInv, HostTypes, Bounded PROVE TypeOK
    OBVIOUS
  <2>1. ASSUME NEW r \in Requests, count[r] # <<>>
        PROVE  /\ count[r][1] \in Tokens /\ count[r][2] \in Nat
               /\ used[count[r][1]] # Absent
    BY <2>1 DEF IInv, TokenTypes, CountsAreLow
  <2>2. refused \subseteq {t \in Tokens : used[t] # Absent}
    BY DEF IInv, TokenTypes, RefusedExist
  <2>3. limit \in [Tokens -> Limits \cup {NoLimit}]
    BY DEF IInv, TokenTypes
  <2>. QED
    BY <2>1, <2>2, <2>3 DEF TypeOK, Bounded, HostTypes, Cmds
<1>. QED
  BY <1>1, <1>2, BoundedStep, Invariance, HostShape, PTL DEF Spec

(***************************************************************************)
(* The chain and the engine have the same first match.                     *)
(***************************************************************************)
TcpPackets == {q \in Packets : q.protocol = "tcp"}

AllExpressible == \A i \in DOMAIN list : Expressible(list[i])

\* No rule the loop has left matches p, nor a port it has appended.
NotYet(p) ==
    /\ \A i \in 1 .. at[1] - 1 : ~MatchRule(list[i], p)
    /\ at[1] <= Len(list) =>
        \A j \in 1 .. at[2] - 1 : ~MatchCommand(Command(list[at[1]], j), p)

\* The rule and the command that decide p.
FirstRule(rules, p, i) ==
    /\ i \in 1 .. Len(rules) /\ MatchRule(rules[i], p)
    /\ \A j \in 1 .. i - 1 : ~MatchRule(rules[j], p)

FirstCommand(c, p, k) ==
    /\ k \in 1 .. Len(c) /\ MatchCommand(c[k], p)
    /\ \A j \in 1 .. k - 1 : ~MatchCommand(c[j], p)

Undecided(p) ==
    NotYet(p) /\ \A k \in 1 .. Len(chain) : ~MatchCommand(chain[k], p)

Decided(p) ==
    \E i, k \in Nat :
        /\ FirstRule(list, p, i) /\ FirstCommand(chain, p, k)
        /\ chain[k].target = "ACCEPT" <=> list[i].action = "allow"

ChainInv == AllExpressible => \A p \in TcpPackets : Undecided(p) \/ Decided(p)

\* An expressible rule matches a TCP packet if and only if one of its commands does.
LEMMA RuleAndCommands ==
    ASSUME NEW rule \in Rules, Expressible(rule), NEW p \in TcpPackets
    PROVE  /\ MatchRule(rule, p) <=>
                \E j \in 1 .. Runs(rule) : MatchCommand(Command(rule, j), p)
           /\ \A j : Command(rule, j).target = "ACCEPT" <=> rule.action = "allow"
<1>1. p.src \in Nodes /\ p.dst \in Nodes /\ p.protocol = "tcp" /\ p \in Packets
  BY DEF TcpPackets, Nodes
<1>2. MatchRule(rule, p) <=> (rule.ports = <<>> \/ p.port \in ToSet(rule.ports))
  BY <1>1 DEF Expressible, MatchRule
<1>3. rule.ports \in Seq(Nat) /\ rule.action \in Actions
  BY DEF Rules
<1>4. \A j : Command(rule, j).target = "ACCEPT" <=> rule.action = "allow"
  BY <1>3 DEF Command, Actions, Expressible
<1>5. CASE rule.ports = <<>>
  <2>1. MatchCommand(Command(rule, 1), p) /\ Runs(rule) = 1
    BY <1>5 DEF MatchCommand, Command, Runs
  <2>. QED
    BY <1>2, <1>4, <1>5, <2>1
<1>6. CASE rule.ports # <<>>
  <2>1. Runs(rule) = Len(rule.ports) /\ DOMAIN rule.ports = 1 .. Len(rule.ports)
    BY <1>3, <1>6, LenProperties DEF Runs
  <2>2. ASSUME NEW j \in 1 .. Runs(rule)
        PROVE  MatchCommand(Command(rule, j), p) <=> p.port = rule.ports[j]
    <3>1. rule.ports[j] \in Nat
      BY <1>3, <2>1, ElementOfSeq
    <3>. QED
      BY <1>1, <1>6, <3>1, AccessAssumption DEF MatchCommand, Command
  <2>. QED
    BY <1>2, <1>4, <1>6, <2>1, <2>2 DEF ToSet
<1>. QED
  BY <1>5, <1>6

\* One turn of the loop.  A packet that is undecided either stays so or is decided
\* by this rule and this command; a decided one stays as it is.
LEMMA TurnKeeps ==
    ASSUME HostTypes, AllExpressible, AppendCommand,
           NEW p \in TcpPackets, Undecided(p) \/ Decided(p)
    PROVE  Undecided(p)' \/ Decided(p)'
<1>. DEFINE i == at[1]
            j == at[2]
            n == Len(chain)
            cmd == Command(list[i], j)
<1>1. i \in 1 .. Len(list) /\ j \in Nat \ {0} /\ Len(list) \in Nat
  BY LenProperties DEF AppendCommand, HostTypes
<1>2. list[i] \in Rules /\ Expressible(list[i])
  <2>1. DOMAIN list = 1 .. Len(list)
    BY LenProperties DEF HostTypes
  <2>. QED
    BY <1>1, <2>1, ElementOfSeq, AccessAssumption DEF HostTypes, AllExpressible
<1>3. j \in 1 .. Runs(list[i]) /\ Runs(list[i]) \in Nat
  BY <1>1, <1>2, RunsType DEF HostTypes
<1>4. cmd \in Cmds
  BY <1>2, <1>3, CommandType
<1>5. /\ list' = list /\ n \in Nat /\ Len(chain') = n + 1
      /\ \A k \in 1 .. n : chain'[k] = chain[k]
      /\ chain'[n + 1] = cmd
  <2>1. chain' = Append(chain, cmd) /\ list' = list
    BY DEF AppendCommand, Added
  <2>2. chain \in Seq(Cmds)
    BY DEF HostTypes
  <2>. HIDE DEF cmd
  <2>. QED
    BY <1>4, <2>1, <2>2, AppendProperties, LenProperties
<1>. HIDE DEF cmd, n
<1>6. CASE Decided(p)
  <2>1. PICK m \in Nat, k \in Nat :
             /\ FirstRule(list, p, m) /\ FirstCommand(chain, p, k)
             /\ chain[k].target = "ACCEPT" <=> list[m].action = "allow"
    BY <1>6 DEF Decided
  <2>2. FirstCommand(chain', p, k) /\ chain'[k] = chain[k]
    BY <1>5, <2>1 DEF FirstCommand, n
  <2>3. FirstRule(list', p, m)
    BY <1>5, <2>1 DEF FirstRule
  <2>. QED
    BY <1>5, <2>1, <2>2, <2>3 DEF Decided
<1>7. CASE Undecided(p) /\ MatchCommand(cmd, p)
  <2>1. MatchRule(list[i], p)
    BY <1>2, <1>3, <1>7, RuleAndCommands DEF cmd
  <2>2. FirstRule(list, p, i)
    BY <1>1, <1>7, <2>1 DEF Undecided, NotYet, FirstRule
  <2>3. FirstRule(list', p, i)
    BY <1>5, <2>2 DEF FirstRule
  <2>4. FirstCommand(chain', p, n + 1)
    BY <1>5, <1>7 DEF FirstCommand, Undecided, n
  <2>5. chain'[n + 1].target = "ACCEPT" <=> list'[i].action = "allow"
    BY <1>2, <1>5, RuleAndCommands DEF cmd
  <2>6. i \in Nat /\ n + 1 \in Nat
    BY <1>1, <1>5
  <2>. QED
    BY <2>3, <2>4, <2>5, <2>6 DEF Decided
<1>8. CASE Undecided(p) /\ ~MatchCommand(cmd, p)
  <2>1. \A k \in 1 .. Len(chain') : ~MatchCommand(chain'[k], p)
    BY <1>5, <1>8 DEF Undecided, n
  <2>2. \A k \in 1 .. j : ~MatchCommand(Command(list[i], k), p)
    BY <1>1, <1>8 DEF Undecided, NotYet, cmd
  <2>3. NotYet(p)'
    <3>1. CASE j < Runs(list[i])
      <4>1. at' = <<i, j + 1>>
        BY <3>1 DEF AppendCommand
      <4>. QED
        BY <1>1, <1>5, <1>8, <2>2, <4>1 DEF Undecided, NotYet
    <3>2. CASE ~(j < Runs(list[i]))
      <4>1. at' = <<i + 1, 1>> /\ j = Runs(list[i])
        BY <1>3, <3>2 DEF AppendCommand
      <4>2. ~MatchRule(list[i], p)
        BY <1>2, <2>2, <4>1, RuleAndCommands
      <4>. QED
        BY <1>1, <1>5, <1>8, <4>1, <4>2 DEF Undecided, NotYet
    <3>. QED
      BY <3>1, <3>2
  <2>. QED
    BY <2>1, <2>3 DEF Undecided
<1>. QED
  BY <1>6, <1>7, <1>8

LEMMA ChainStep ==
    ASSUME HostTypes, ChainInv, [Next]_vars
    PROVE  ChainInv'
<1>1. CASE UNCHANGED <<list, chain, at>>
  BY <1>1 DEF ChainInv, AllExpressible, Undecided, Decided, NotYet, FirstRule
<1>2. CASE Flush
  <2>1. chain' = <<>> /\ at' = <<1, 1>>
    BY <1>2 DEF Flush
  <2>2. \A p \in TcpPackets : Undecided(p)'
    BY <2>1 DEF Undecided, NotYet
  <2>. QED
    BY <2>2 DEF ChainInv
<1>3. CASE AppendCommand
  BY <1>3, TurnKeeps DEF ChainInv, AllExpressible, AppendCommand
<1>4. CASE ~(Flush \/ AppendCommand)
  <2>1. UNCHANGED <<list, chain, at>>
    BY <1>4 DEF Next, vars, host, CreateToken, ReadToken, CountUse, CountFails,
       CreateRule, Applied, ApplyFails
  <2>. QED
    BY <1>1, <2>1
<1>. QED
  BY <1>2, <1>3, <1>4

LEMMA ChainInit == Init => ChainInv
BY DEF Init, ChainInv, Undecided, NotYet

\* A rule that decides a packet decides it for the engine.
LEMMA EngineDecides ==
    ASSUME NEW p, NEW i \in Nat, FirstRule(list, p, i), list \in Seq(RuleSet)
    PROVE  IsAllowed(list, p) <=> list[i].action = "allow"
<1>1. DOMAIN list = 1 .. Len(list) /\ Len(list) \in Nat /\ list # <<>>
  BY LenProperties, EmptySeq DEF FirstRule
<1>2. ASSUME NEW k \in DOMAIN list, MatchRule(list[k], p),
             \A j \in 1 .. k - 1 : ~MatchRule(list[j], p)
      PROVE  k = i
  BY <1>1, <1>2 DEF FirstRule
<1>. QED
  BY <1>1, <1>2 DEF IsAllowed, FirstRule

\* With rules the chain can express it never decides a TCP packet otherwise than
\* the engine does, half filled or after a failed command included; once
\* apply_rules has succeeded it decides every packet that a rule matches
\* (firewall.py:25-52, acl.py:17-34).
THEOREM ChainIsEngine == Spec => []ChainFollowsEngine
<1>1. HostTypes /\ ChainInv => ChainFollowsEngine
  <2>. SUFFICES ASSUME HostTypes, ChainInv, AllExpressible, NEW p \in TcpPackets
                PROVE
         /\ \A target \in {"ACCEPT", "DROP"} : Decides(chain, p, target) =>
                (target = "ACCEPT" <=> IsAllowed(list, p))
         /\ (result = "true" /\ \E i \in DOMAIN list : MatchRule(list[i], p)) =>
                \E target \in {"ACCEPT", "DROP"} : Decides(chain, p, target)
    BY DEF ChainFollowsEngine, AllExpressible, TcpPackets
  <2>1. /\ chain \in Seq(Cmds) /\ DOMAIN chain = 1 .. Len(chain) /\ Len(chain) \in Nat
        /\ list \in Seq(RuleSet) /\ DOMAIN list = 1 .. Len(list) /\ Len(list) \in Nat
    BY LenProperties DEF HostTypes
  <2>2. CASE Undecided(p)
    <3>1. \A target : ~Decides(chain, p, target)
      BY <2>1, <2>2 DEF Decides, Undecided
    <3>2. ASSUME result = "true" PROVE \A i \in DOMAIN list : ~MatchRule(list[i], p)
      <4>1. at[1] = Len(list) + 1
        BY <2>1, <3>2 DEF HostTypes
      <4>. QED
        BY <2>1, <2>2, <4>1 DEF Undecided, NotYet
    <3>. QED
      BY <3>1, <3>2
  <2>3. CASE Decided(p)
    <3>1. PICK i \in Nat, k \in Nat :
               /\ FirstRule(list, p, i) /\ FirstCommand(chain, p, k)
               /\ chain[k].target = "ACCEPT" <=> list[i].action = "allow"
      BY <2>3 DEF Decided
    <3>2. chain[k].target \in {"ACCEPT", "DROP"}
      <4>1. chain[k] \in Cmds
        BY <2>1, <3>1, ElementOfSeq DEF FirstCommand
      <4>. QED
        BY <4>1 DEF Cmds
    <3>3. Decides(chain, p, chain[k].target)
      BY <2>1, <3>1 DEF Decides, FirstCommand
    <3>4. ASSUME NEW target \in {"ACCEPT", "DROP"}, Decides(chain, p, target)
          PROVE  target = chain[k].target
      <4>1. PICK m \in DOMAIN chain :
                 /\ MatchCommand(chain[m], p) /\ chain[m].target = target
                 /\ \A j \in 1 .. m - 1 : ~MatchCommand(chain[j], p)
        BY <3>4 DEF Decides
      <4>2. m = k
        BY <2>1, <3>1, <4>1 DEF FirstCommand
      <4>. QED
        BY <4>1, <4>2
    <3>5. IsAllowed(list, p) <=> list[i].action = "allow"
      BY <2>1, <3>1, EngineDecides
    <3>. QED
      BY <3>1, <3>2, <3>3, <3>4, <3>5
  <2>. QED
    BY <2>2, <2>3 DEF ChainInv
<1>. QED
  BY <1>1, HostShape, ChainInit, ChainStep, PTL DEF Spec
===============================================================================
