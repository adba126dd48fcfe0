-------------------------------- MODULE Access --------------------------------
(***************************************************************************)
(* Who may join and who may talk: join tokens, which a registration uses   *)
(* up (controller/auth.py), and ACL rules (api.py), which ACLEngine        *)
(* evaluates (acl.py) and FirewallManager turns into an iptables chain,    *)
(* one command after the other (networking/firewall.py).                   *)
(***************************************************************************)
EXTENDS Naturals, Sequences, SequencesExt

CONSTANTS
    Requests,       \* concurrent registrations that carry a token
    Tokens,
    Limits,         \* the values of max_uses; the endpoint sets NoLimit
    NoLimit,
    Absent,         \* no such token
    RuleSet,        \* the rules that may be added
    AnyPort,        \* a command that names no port
    Packets,        \* records [src, dst, port, protocol]
    MaxAdmissions,  \* bound on the uses of a token
    MaxRules        \* bound on the rows of acl_rules

\* A selector is the set of nodes it matches, "*" all of them.  No ports or no
\* protocols means any.
Actions == {"allow", "ALLOW", "deny"}
Nodes == {p.src : p \in Packets} \cup {p.dst : p \in Packets}
Rules == [source : SUBSET Nodes, destination : SUBSET Nodes, action : Actions,
          ports : Seq(Nat), protocols : SUBSET {"tcp", "udp"}]

ASSUME AccessAssumption ==
    /\ Absent \notin Nat /\ NoLimit \notin Nat /\ AnyPort \notin Nat
    /\ Limits \subseteq (Nat \ {0}) \cup {NoLimit}
    /\ RuleSet \subseteq Rules
    /\ MaxAdmissions \in Nat /\ MaxRules \in Nat

\* How many iptables -A commands a rule runs.
Runs(rule) == IF rule.ports = <<>> THEN 1 ELSE Len(rule.ports)

VARIABLES
    used,      \* token -> used_count, or Absent
    limit,     \* token -> max_uses
    count,     \* request -> <<token, the used_count it has read>>, or <<>>
    admitted,  \* history: token -> registrations it let through
    refused,   \* history: existing tokens that were refused
    acl,       \* the rows of acl_rules, in the order of their insertion
    list,      \* the rules apply_rules was last called with and got past -F
    chain,     \* PYMESH_ACL: records [port, target]
    at,        \* the loop over list: <<rule, port>>, where it is or stopped
    result     \* what apply_rules returned, or "none" while it runs

tokens == <<used, limit, count, admitted, refused>>
host == <<list, chain, at, result>>
vars == <<tokens, acl, host>>

TypeOK ==
    /\ used \in [Tokens -> 0 .. MaxAdmissions \cup {Absent}]
    /\ limit \in [Tokens -> Limits \cup {NoLimit}]
    /\ \A r \in Requests :
        count[r] # <<>> => /\ count[r][1] \in Tokens /\ count[r][2] \in Nat
                           /\ used[count[r][1]] # Absent
    /\ admitted \in [Tokens -> 0 .. MaxAdmissions]
    /\ refused \subseteq {t \in Tokens : used[t] # Absent}
    /\ acl \in Seq(RuleSet) /\ list \in Seq(RuleSet)
    /\ chain \in Seq([port : Nat \cup {AnyPort}, target : {"ACCEPT", "DROP"}])
    /\ at \in (1 .. Len(list) + 1) \X (Nat \ {0})
    /\ at[1] <= Len(list) => at[2] <= Runs(list[at[1]])
    /\ result \in {"none", "true", "false"}
    /\ result = "true" => at[1] > Len(list)

Init ==
    /\ used = [t \in Tokens |-> Absent]
    /\ limit = [t \in Tokens |-> NoLimit]
    /\ count = [r \in Requests |-> <<>>]
    /\ admitted = [t \in Tokens |-> 0] /\ refused = {}
    /\ acl = <<>>
    /\ list = <<>> /\ chain = <<>> /\ at = <<1, 1>> /\ result = "true"

(***************************************************************************)
(* Join tokens.                                                            *)
(***************************************************************************)
CreateToken(t, m) ==
    /\ used[t] = Absent
    /\ used' = [used EXCEPT ![t] = 0]
    /\ limit' = [limit EXCEPT ![t] = m]
    /\ UNCHANGED <<count, admitted, refused, acl, host>>

\* Seeded fault: one use too few.
SpentBefore(t) == limit[t] # NoLimit /\ used[t] + 1 >= limit[t]

Spent(t) == limit[t] # NoLimit /\ used[t] >= limit[t]

\* The SELECT of validate_token.  No such token: 401.
ReadToken(r, t) ==
    /\ count[r] = <<>> /\ used[t] # Absent
    /\ IF Spent(t)
       THEN refused' = refused \cup {t} /\ UNCHANGED count
       ELSE count' = [count EXCEPT ![r] = <<t, used[t]>>] /\ UNCHANGED refused
    /\ UNCHANGED <<used, limit, admitted, acl, host>>

\* Seeded fault: the request was counted when it read the token, and is again.
CountTwice(r) ==
    /\ count[r] # <<>> /\ admitted[count[r][1]] < MaxAdmissions
    /\ used' = [used EXCEPT ![count[r][1]] = count[r][2] + 2]
    /\ admitted' = [admitted EXCEPT ![count[r][1]] = @ + 1]
    /\ count' = [count EXCEPT ![r] = <<>>]
    /\ UNCHANGED <<limit, refused, acl, host>>

\* The UPDATE writes what was read, plus one, whatever the row holds by now.
CountUse(r) ==
    /\ count[r] # <<>> /\ admitted[count[r][1]] < MaxAdmissions
    /\ used' = [used EXCEPT ![count[r][1]] = count[r][2] + 1]
    /\ admitted' = [admitted EXCEPT ![count[r][1]] = @ + 1]
    /\ count' = [count EXCEPT ![r] = <<>>]
    /\ UNCHANGED <<limit, refused, acl, host>>

\* The database is locked, or the controller stops.
CountFails(r) ==
    /\ count[r] # <<>>
    /\ count' = [count EXCEPT ![r] = <<>>]
    /\ UNCHANGED <<used, limit, admitted, refused, acl, host>>

(***************************************************************************)
(* ACL rules: PUT /acl and ACLEngine.                                      *)
(***************************************************************************)
CreateRule(rule) ==
    /\ Len(acl) < MaxRules
    /\ acl' = Append(acl, rule)
    /\ UNCHANGED <<tokens, host>>

MatchRule(rule, p) ==
    /\ p.src \in rule.source /\ p.dst \in rule.destination
    /\ rule.ports = <<>> \/ p.port \in ToSet(rule.ports)
    /\ rule.protocols = {} \/ p.protocol \in rule.protocols

\* The first rule that matches decides; none at all means allow.
IsAllowed(rules, p) ==
    \/ rules = <<>>
    \/ \E i \in DOMAIN rules :
        /\ MatchRule(rules[i], p) /\ rules[i].action = "allow"
        /\ \A j \in 1 .. i - 1 : ~MatchRule(rules[j], p)

(***************************************************************************)
(* FirewallManager on one host, with the rules as GET /acl lists them.     *)
(***************************************************************************)
\* Seeded fault: the newest command comes first.
Inserted(c, cmd) == <<cmd>> \o c

Added(c, cmd) == Append(c, cmd)

\* Source, destination and protocols play no part; action is upper-cased.
Command(rule, j) ==
    [port |-> IF rule.ports = <<>> THEN AnyPort ELSE rule.ports[j],
     target |-> IF rule.action \in {"allow", "ALLOW"} THEN "ACCEPT" ELSE "DROP"]

\* -N, which fails if the chain exists, and -F.
Flush ==
    /\ result # "none"
    /\ list' = acl /\ chain' = <<>> /\ at' = <<1, 1>>
    /\ result' = "none"
    /\ UNCHANGED <<tokens, acl>>

\* One turn of the loop over the ports of a rule, in the loop over the rules.
AppendCommand ==
    LET i == at[1]
        j == at[2]
    IN  /\ result = "none" /\ i <= Len(list)
        /\ chain' = Added(chain, Command(list[i], j))
        /\ at' = IF j < Runs(list[i]) THEN <<i, j + 1>> ELSE <<i + 1, 1>>
        /\ UNCHANGED <<tokens, acl, list, result>>

Applied ==
    /\ result = "none" /\ at[1] > Len(list)
    /\ result' = "true"
    /\ UNCHANGED <<tokens, acl, list, chain, at>>

\* A command fails, -F included: apply_rules returns False and leaves the chain
\* as it is.
ApplyFails ==
    /\ result' = "false"
    /\ UNCHANGED <<tokens, acl, list, chain, at>>

\* -p tcp --dport, or any packet of the interface.
MatchCommand(c, p) == c.port = AnyPort \/ (p.protocol = "tcp" /\ p.port = c.port)

\* The first command of c that matches p jumps to target.
Decides(c, p, target) ==
    \E i \in DOMAIN c :
        /\ MatchCommand(c[i], p) /\ c[i].target = target
        /\ \A j \in 1 .. i - 1 : ~MatchCommand(c[j], p)

Next ==
    \/ \E t \in Tokens, m \in Limits : CreateToken(t, m)
    \/ \E r \in Requests, t \in Tokens : ReadToken(r, t)
    \/ \E r \in Requests : CountUse(r) \/ CountFails(r)
    \/ \E rule \in RuleSet : CreateRule(rule)
    \/ Flush \/ AppendCommand \/ Applied \/ ApplyFails

Spec == Init /\ [][Next]_vars

(***************************************************************************)
(* Properties.                                                             *)
(***************************************************************************)
\* A token is refused only after it has let max_uses registrations through: with
\* increments lost it lasts longer, and it is never refused too early
\* (auth.py:44-48).
NotRefusedEarly ==
    \A t \in refused : limit[t] # NoLimit /\ admitted[t] >= limit[t]

\* What the chain can express: everyone, TCP, the action in lower case.
Expressible(rule) ==
    /\ rule.source = Nodes /\ rule.destination = Nodes
    /\ rule.action # "ALLOW"
    /\ rule.protocols = {} \/ "tcp" \in rule.protocols

\* With such rules the chain never decides a TCP packet otherwise than the engine
\* does, even half filled or after a failure; and once apply_rules has
\* succeeded it decides every packet that a rule matches (firewall.py:25-52).
ChainFollowsEngine ==
    (\A i \in DOMAIN list : Expressible(list[i])) =>
        \A p \in {q \in Packets : q.protocol = "tcp"} :
            /\ \A target \in {"ACCEPT", "DROP"} : Decides(chain, p, target) =>
                    (target = "ACCEPT" <=> IsAllowed(list, p))
            /\ (result = "true" /\ \E i \in DOMAIN list : MatchRule(list[i], p)) =>
                    \E target \in {"ACCEPT", "DROP"} : Decides(chain, p, target)
==============================================================================
