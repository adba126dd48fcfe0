---------------------------- MODULE IdentityProofs ----------------------------
(***************************************************************************)
(* Proofs about Identity for every set of key pairs and addresses and any  *)
(* number of faults.  The inductive invariant is                           *)
(*     TypeOK /\ Genuine /\ OpenFiles /\ FindsItself /\ RestartResumes.    *)
(***************************************************************************)
EXTENDS Identity, TLAPS

\* CopiesAreGenuine, with the two places an address comes from: the
\* controller's book and the configuration just fetched.
Genuine ==
    /\ \A n \in NodeIds : book[n] # Absent => <<n, book[n]>> \in gave
    /\ \A p \in Places : file[p] \in Identities => <<file[p].node, file[p].addr>> \in gave
    /\ new \in Identities => <<new.node, new.addr>> \in gave
    /\ mine \in Identities => <<mine.node, mine.addr>> \in gave
    /\ daemon = "answered" => <<mine.node, offer>> \in gave

\* A file is empty from open() to write(), unless the other process writes it.
OpenFiles ==
    /\ (daemon = "saving" /\ (dir = "etc" \/ ~joined)) => file[dir] = Torn
    /\ (cli = "saving" /\ dir = "etc") => file["home"] = Torn

\* What a daemon with an identity would find, if it started now.
FindsItself ==
    (mine \in Identities /\ (joined => (dir = "etc" /\ file["etc"] # Missing))
        /\ Found \in Identities) => Found.node = mine.node

IInv == TypeOK /\ Genuine /\ OpenFiles /\ FindsItself /\ RestartResumes

LEMMA Initially == Init => IInv
<1>. SUFFICES ASSUME Init PROVE IInv
  OBVIOUS
<1>. USE IdentityAssumption DEF Init, Book!Init
<1>1. TypeOK
  <2>1. /\ book \in [NodeIds -> Addresses \cup {Absent}]
        /\ gave \subseteq NodeIds \X Addresses
        /\ file \in [Places -> Identities \cup {Missing, Torn}]
    OBVIOUS
  <2>2. changes \in 0 .. MaxChanges /\ faults \in 0 .. MaxFaults
    OBVIOUS
  <2>3. dir \in Places /\ minted \subseteq NodeIds /\ joined \in BOOLEAN
    OBVIOUS
  <2>. QED
    BY <2>1, <2>2, <2>3 DEF TypeOK
<1>2. Missing \notin Identities /\ Nothing \notin Identities
  OBVIOUS
<1>3. Genuine
  BY <1>2 DEF Genuine, Places
<1>. QED
  BY <1>1, <1>3
  DEF IInv, OpenFiles, FindsItself, RestartResumes, Resumable, OwnFiles

\* Types.
LEMMA TypesKept ==
    ASSUME TypeOK, [Next]_vars
    PROVE  TypeOK'
<1>. USE IdentityAssumption
<1>1. CASE ControllerChanges
  BY <1>1
  DEF ControllerChanges, Given, Book!Release, Book!Renumber, Book!Holders, TypeOK, Identities, Places, controller, joining, running
<1>2. CASE Register
  BY <1>2
  DEF Register, Given, NoFault, Book!Assign, TypeOK, Identities, Places, controller, joining, running
<1>3. CASE OpenUserFile
  BY <1>3
  DEF OpenUserFile, NoFault, TypeOK, Identities, Places, controller, joining, running
<1>4. CASE WriteUserFile
  BY <1>4
  DEF WriteUserFile, Written, NoFault, TypeOK, Identities, Places, controller, joining, running
<1>5. CASE JoinFails
  BY <1>5
  DEF JoinFails, Fault, TypeOK, Identities, Places, controller, joining, running
<1>6. CASE Start
  BY <1>6
  DEF Start, Found, NoFault, TypeOK, Identities, Places, controller, joining, running
<1>7. CASE Fetch
  BY <1>7
  DEF Fetch, NoFault, TypeOK, Identities, Places, controller, joining, running
<1>8. CASE Unmoved
  BY <1>8
  DEF Unmoved, NoFault, TypeOK, Identities, Places, controller, joining, running
<1>9. CASE Moved
  BY <1>9
  DEF Moved, NoFault, TypeOK, Identities, Places, controller, joining, running
<1>10. CASE Save
  BY <1>10
  DEF Save, Written, NoFault, TypeOK, Identities, Places, controller, joining, running
<1>11. CASE SaveFails
  BY <1>11
  DEF SaveFails, Fault, TypeOK, Identities, Places, controller, joining, running
<1>12. CASE Stop
  BY <1>12
  DEF Stop, Fault, NoFault, TypeOK, Identities, Places, controller, joining, running
<1>13. CASE UNCHANGED vars
  BY <1>13 DEF vars, TypeOK, Identities, Places, controller, joining, running
<1>. QED
  BY <1>1, <1>2, <1>3, <1>4, <1>5, <1>6, <1>7, <1>8, <1>9,
     <1>10, <1>11, <1>12, <1>13
  DEF Next, SyncLoop

\* An address is taken over from the controller only, for the node it was given to.
LEMMA GenuineKept ==
    ASSUME TypeOK, Genuine, [Next]_vars
    PROVE  Genuine'
<1>. USE IdentityAssumption
<1>1. CASE ControllerChanges
  BY <1>1
  DEF ControllerChanges, Given, Book!Release, Book!Renumber, Book!Holders, TypeOK, Genuine, Identities, Places, controller, joining, running
<1>2. CASE Register
  BY <1>2
  DEF Register, Given, NoFault, Book!Assign, TypeOK, Genuine, Identities, Places, controller, joining, running
<1>3. CASE OpenUserFile
  BY <1>3
  DEF OpenUserFile, NoFault, TypeOK, Genuine, Identities, Places, controller, joining, running
<1>4. CASE WriteUserFile
  BY <1>4
  DEF WriteUserFile, Written, NoFault, TypeOK, Genuine, Identities, Places, controller, joining, running
<1>5. CASE JoinFails
  BY <1>5
  DEF JoinFails, Fault, TypeOK, Genuine, Identities, Places, controller, joining, running
<1>6. CASE Start
  BY <1>6
  DEF Start, Found, NoFault, TypeOK, Genuine, Identities, Places, controller, joining, running
<1>7. CASE Fetch
  BY <1>7
  DEF Fetch, NoFault, TypeOK, Genuine, Identities, Places, controller, joining, running
<1>8. CASE Unmoved
  BY <1>8
  DEF Unmoved, NoFault, TypeOK, Genuine, Identities, Places, controller, joining, running
<1>9. CASE Moved
  BY <1>9
  DEF Moved, NoFault, TypeOK, Genuine, Identities, Places, controller, joining, running
<1>10. CASE Save
  BY <1>10
  DEF Save, Written, NoFault, TypeOK, Genuine, Identities, Places, controller, joining, running
<1>11. CASE SaveFails
  BY <1>11
  DEF SaveFails, Fault, TypeOK, Genuine, Identities, Places, controller, joining, running
<1>12. CASE Stop
  BY <1>12
  DEF Stop, Fault, NoFault, TypeOK, Genuine, Identities, Places, controller, joining, running
<1>13. CASE UNCHANGED vars
  BY <1>13 DEF vars, TypeOK, Genuine, Identities, Places, controller, joining, running
<1>. QED
  BY <1>1, <1>2, <1>3, <1>4, <1>5, <1>6, <1>7, <1>8, <1>9,
     <1>10, <1>11, <1>12, <1>13
  DEF Next, SyncLoop

\* A join and a daemon with a directory of its own do not write the same file.
LEMMA OpenFilesKept ==
    ASSUME TypeOK, OpenFiles, [Next]_vars
    PROVE  OpenFiles'
<1>. USE IdentityAssumption
<1>1. CASE ControllerChanges
  BY <1>1
  DEF ControllerChanges, Given, Book!Release, Book!Renumber, Book!Holders, TypeOK, OpenFiles, Identities, Places, controller, joining, running
<1>2. CASE Register
  BY <1>2
  DEF Register, Given, NoFault, Book!Assign, TypeOK, OpenFiles, Identities, Places, controller, joining, running
<1>3. CASE OpenUserFile
  BY <1>3
  DEF OpenUserFile, NoFault, TypeOK, OpenFiles, Identities, Places, controller, joining, running
<1>4. CASE WriteUserFile
  BY <1>4
  DEF WriteUserFile, Written, NoFault, TypeOK, OpenFiles, Identities, Places, controller, joining, running
<1>5. CASE JoinFails
  BY <1>5
  DEF JoinFails, Fault, TypeOK, OpenFiles, Identities, Places, controller, joining, running
<1>6. CASE Start
  BY <1>6
  DEF Start, Found, NoFault, TypeOK, OpenFiles, Identities, Places, controller, joining, running
<1>7. CASE Fetch
  BY <1>7
  DEF Fetch, NoFault, TypeOK, OpenFiles, Identities, Places, controller, joining, running
<1>8. CASE Unmoved
  BY <1>8
  DEF Unmoved, NoFault, TypeOK, OpenFiles, Identities, Places, controller, joining, running
<1>9. CASE Moved
  BY <1>9
  DEF Moved, NoFault, TypeOK, OpenFiles, Identities, Places, controller, joining, running
<1>10. CASE Save
  BY <1>10
  DEF Save, Written, NoFault, TypeOK, OpenFiles, Identities, Places, controller, joining, running
<1>11. CASE SaveFails
  BY <1>11
  DEF SaveFails, Fault, TypeOK, OpenFiles, Identities, Places, controller, joining, running
<1>12. CASE Stop
  BY <1>12
  DEF Stop, Fault, NoFault, TypeOK, OpenFiles, Identities, Places, controller, joining, running
<1>13. CASE UNCHANGED vars
  BY <1>13 DEF vars, TypeOK, OpenFiles, Identities, Places, controller, joining, running
<1>. QED
  BY <1>1, <1>2, <1>3, <1>4, <1>5, <1>6, <1>7, <1>8, <1>9,
     <1>10, <1>11, <1>12, <1>13
  DEF Next, SyncLoop

\* What a file holds, if it can be read, is of the node that runs.
LEMMA FindsKept ==
    ASSUME TypeOK, OpenFiles, FindsItself, [Next]_vars
    PROVE  FindsItself'
<1>. USE IdentityAssumption
<1>1. CASE ControllerChanges
  BY <1>1
  DEF ControllerChanges, Given, Book!Release, Book!Renumber, Book!Holders, TypeOK, OpenFiles, FindsItself, Found, Identities, Places, controller, joining, running
<1>2. CASE Register
  BY <1>2
  DEF Register, Given, NoFault, Book!Assign, TypeOK, OpenFiles, FindsItself, Found, Identities, Places, controller, joining, running
<1>3. CASE OpenUserFile
  BY <1>3
  DEF OpenUserFile, NoFault, TypeOK, OpenFiles, FindsItself, Found, Identities, Places, controller, joining, running
<1>4. CASE WriteUserFile
  BY <1>4
  DEF WriteUserFile, Written, NoFault, TypeOK, OpenFiles, FindsItself, Found, Identities, Places, controller, joining, running
<1>5. CASE JoinFails
  BY <1>5
  DEF JoinFails, Fault, TypeOK, OpenFiles, FindsItself, Found, Identities, Places, controller, joining, running
<1>6. CASE Start
  BY <1>6
  DEF Start, Found, NoFault, TypeOK, OpenFiles, FindsItself, Found, Identities, Places, controller, joining, running
<1>7. CASE Fetch
  BY <1>7
  DEF Fetch, NoFault, TypeOK, OpenFiles, FindsItself, Found, Identities, Places, controller, joining, running
<1>8. CASE Unmoved
  BY <1>8
  DEF Unmoved, NoFault, TypeOK, OpenFiles, FindsItself, Found, Identities, Places, controller, joining, running
<1>9. CASE Moved
  BY <1>9
  DEF Moved, NoFault, TypeOK, OpenFiles, FindsItself, Found, Identities, Places, controller, joining, running
<1>10. CASE Save
  BY <1>10
  DEF Save, Written, NoFault, TypeOK, OpenFiles, FindsItself, Found, Identities, Places, controller, joining, running
<1>11. CASE SaveFails
  BY <1>11
  DEF SaveFails, Fault, TypeOK, OpenFiles, FindsItself, Found, Identities, Places, controller, joining, running
<1>12. CASE Stop
  BY <1>12
  DEF Stop, Fault, NoFault, TypeOK, OpenFiles, FindsItself, Found, Identities, Places, controller, joining, running
<1>13. CASE UNCHANGED vars
  BY <1>13 DEF vars, TypeOK, OpenFiles, FindsItself, Found, Identities, Places, controller, joining, running
<1>. QED
  BY <1>1, <1>2, <1>3, <1>4, <1>5, <1>6, <1>7, <1>8, <1>9,
     <1>10, <1>11, <1>12, <1>13
  DEF Next, SyncLoop

\* What the daemon would load is what it runs with.
LEMMA ResumesKept ==
    ASSUME TypeOK, OpenFiles, RestartResumes, [Next]_vars
    PROVE  RestartResumes'
<1>. USE IdentityAssumption
<1>1. CASE ControllerChanges
  BY <1>1
  DEF ControllerChanges, Given, Book!Release, Book!Renumber, Book!Holders, TypeOK, OpenFiles, RestartResumes, Resumable, OwnFiles, Found, Identities, Places, controller, joining, running
<1>2. CASE Register
  BY <1>2
  DEF Register, Given, NoFault, Book!Assign, TypeOK, OpenFiles, RestartResumes, Resumable, OwnFiles, Found, Identities, Places, controller, joining, running
<1>3. CASE OpenUserFile
  BY <1>3
  DEF OpenUserFile, NoFault, TypeOK, OpenFiles, RestartResumes, Resumable, OwnFiles, Found, Identities, Places, controller, joining, running
<1>4. CASE WriteUserFile
  BY <1>4
  DEF WriteUserFile, Written, NoFault, TypeOK, OpenFiles, RestartResumes, Resumable, OwnFiles, Found, Identities, Places, controller, joining, running
<1>5. CASE JoinFails
  BY <1>5
  DEF JoinFails, Fault, TypeOK, OpenFiles, RestartResumes, Resumable, OwnFiles, Found, Identities, Places, controller, joining, running
<1>6. CASE Start
  BY <1>6
  DEF Start, Found, NoFault, TypeOK, OpenFiles, RestartResumes, Resumable, OwnFiles, Found, Identities, Places, controller, joining, running
<1>7. CASE Fetch
  BY <1>7
  DEF Fetch, NoFault, TypeOK, OpenFiles, RestartResumes, Resumable, OwnFiles, Found, Identities, Places, controller, joining, running
<1>8. CASE Unmoved
  BY <1>8
  DEF Unmoved, NoFault, TypeOK, OpenFiles, RestartResumes, Resumable, OwnFiles, Found, Identities, Places, controller, joining, running
<1>9. CASE Moved
  BY <1>9
  DEF Moved, NoFault, TypeOK, OpenFiles, RestartResumes, Resumable, OwnFiles, Found, Identities, Places, controller, joining, running
<1>10. CASE Save
  BY <1>10
  DEF Save, Written, NoFault, TypeOK, OpenFiles, RestartResumes, Resumable, OwnFiles, Found, Identities, Places, controller, joining, running
<1>11. CASE SaveFails
  BY <1>11
  DEF SaveFails, Fault, TypeOK, OpenFiles, RestartResumes, Resumable, OwnFiles, Found, Identities, Places, controller, joining, running
<1>12. CASE Stop
  BY <1>12
  DEF Stop, Fault, NoFault, TypeOK, OpenFiles, RestartResumes, Resumable, OwnFiles, Found, Identities, Places, controller, joining, running
<1>13. CASE UNCHANGED vars
  BY <1>13 DEF vars, TypeOK, OpenFiles, RestartResumes, Resumable, OwnFiles, Found, Identities, Places, controller, joining, running
<1>. QED
  BY <1>1, <1>2, <1>3, <1>4, <1>5, <1>6, <1>7, <1>8, <1>9,
     <1>10, <1>11, <1>12, <1>13
  DEF Next, SyncLoop

THEOREM Invariance == Spec => []IInv
<1>1. IInv /\ [Next]_vars => IInv'
  BY TypesKept, GenuineKept, OpenFilesKept, FindsKept, ResumesKept DEF IInv
<1>. QED
  BY Initially, <1>1, PTL DEF Spec

\* Every variable has its type; the daemon has an identity while it runs.
THEOREM TypeCorrect == Spec => []TypeOK
BY Invariance, PTL DEF IInv

\* No file and no process ever pairs a node with an address of another.
THEOREM CopiesGenuine == Spec => []CopiesAreGenuine
<1>1. IInv => CopiesAreGenuine
  BY IdentityAssumption
  DEF IInv, TypeOK, Genuine, CopiesAreGenuine, Copies, Identities
<1>. QED
  BY Invariance, <1>1, PTL

\* Whatever fails, a restart resumes as the node that ran, or finds a file that
\* cannot be read.
THEOREM RestartsKeepNode == Spec => []RestartKeepsNode
<1>1. IInv => RestartKeepsNode
  BY DEF IInv, TypeOK, FindsItself, RestartKeepsNode, OwnFiles, Found, Places
<1>. QED
  BY Invariance, <1>1, PTL

\* Without faults a restart resumes the identity the daemon ran with.
THEOREM RestartsResume == Spec => []RestartResumes
BY Invariance, PTL DEF IInv
===============================================================================
