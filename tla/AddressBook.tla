----------------------------- MODULE AddressBook -----------------------------
(***************************************************************************)
(* What the PyMesh controller promises about mesh addresses, with no       *)
(* database, no requests and no allocator in sight: a book that gives each *)
(* registered node one IPv4 and one IPv6 address, never the same one to    *)
(* two nodes.  The module Controller implements it.                        *)
(***************************************************************************)

CONSTANTS
    NodeIds,    \* identities that may register
    Addresses,  \* records [v4, v6]
    Absent      \* the entry of a node that is not registered

VARIABLE book

Holders == {n \in NodeIds : book[n] # Absent}

Clash(a, b) == a.v4 = b.v4 \/ a.v6 = b.v6

\* No two holders share an address of either family.
Injective(b) ==
    \A m, n \in NodeIds :
        (m # n /\ b[m] # Absent /\ b[n] # Absent) => ~Clash(b[m], b[n])

Init == book = [n \in NodeIds |-> Absent]

\* A node that holds nothing is given an address nobody holds.
Assign(n) ==
    /\ book[n] = Absent
    /\ \E a \in Addresses :
        /\ book' = [book EXCEPT ![n] = a]
        /\ \A m \in Holders : ~Clash(a, book[m])

\* A holder gives its address up.
Release(n) ==
    /\ n \in Holders
    /\ book' = [book EXCEPT ![n] = Absent]

\* All holders may be moved at once; nobody joins or leaves on the way.
Renumber ==
    /\ book' \in [NodeIds -> Addresses \cup {Absent}]
    /\ \A n \in NodeIds : book'[n] = Absent <=> book[n] = Absent
    /\ Injective(book')

Next ==
    \/ \E n \in NodeIds : Assign(n) \/ Release(n)
    \/ Renumber

Spec == Init /\ [][Next]_book
==============================================================================
