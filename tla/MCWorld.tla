------------------------------ MODULE MCWorld ------------------------------
(***************************************************************************)
(* Three files: a imports b, and c first in one of its texts; b imports c. *)
(* Every file has its own name and is the only candidate for it.           *)
(***************************************************************************)
EXTENDS World

CONSTANTS a, b, c

Text(body) == [parses |-> TRUE, body |-> body]
Unparseable == [parses |-> FALSE, body |-> <<>>]
OnDisk(body) == [ts |-> 0, content |-> Text(body)]

MCFiles == {a, b, c}
MCCandidates == [f \in MCFiles |-> <<f>>]
MCFileName == [f \in MCFiles |-> f]

AcyclicContents ==
    [f \in MCFiles |->
        CASE f = a -> {Text(<<b>>), Text(<<c, b>>)}
          [] f = b -> {Text(<<c>>), Text(<<>>), Unparseable}
          [] f = c -> {Text(<<>>), Text(<<TypeError>>)}]

AcyclicDisks ==
    {[f \in MCFiles |-> NoFile],
     [f \in MCFiles |-> CASE f = a -> NoFile
                          [] f = b -> OnDisk(<<c>>)
                          [] f = c -> OnDisk(<<TypeError>>)]}

=============================================================================
