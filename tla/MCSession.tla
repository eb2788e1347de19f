------------------------------ MODULE MCSession ------------------------------
(***************************************************************************)
(* Two Nickel files and a data file.  a imports b, alone or after the data *)
(* file; b imports nothing, the data or, in a cycle, a; the texts b and    *)
(* the data may get include the faulty ones.                               *)
(***************************************************************************)
EXTENDS Session

CONSTANTS a, b, d, x

MCPaths == {a, b, d}
MCNickel == {a, b}
MCVars == {x}

Text(walk) ==
    [parses |-> TRUE, closed |-> TRUE, binds |-> NoVar, walk |-> walk,
     fields |-> {}, declared |-> {}]
SyntaxError == [Text(<<>>) EXCEPT !.parses = FALSE]
OpenType == [Text(<<>>) EXCEPT !.closed = FALSE]
Record(walk, fields, declared) ==
    [Text(walk) EXCEPT !.fields = fields, !.declared = declared]
Let(walk) == [Text(walk) EXCEPT !.binds = x]

MCInputs == {Text(<<a>>), Let(<<b>>), Text(<<x>>), Text(<<TypeError>>)}

MCContentsOf ==
    [p \in MCPaths |->
        CASE p = a -> {Record(<<b>>, {x}, {}), Text(<<d, b>>)}
          [] p = b -> {Text(<<d>>), Text(<<a>>), Text(<<TypeError>>), SyntaxError,
                       OpenType, Record(<<>>, {}, {x})}
          [] p = d -> {Text(<<>>), SyntaxError}]

OnDisk(text) == [text |-> text, ts |-> 0]

\* At the start a exists, b may be missing or have any of its texts, and the
\* data is in order.
MCDisks ==
    {[p \in MCPaths |-> CASE p = a -> OnDisk(ta)
                          [] p = b -> eb
                          [] p = d -> OnDisk(Text(<<>>))] :
        ta \in MCContentsOf[a], eb \in {NoFile} \cup {OnDisk(t) : t \in MCContentsOf[b]}}
=============================================================================
